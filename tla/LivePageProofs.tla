--------------------------- MODULE LivePageProofs ---------------------------
(***************************************************************************)
(* Theorems about LivePage and the two parts it is built on, EventFanout   *)
(* and Collaboration: for any streams, people, calls, mixes of operations  *)
(* and bounds.                                                             *)
(***************************************************************************)
EXTENDS LivePage, SequenceTheorems, FiniteSetTheorems, TLAPS

-----------------------------------------------------------------------------
(* The fan-out: what its invariant says.                                    *)

Event ==
  [type : {"approval", "comment"}, about : Requests \cup Comments \cup {None}, by : Calls]
  \cup [type : {"notification"}, unread : Nat, by : Calls]

Message == {Reply(s) : s \in Streams} \cup Event

QueuesInv == orders \in Seq(Command) /\ wire \in Seq(Message)

\* What Redis has when it has done what it was told.
Final == IF orders = <<>> THEN subscribed ELSE orders[Len(orders)][1] = "subscribe"

\* A subscribe, or the answer to one, is on its way.
Ordered(s, i) == i \in 1..Len(orders) /\ orders[i] = <<"subscribe", s>>
Replied(s, i) == i \in 1..Len(wire) /\ wire[i] = Reply(s)

\* The await of an attach ends once.
AwaitInv ==
  \A s \in Streams :
    /\ \A i \in Nat : Ordered(s, i) \/ Replied(s, i) => streams[s].at = "waiting"
    /\ \A i, j \in Nat : Ordered(s, i) /\ Ordered(s, j) => i = j
    /\ \A i, j \in Nat : Replied(s, i) /\ Replied(s, j) => i = j
    /\ \A i, j \in Nat : ~(Ordered(s, i) /\ Replied(s, j))

\* The subscription follows the registered Map.
SubscribedInv == registered # None <=> Final

\* A stream holds on to a Map that was made, its own as long as it waits.
MapsInv ==
  /\ registered # None => streams[registered].at # "off"
  /\ \A s \in Streams :
       /\ streams[s].at = "off" => members[s] = {} /\ ~streams[s].closed
       /\ streams[s].at # "off" => streams[s].map \in Streams
       /\ streams[s].at # "off" => streams[streams[s].map].at # "off"
       /\ Waiting(s) => streams[s].map = s

\* Whose Map nobody took along while it was made still has it registered, and
\* with it whoever attached there.
KeptInv ==
  \A s \in Streams :
    /\ Waiting(s) => registered = s \/ streams[s].visitors # {}
    /\ streams[s].at = "attached" /\ ~streams[s].closed =>
         \/ registered = streams[s].map /\ s \in members[registered]
         \/ streams[streams[s].map].visitors # {}

\* Only a stream that was closed while it waited is listened for afterwards.
LeftInv ==
  /\ \A s \in Streams : Waiting(s) /\ streams[s].closed => s \in streams[s].visitors
  /\ registered # None =>
       \A s \in members[registered] : streams[s].closed => s \in streams[s].visitors

FanInv == /\ FanoutTypeOK /\ QueuesInv /\ AwaitInv /\ SubscribedInv
          /\ MapsInv /\ KeptInv /\ LeftInv

-----------------------------------------------------------------------------
(* The fan-out: the queues.                                                 *)

LEMMA AppendIs ==
  ASSUME NEW S, NEW seq \in Seq(S), NEW e \in S
  PROVE  /\ Append(seq, e) \in Seq(S) /\ Append(seq, e) # <<>>
         /\ Len(Append(seq, e)) = Len(seq) + 1
         /\ Append(seq, e)[Len(seq) + 1] = e
         /\ \A i \in 1..Len(seq) : Append(seq, e)[i] = seq[i]
OBVIOUS

LEMMA TailIs ==
  ASSUME NEW S, NEW seq \in Seq(S), seq # <<>>
  PROVE  /\ Tail(seq) \in Seq(S) /\ Len(Tail(seq)) = Len(seq) - 1
         /\ Len(seq) \in Nat \ {0}
         /\ Head(seq) \in S /\ Head(seq) = seq[1]
         /\ \A i \in 1..Len(Tail(seq)) : Tail(seq)[i] = seq[i + 1]
         /\ (Tail(seq) = <<>> <=> Len(seq) = 1)
<1>1. Len(seq) \in Nat \ {0}
  BY EmptySeq
<1>2. /\ Tail(seq) \in Seq(S) /\ Len(Tail(seq)) = Len(seq) - 1
      /\ Head(seq) \in S
      /\ \A i \in 1..Len(Tail(seq)) : Tail(seq)[i] = seq[i + 1]
  BY HeadTailProperties
<1>3. Head(seq) = seq[1]
  OBVIOUS
<1>4. Tail(seq) = <<>> <=> Len(Tail(seq)) = 0
  BY <1>2, EmptySeq
<1>5. QED BY <1>1, <1>2, <1>3, <1>4

LEMMA CommandIs ==
  ASSUME NEW s \in Streams
  PROVE  /\ <<"subscribe", s>> \in Command /\ <<"unsubscribe", s>> \in Command
         /\ Reply(s) \in Message /\ Reply(s).type = "reply" /\ Reply(s).stream = s
         /\ \A t \in Streams : Reply(s) = Reply(t) => s = t
BY DEF Command, Reply, Message

LEMMA EventIs ==
  ASSUME NEW e \in Event
  PROVE  e \in Message /\ e.type # "reply" /\ \A s \in Streams : e # Reply(s)
BY DEF Event, Message, Reply

\* A step that leaves the queues alone or publishes an event.
LEMMA QuietQueues ==
  ASSUME QueuesInv, AwaitInv, UNCHANGED orders,
         \/ UNCHANGED wire
         \/ \E e \in Event : wire' = Append(wire, e)
         \/ wire # <<>> /\ wire' = Tail(wire),
         \A s \in Streams : streams[s].at = "waiting" => streams'[s].at = "waiting"
  PROVE  QueuesInv' /\ AwaitInv'
<1>1. \A s \in Streams, i \in Nat : Ordered(s, i)' = Ordered(s, i)
  BY DEF Ordered
<1>2. CASE UNCHANGED wire
  BY <1>1, <1>2 DEF QueuesInv, AwaitInv, Replied
<1>3. ASSUME NEW e \in Event, wire' = Append(wire, e) PROVE QueuesInv' /\ AwaitInv'
  <2>1. e \in Message /\ \A s \in Streams : e # Reply(s)
    BY EventIs
  <2>2. /\ wire' \in Seq(Message) /\ Len(wire') = Len(wire) + 1
        /\ wire'[Len(wire) + 1] = e
        /\ \A i \in 1..Len(wire) : wire'[i] = wire[i]
    BY <1>3, <2>1, AppendIs DEF QueuesInv
  <2>3. \A s \in Streams, i \in Nat : Replied(s, i)' = Replied(s, i)
    BY <2>1, <2>2, LenProperties DEF Replied, QueuesInv
  <2>4. QED BY <1>1, <2>2, <2>3 DEF QueuesInv, AwaitInv
<1>4. CASE wire # <<>> /\ wire' = Tail(wire)
  <2>1. /\ wire' \in Seq(Message) /\ Len(wire') = Len(wire) - 1 /\ Len(wire) \in Nat \ {0}
        /\ \A i \in 1..Len(wire') : wire'[i] = wire[i + 1]
    BY <1>4, TailIs DEF QueuesInv
  <2>2. \A s \in Streams, i \in Nat : Replied(s, i)' => Replied(s, i + 1)
    BY <2>1 DEF Replied
  <2>3. ASSUME NEW s \in Streams, NEW i \in Nat, NEW j \in Nat, Replied(s, i)'
        PROVE  /\ streams'[s].at = "waiting" /\ ~Ordered(s, j)'
               /\ Replied(s, j)' => i = j
    <3>1. Replied(s, i + 1) /\ i + 1 \in Nat /\ j + 1 \in Nat
      BY <2>2, <2>3
    <3>2. Replied(s, j)' => Replied(s, j + 1)
      BY <2>2
    <3>3. QED BY <1>1, <3>1, <3>2 DEF AwaitInv
  <2>4. ASSUME NEW s \in Streams, NEW i \in Nat, NEW j \in Nat, Ordered(s, i)'
        PROVE  /\ streams'[s].at = "waiting"
               /\ Ordered(s, j)' => i = j
    BY <1>1, <2>4 DEF AwaitInv
  <2>5. QED BY <2>1, <2>3, <2>4 DEF AwaitInv, QueuesInv
<1>5. QED BY <1>2, <1>3, <1>4

\* A step that tells Redis to drop the subscription.
LEMMA UnsubscribeQueues ==
  ASSUME QueuesInv, AwaitInv, NEW s \in Streams,
         orders' = Append(orders, <<"unsubscribe", s>>), UNCHANGED wire,
         \A t \in Streams : streams[t].at = "waiting" => streams'[t].at = "waiting"
  PROVE  QueuesInv' /\ AwaitInv'
<1>1. /\ orders' \in Seq(Command) /\ Len(orders') = Len(orders) + 1 /\ Len(orders) \in Nat
      /\ orders'[Len(orders) + 1] = <<"unsubscribe", s>>
      /\ \A i \in 1..Len(orders) : orders'[i] = orders[i]
  <2>1. PICK order \in Command : order = <<"unsubscribe", s>>
    BY CommandIs
  <2>2. orders' = Append(orders, order) /\ orders \in Seq(Command)
    BY <2>1 DEF QueuesInv
  <2>3. Len(orders) \in Nat
    BY <2>2, LenProperties
  <2>4. QED BY <2>1, <2>2, <2>3, AppendIs
<1>2. \A t \in Streams, i \in Nat : Ordered(t, i)' = Ordered(t, i)
  BY <1>1, LenProperties DEF Ordered, QueuesInv
<1>3. \A t \in Streams, i \in Nat : Replied(t, i)' = Replied(t, i)
  BY DEF Replied
<1>4. QED BY <1>1, <1>2, <1>3 DEF QueuesInv, AwaitInv

\* A stream that was not there before asks for the subscription.
LEMMA SubscribeQueues ==
  ASSUME QueuesInv, AwaitInv, NEW s \in Streams, streams[s].at = "off",
         orders' = Append(orders, <<"subscribe", s>>), UNCHANGED wire,
         streams'[s].at = "waiting",
         \A t \in Streams : streams[t].at = "waiting" => streams'[t].at = "waiting"
  PROVE  QueuesInv' /\ AwaitInv'
<1>1. /\ orders' \in Seq(Command) /\ Len(orders') = Len(orders) + 1 /\ Len(orders) \in Nat
      /\ orders'[Len(orders) + 1] = <<"subscribe", s>>
      /\ \A i \in 1..Len(orders) : orders'[i] = orders[i]
  <2>1. PICK order \in Command : order = <<"subscribe", s>>
    BY CommandIs
  <2>2. orders' = Append(orders, order) /\ orders \in Seq(Command)
    BY <2>1 DEF QueuesInv
  <2>3. Len(orders) \in Nat
    BY <2>2, LenProperties
  <2>4. QED BY <2>1, <2>2, <2>3, AppendIs
<1>2. \A i \in Nat : ~Ordered(s, i) /\ ~Replied(s, i)
  BY DEF AwaitInv
<1>3. \A t \in Streams, i \in Nat :
        Ordered(t, i)' <=> Ordered(t, i) \/ (t = s /\ i = Len(orders) + 1)
  <2>1. ASSUME NEW t \in Streams, NEW i \in Nat
        PROVE  Ordered(t, i)' <=> Ordered(t, i) \/ (t = s /\ i = Len(orders) + 1)
    <3>1. <<"subscribe", t>> = <<"subscribe", s>> <=> t = s
      OBVIOUS
    <3>2. CASE i = Len(orders) + 1
      BY <1>1, <3>1, <3>2 DEF Ordered
    <3>3. CASE i # Len(orders) + 1
      <4>1. i \in 1..Len(orders') <=> i \in 1..Len(orders)
        BY <1>1, <3>3
      <4>2. i \in 1..Len(orders) => orders'[i] = orders[i]
        BY <1>1
      <4>3. QED BY <3>3, <4>1, <4>2 DEF Ordered
    <3>4. QED BY <3>2, <3>3
  <2>2. QED BY <2>1
<1>4. \A t \in Streams, i \in Nat : Replied(t, i)' = Replied(t, i)
  BY DEF Replied
<1>5. QED BY <1>1, <1>2, <1>3, <1>4 DEF QueuesInv, AwaitInv

LEMMA RedisObeysQueues ==
  ASSUME QueuesInv, AwaitInv, RedisObeys
  PROVE  QueuesInv' /\ AwaitInv'
<1> PICK verb \in {"subscribe", "unsubscribe"}, s \in Streams : Head(orders) = <<verb, s>>
  BY TailIs DEF RedisObeys, QueuesInv, Command
<1>1. /\ orders' \in Seq(Command) /\ Len(orders') = Len(orders) - 1
      /\ Len(orders) \in Nat \ {0} /\ orders[1] = <<verb, s>>
      /\ \A i \in 1..Len(orders') : orders'[i] = orders[i + 1]
  BY TailIs DEF RedisObeys, QueuesInv
<1>2. \A t \in Streams, i \in Nat : Ordered(t, i)' => Ordered(t, i + 1) /\ i + 1 # 1
  BY <1>1 DEF Ordered
<1>3. CASE verb = "unsubscribe"
  <2>1. UNCHANGED <<wire, streams>>
    BY <1>3 DEF RedisObeys
  <2>2. \A t \in Streams, i \in Nat : Replied(t, i)' = Replied(t, i)
    BY <2>1 DEF Replied
  <2>3. \A i, j \in Nat : i + 1 \in Nat /\ j + 1 \in Nat /\ (i + 1 = j + 1 => i = j)
    OBVIOUS
  <2>4. QED BY <1>1, <1>2, <2>1, <2>2, <2>3 DEF QueuesInv, AwaitInv
<1>4. CASE verb = "subscribe"
  <2>1. UNCHANGED streams /\ wire' = Append(wire, Reply(s))
    BY <1>4 DEF RedisObeys
  <2>2. /\ wire' \in Seq(Message) /\ Len(wire') = Len(wire) + 1 /\ Len(wire) \in Nat
        /\ wire'[Len(wire) + 1] = Reply(s)
        /\ \A i \in 1..Len(wire) : wire'[i] = wire[i]
    <3>1. PICK reply \in Message : reply = Reply(s)
      BY CommandIs
    <3>2. wire' = Append(wire, reply) /\ wire \in Seq(Message)
      BY <2>1, <3>1 DEF QueuesInv
    <3>3. Len(wire) \in Nat
      BY <3>2, LenProperties
    <3>4. QED BY <3>1, <3>2, <3>3, AppendIs
  <2>3. Ordered(s, 1)
    BY <1>1, <1>4 DEF Ordered
  <2>4. \A t \in Streams, i \in Nat :
          Replied(t, i)' <=> Replied(t, i) \/ (t = s /\ i = Len(wire) + 1)
    <3>1. ASSUME NEW t \in Streams, NEW i \in Nat
          PROVE  Replied(t, i)' <=> Replied(t, i) \/ (t = s /\ i = Len(wire) + 1)
      <4>1. Reply(t) = Reply(s) <=> t = s
        BY CommandIs
      <4>2. CASE i = Len(wire) + 1
        BY <2>2, <4>1, <4>2 DEF Replied
      <4>3. CASE i # Len(wire) + 1
        <5>1. i \in 1..Len(wire') <=> i \in 1..Len(wire)
          BY <2>2, <4>3
        <5>2. i \in 1..Len(wire) => wire'[i] = wire[i]
          BY <2>2
        <5>3. QED BY <4>3, <5>1, <5>2 DEF Replied
      <4>4. QED BY <4>2, <4>3
    <3>2. QED BY <3>1
  <2>5. /\ streams[s].at = "waiting" /\ \A i \in Nat : ~Replied(s, i) /\ ~Ordered(s, i)'
    BY <1>2, <2>3 DEF AwaitInv
  <2>6. \A i, j \in Nat : i + 1 \in Nat /\ j + 1 \in Nat /\ (i + 1 = j + 1 => i = j)
    OBVIOUS
  <2>7. ASSUME NEW t \in Streams
        PROVE  /\ \A i \in Nat : Ordered(t, i)' \/ Replied(t, i)' => streams[t].at = "waiting"
               /\ \A i, j \in Nat : Ordered(t, i)' /\ Ordered(t, j)' => i = j
               /\ \A i, j \in Nat : Replied(t, i)' /\ Replied(t, j)' => i = j
               /\ \A i, j \in Nat : ~(Ordered(t, i)' /\ Replied(t, j)')
    <3>1. CASE t = s
      BY <2>4, <2>5, <3>1
    <3>2. CASE t # s
      BY <1>2, <2>4, <2>6, <3>2 DEF AwaitInv
    <3>3. QED BY <3>1, <3>2
  <2>8. QED BY <1>1, <2>1, <2>2, <2>7 DEF QueuesInv, AwaitInv
<1>5. QED BY <1>3, <1>4

LEMMA ReadReplyQueues ==
  ASSUME FanoutTypeOK, QueuesInv, AwaitInv, ReadReply
  PROVE  /\ QueuesInv' /\ AwaitInv'
         /\ \E s \in Streams : /\ streams[s].at = "waiting"
                               /\ streams' = [streams EXCEPT ![s].at = "answered"]
<1>1. /\ wire' \in Seq(Message) /\ Len(wire') = Len(wire) - 1 /\ Len(wire) \in Nat \ {0}
      /\ Head(wire) \in Message /\ Head(wire) = wire[1]
      /\ \A i \in 1..Len(wire') : wire'[i] = wire[i + 1]
  BY TailIs DEF ReadReply, QueuesInv
<1>2. PICK s \in Streams : Head(wire) = Reply(s)
  BY <1>1, EventIs DEF ReadReply, Message
<1>3. Replied(s, 1)
  BY <1>1, <1>2 DEF Replied
<1>4. streams[s].at = "waiting" /\ \A i \in Nat : ~Ordered(s, i) /\ (Replied(s, i) => i = 1)
  BY <1>3 DEF AwaitInv
<1>5. \A t \in Streams, i \in Nat : Replied(t, i)' => Replied(t, i + 1) /\ i + 1 # 1
  BY <1>1 DEF Replied
<1>6. \A t \in Streams, i \in Nat : Ordered(t, i)' = Ordered(t, i)
  BY DEF Ordered, ReadReply
<1>7. streams' = [streams EXCEPT ![s].at = "answered"]
  BY <1>2, CommandIs DEF ReadReply
<1>8. \A t \in Streams : t # s => streams'[t] = streams[t]
  BY <1>7 DEF FanoutTypeOK
<1>9. \A i, j \in Nat : i + 1 \in Nat /\ j + 1 \in Nat /\ (i + 1 = j + 1 => i = j)
  OBVIOUS
<1>10. \A i \in Nat : ~Replied(s, i)' /\ ~Ordered(s, i)'
  BY <1>4, <1>5, <1>6, <1>9
<1>11. AwaitInv'
  <2> SUFFICES ASSUME NEW t \in Streams, t # s
               PROVE  /\ \A i \in Nat : Ordered(t, i)' \/ Replied(t, i)' => streams[t].at = "waiting"
                      /\ \A i, j \in Nat : Ordered(t, i)' /\ Ordered(t, j)' => i = j
                      /\ \A i, j \in Nat : Replied(t, i)' /\ Replied(t, j)' => i = j
                      /\ \A i, j \in Nat : ~(Ordered(t, i)' /\ Replied(t, j)')
    BY <1>8, <1>10 DEF AwaitInv
  <2>1. QED BY <1>5, <1>6, <1>9 DEF AwaitInv
<1>12. QED BY <1>1, <1>4, <1>7, <1>11 DEF QueuesInv, ReadReply

-----------------------------------------------------------------------------
(* The fan-out: its steps.                                                  *)

\* A step that touches the wire only, to publish or to read an event.
LEMMA QuietFanout ==
  ASSUME FanInv, UNCHANGED <<streams, registered, members, orders, subscribed>>,
         \/ UNCHANGED wire
         \/ \E e \in Event : wire' = Append(wire, e)
         \/ wire # <<>> /\ wire' = Tail(wire)
  PROVE  FanInv'
<1>1. QueuesInv' /\ AwaitInv'
  BY QuietQueues DEF FanInv
<1>2. QED
  BY <1>1
  DEF FanInv, FanoutTypeOK, SubscribedInv, Final, MapsInv, KeptInv, LeftInv, Waiting

LEMMA PublishFanout ==
  ASSUME FanInv, NEW e \in Event, Publish(e) PROVE FanInv'
BY QuietFanout DEF Publish

\* One stream gets a new record; the others keep theirs.
LEMMA StreamPut ==
  ASSUME FanoutTypeOK, NEW s \in Streams, NEW v \in Stream,
         streams' = [streams EXCEPT ![s] = v]
  PROVE  /\ streams' \in [Streams -> Stream] /\ streams'[s] = v
         /\ \A t \in Streams : t # s => streams'[t] = streams[t]
BY DEF FanoutTypeOK

\* A stream takes a step; what is said of the others stands.
LEMMA StreamFields ==
  ASSUME FanoutTypeOK, NEW s \in Streams, NEW at \in AttachSteps, NEW map \in Streams,
         streams' = [streams EXCEPT ![s].at = at, ![s].map = map]
  PROVE  /\ streams' \in [Streams -> Stream]
         /\ streams'[s].at = at /\ streams'[s].map = map
         /\ streams'[s].closed = streams[s].closed
         /\ streams'[s].visitors = streams[s].visitors
         /\ \A t \in Streams : t # s => streams'[t] = streams[t]
<1>1. PICK old \in Stream : old = streams[s]
  BY DEF FanoutTypeOK
<1>2. PICK v \in Stream : v = [old EXCEPT !.at = at, !.map = map]
  BY DEF Stream
<1>3. /\ v.at = at /\ v.map = map
      /\ v.closed = old.closed /\ v.visitors = old.visitors
  BY <1>2 DEF Stream
<1>4. streams' = [streams EXCEPT ![s] = v]
  BY <1>1, <1>2, Zenon
<1>5. QED BY <1>1, <1>3, <1>4, StreamPut

LEMMA StreamGoes ==
  ASSUME FanoutTypeOK, NEW s \in Streams, NEW at \in AttachSteps,
         streams' = [streams EXCEPT ![s].at = at]
  PROVE  /\ streams' \in [Streams -> Stream]
         /\ streams'[s].at = at /\ streams'[s].map = streams[s].map
         /\ streams'[s].closed = streams[s].closed
         /\ streams'[s].visitors = streams[s].visitors
         /\ \A t \in Streams : t # s => streams'[t] = streams[t]
<1> DEFINE v == [streams[s] EXCEPT !.at = at]
<1>1. /\ v \in Stream /\ v.at = at /\ v.map = streams[s].map
      /\ v.closed = streams[s].closed /\ v.visitors = streams[s].visitors
  BY DEF FanoutTypeOK, Stream
<1>2. streams' = [streams EXCEPT ![s] = v]
  BY DEF FanoutTypeOK
<1> HIDE DEF v
<1>3. QED BY <1>1, <1>2 DEF FanoutTypeOK

\* The first stream of the company makes a Map and asks for the subscription.
LEMMA FirstAttach ==
  ASSUME FanInv, NEW s \in Streams, Attach(s), registered = None PROVE FanInv'
<1>1. /\ streams[s].at = "off" /\ registered' = s /\ UNCHANGED <<members, subscribed, wire>>
      /\ orders' = Append(orders, <<"subscribe", s>>)
      /\ streams' = [streams EXCEPT ![s].at = "waiting", ![s].map = s]
  BY DEF Attach
<1>2. /\ streams' \in [Streams -> Stream]
      /\ streams'[s].at = "waiting" /\ streams'[s].map = s
      /\ ~streams'[s].closed /\ members[s] = {}
      /\ streams'[s].visitors = streams[s].visitors
      /\ \A t \in Streams : t # s => streams'[t] = streams[t]
  <2>1. ~streams[s].closed /\ members[s] = {}
    BY <1>1 DEF FanInv, MapsInv
  <2>2. FanoutTypeOK /\ "waiting" \in AttachSteps
    BY DEF FanInv, AttachSteps
  <2>3. streams' = [streams EXCEPT ![s].at = "waiting", ![s].map = s]
    BY <1>1
  <2>4. /\ streams' \in [Streams -> Stream]
        /\ streams'[s].at = "waiting" /\ streams'[s].map = s
        /\ streams'[s].closed = streams[s].closed
        /\ streams'[s].visitors = streams[s].visitors
        /\ \A t \in Streams : t # s => streams'[t] = streams[t]
    BY <2>2, <2>3, StreamFields DEF AttachSteps
  <2>5. QED BY <2>1, <2>4
<1>3. QueuesInv' /\ AwaitInv'
  BY <1>1, <1>2, SubscribeQueues DEF FanInv
<1>4. FanoutTypeOK'
  BY <1>1, <1>2, <1>3 DEF FanInv, FanoutTypeOK, QueuesInv
<1>5. SubscribedInv'
  <2>1. PICK order \in Command : order = <<"subscribe", s>>
    BY CommandIs
  <2>2. /\ orders' # <<>> /\ orders'[Len(orders')] = order
    <3>1. orders \in Seq(Command) /\ orders' = Append(orders, order)
      BY <1>1, <2>1 DEF FanInv, QueuesInv
    <3>2. QED BY <3>1, AppendIs
  <2>3. QED BY <1>1, <2>1, <2>2, NoneAssumption DEF SubscribedInv, Final
<1>6. MapsInv'
  BY <1>1, <1>2, NoneAssumption DEF FanInv, MapsInv, Waiting
<1>7. KeptInv'
  <2> SUFFICES ASSUME NEW t \in Streams, t # s
               PROVE  /\ Waiting(t)' => streams'[t].visitors # {}
                      /\ streams'[t].at = "attached" /\ ~streams'[t].closed =>
                           streams'[streams'[t].map].visitors # {}
    BY <1>1, <1>2 DEF KeptInv, Waiting
  <2>1. streams'[t] = streams[t]
    BY <1>2
  <2>2. Waiting(t) => streams[t].visitors # {}
    BY NoneAssumption DEF FanInv, KeptInv
  <2>3. streams[t].at = "attached" => streams[t].map \in Streams
    BY DEF FanInv, MapsInv
  <2>4. streams[t].at = "attached" /\ ~streams[t].closed =>
          streams[streams[t].map].visitors # {}
    BY <2>3, NoneAssumption DEF FanInv, KeptInv
  <2>5. \A u \in Streams : streams'[u].visitors = streams[u].visitors
    BY <1>2
  <2>6. QED BY <2>1, <2>2, <2>3, <2>4, <2>5 DEF Waiting
<1>8. LeftInv'
  BY <1>1, <1>2 DEF FanInv, LeftInv, Waiting
<1>9. QED BY <1>3, <1>4, <1>5, <1>6, <1>7, <1>8 DEF FanInv

\* Any other stream joins the registered Map at once.
LEMMA LaterAttach ==
  ASSUME FanInv, NEW s \in Streams, Attach(s), registered # None PROVE FanInv'
<1> PICK r \in Streams : r = registered
  BY DEF FanInv, FanoutTypeOK
<1>1. /\ streams[s].at = "off" /\ UNCHANGED <<registered, orders, subscribed, wire>>
      /\ members' = [members EXCEPT ![r] = @ \cup {s}]
      /\ streams' = [streams EXCEPT ![s].at = "attached", ![s].map = r]
  BY DEF Attach
<1>2. /\ streams' \in [Streams -> Stream]
      /\ streams'[s].at = "attached" /\ streams'[s].map = r
      /\ ~streams'[s].closed /\ ~streams[s].closed
      /\ streams'[s].visitors = streams[s].visitors
      /\ \A t \in Streams : t # s => streams'[t] = streams[t]
  <2>1. ~streams[s].closed /\ members[s] = {}
    BY <1>1 DEF FanInv, MapsInv
  <2>2. FanoutTypeOK /\ "attached" \in AttachSteps
    BY DEF FanInv, AttachSteps
  <2>3. streams' = [streams EXCEPT ![s].at = "attached", ![s].map = r]
    BY <1>1
  <2>4. /\ streams' \in [Streams -> Stream]
        /\ streams'[s].at = "attached" /\ streams'[s].map = r
        /\ streams'[s].closed = streams[s].closed
        /\ streams'[s].visitors = streams[s].visitors
        /\ \A t \in Streams : t # s => streams'[t] = streams[t]
    BY <2>2, <2>3, StreamFields DEF AttachSteps
  <2>5. QED BY <2>1, <2>4
<1>3. QueuesInv' /\ AwaitInv'
  BY <1>1, <1>2, QuietQueues DEF FanInv
<1>4. /\ members' \in [Streams -> SUBSET Streams]
      /\ members'[r] = members[r] \cup {s}
      /\ \A m \in Streams : m # r => members'[m] = members[m]
  BY <1>1 DEF FanInv, FanoutTypeOK
<1>5. FanoutTypeOK' /\ SubscribedInv'
  BY <1>1, <1>2, <1>4 DEF FanInv, FanoutTypeOK, SubscribedInv, Final
<1>6. streams[r].at # "off" /\ r # s
  BY <1>1 DEF FanInv, MapsInv
<1>7. MapsInv'
  BY <1>1, <1>2, <1>4, <1>6 DEF FanInv, MapsInv, Waiting
<1>8. KeptInv'
  BY <1>1, <1>2, <1>4 DEF FanInv, KeptInv, MapsInv, Waiting
<1>9. LeftInv'
  BY <1>1, <1>2, <1>4 DEF FanInv, LeftInv, Waiting
<1>10. QED BY <1>3, <1>5, <1>7, <1>8, <1>9 DEF FanInv

LEMMA ResumeFanout ==
  ASSUME FanInv, NEW s \in Streams, Resume(s) PROVE FanInv'
<1>1. /\ streams[s].at = "answered" /\ streams[s].map = s
      /\ UNCHANGED <<registered, orders, subscribed, wire>>
      /\ members' = [members EXCEPT ![s] = @ \cup {s}]
      /\ streams' = [streams EXCEPT ![s].at = "attached"]
  BY DEF Resume, FanInv, MapsInv, Waiting
<1>2. /\ streams' \in [Streams -> Stream]
      /\ streams'[s].at = "attached" /\ streams'[s].map = s
      /\ streams'[s].closed = streams[s].closed
      /\ streams'[s].visitors = streams[s].visitors
      /\ \A t \in Streams : t # s => streams'[t] = streams[t]
  BY <1>1, StreamGoes DEF FanInv, AttachSteps
<1>3. QueuesInv' /\ AwaitInv'
  BY <1>1, <1>2, QuietQueues DEF FanInv
<1>4. /\ members' \in [Streams -> SUBSET Streams]
      /\ members'[s] = members[s] \cup {s}
      /\ \A m \in Streams : m # s => members'[m] = members[m]
  BY <1>1 DEF FanInv, FanoutTypeOK
<1>5. FanoutTypeOK' /\ SubscribedInv'
  BY <1>1, <1>2, <1>4 DEF FanInv, FanoutTypeOK, SubscribedInv, Final
<1>6. MapsInv'
  BY <1>1, <1>2, <1>4 DEF FanInv, MapsInv, Waiting
<1>7. KeptInv'
  BY <1>1, <1>2, <1>4 DEF FanInv, KeptInv, MapsInv, Waiting
<1>8. LeftInv'
  BY <1>1, <1>2, <1>4 DEF FanInv, LeftInv, Waiting
<1>9. QED BY <1>3, <1>5, <1>6, <1>7, <1>8 DEF FanInv

\* What the departure of a stream does to every stream.
LEMMA DetachStreams ==
  ASSUME FanoutTypeOK, NEW s \in Streams, Detach(s)
  PROVE  /\ streams' \in [Streams -> Stream]
         /\ \A t \in Streams :
              /\ streams'[t].at = streams[t].at /\ streams'[t].map = streams[t].map
              /\ (streams'[t].closed <=> (streams[t].closed \/ t = s))
              /\ streams'[t].visitors =
                   IF Waiting(t) THEN streams[t].visitors \cup {s} ELSE streams[t].visitors
<1>1. ASSUME NEW t \in Streams
      PROVE  /\ streams'[t] \in Stream
             /\ streams'[t].at = streams[t].at /\ streams'[t].map = streams[t].map
             /\ (streams'[t].closed <=> (streams[t].closed \/ t = s))
             /\ streams'[t].visitors =
                  IF Waiting(t) THEN streams[t].visitors \cup {s} ELSE streams[t].visitors
  <2>1. PICK old \in Stream : old = streams[t]
    BY DEF FanoutTypeOK
  <2>2. PICK closed \in BOOLEAN : closed = (old.closed \/ t = s)
    OBVIOUS
  <2>3. PICK visitors \in SUBSET Streams :
          visitors = IF Waiting(t) THEN old.visitors \cup {s} ELSE old.visitors
    BY DEF Stream
  <2>4. PICK v : v = [old EXCEPT !.closed = closed, !.visitors = visitors]
    OBVIOUS
  <2>5. v \in Stream /\ v.at = old.at /\ v.map = old.map
    BY <2>4 DEF Stream
  <2>6. v.closed = closed /\ v.visitors = visitors
    BY <2>4 DEF Stream
  <2>7. streams'[t] = v
    BY <2>1, <2>2, <2>3, <2>4, Zenon DEF Detach
  <2>8. QED BY <2>1, <2>2, <2>3, <2>5, <2>6, <2>7
<1>2. streams' = [t \in Streams |-> streams'[t]]
  BY DEF Detach
<1>3. QED BY <1>1, <1>2

LEMMA DetachFanout ==
  ASSUME FanInv, NEW s \in Streams, Detach(s) PROVE FanInv'
<1>1. /\ streams' \in [Streams -> Stream]
      /\ \A t \in Streams :
           /\ streams'[t].at = streams[t].at /\ streams'[t].map = streams[t].map
           /\ (streams'[t].closed <=> (streams[t].closed \/ t = s))
           /\ streams'[t].visitors =
                IF Waiting(t) THEN streams[t].visitors \cup {s} ELSE streams[t].visitors
  BY DetachStreams DEF FanInv
<1>2. streams[s].at # "off" /\ UNCHANGED <<subscribed, wire>>
  BY DEF Detach, Opened
<1>3. \A t \in Streams : Waiting(t)' <=> Waiting(t)
  BY <1>1 DEF Waiting
<1>4. \A t \in Streams : streams[t].visitors # {} => streams'[t].visitors # {}
  BY <1>1
<1>maps. ASSUME NEW t \in Streams
      PROVE  /\ streams'[t].at = "off" => members[t] = {} /\ ~streams'[t].closed
             /\ streams'[t].at # "off" => streams'[t].map \in Streams
             /\ streams'[t].at # "off" => streams'[streams'[t].map].at # "off"
             /\ Waiting(t)' => streams'[t].map = t
  <2>1. /\ streams[t].at = "off" => members[t] = {} /\ ~streams[t].closed
        /\ streams[t].at # "off" => streams[t].map \in Streams
        /\ streams[t].at # "off" => streams[streams[t].map].at # "off"
        /\ Waiting(t) => streams[t].map = t
    BY DEF FanInv, MapsInv
  <2>2. streams[t].at # "off" => streams'[streams[t].map].at # "off"
    BY <1>1, <2>1
  <2>3. QED BY <1>1, <1>2, <1>3, <2>1, <2>2
<1>5. CASE registered = None
  <2>1. UNCHANGED <<registered, members, orders>>
    BY <1>5 DEF Detach
  <2>2. QueuesInv' /\ AwaitInv'
    BY <1>1, <1>2, <2>1, QuietQueues DEF FanInv
  <2>3. FanoutTypeOK' /\ SubscribedInv'
    BY <1>1, <1>2, <2>1 DEF FanInv, FanoutTypeOK, SubscribedInv, Final
  <2>4. MapsInv'
    BY <1>maps, <2>1, <1>5 DEF MapsInv
  <2>5. KeptInv'
    <3> SUFFICES ASSUME NEW t \in Streams
                 PROVE  /\ Waiting(t)' => streams'[t].visitors # {}
                        /\ streams'[t].at = "attached" /\ ~streams'[t].closed =>
                             streams'[streams'[t].map].visitors # {}
      BY <1>5, <2>1 DEF KeptInv
    <3>1. streams[t].at = "attached" => streams[t].map \in Streams
      BY DEF FanInv, MapsInv
    <3>2. Waiting(t) => streams[t].visitors # {}
      BY <1>5, NoneAssumption DEF FanInv, KeptInv
    <3>3. streams[t].at = "attached" /\ ~streams[t].closed =>
            streams[streams[t].map].visitors # {}
      BY <1>5, <3>1, NoneAssumption DEF FanInv, KeptInv
    <3>4. QED BY <1>1, <1>3, <1>4, <3>1, <3>2, <3>3
  <2>6. LeftInv'
    BY <1>1, <1>3, <1>5, <2>1 DEF FanInv, LeftInv
  <2>7. QED BY <2>2, <2>3, <2>4, <2>5, <2>6 DEF FanInv
<1>6. CASE registered # None
  <2> PICK r \in Streams : r = registered
    BY <1>6 DEF FanInv, FanoutTypeOK
  <2>1. PICK left \in SUBSET Streams : left = members[r] \ {s}
    BY DEF FanInv, FanoutTypeOK
  <2>2. /\ members' = [members EXCEPT ![r] = left]
        /\ left = {} => registered' = None /\ orders' = Append(orders, <<"unsubscribe", s>>)
        /\ left # {} => UNCHANGED <<registered, orders>>
    BY <1>6, <2>1 DEF Detach, NobodyLeft
  <2>3. /\ members' \in [Streams -> SUBSET Streams] /\ members'[r] = left
        /\ \A m \in Streams : m # r => members'[m] = members[m]
    BY <2>2 DEF FanInv, FanoutTypeOK
  <2>4. QueuesInv' /\ AwaitInv'
    <3>1. CASE left = {}
      BY <1>1, <1>2, <2>2, <3>1, UnsubscribeQueues DEF FanInv
    <3>2. CASE left # {}
      BY <1>1, <1>2, <2>2, <3>2, QuietQueues DEF FanInv
    <3>3. QED BY <3>1, <3>2
  <2>5. FanoutTypeOK'
    BY <1>1, <1>2, <2>2, <2>3, <2>4 DEF FanInv, FanoutTypeOK, QueuesInv
  <2>6. SubscribedInv'
    <3>1. CASE left = {}
      <4>1. PICK order \in Command : order = <<"unsubscribe", s>>
        BY CommandIs
      <4>2. orders \in Seq(Command) /\ orders' = Append(orders, order)
        BY <2>2, <3>1, <4>1 DEF FanInv, QueuesInv
      <4>3. orders' # <<>> /\ orders'[Len(orders')] = order
        BY <4>2, AppendIs
      <4>4. QED BY <2>2, <3>1, <4>1, <4>3 DEF SubscribedInv, Final
    <3>2. CASE left # {}
      BY <1>2, <2>2, <3>2 DEF FanInv, SubscribedInv, Final
    <3>3. QED BY <3>1, <3>2
  <2>7. MapsInv'
    <3>1. \A t \in Streams : members[t] = {} => members'[t] = {}
      BY <2>1, <2>3
    <3>2. registered' # None => streams'[registered'].at # "off"
      BY <1>1, <1>6, <2>2 DEF FanInv, MapsInv
    <3>3. QED BY <1>maps, <3>1, <3>2 DEF MapsInv
  <2>8. KeptInv'
    <3> SUFFICES ASSUME NEW t \in Streams
                 PROVE  /\ Waiting(t)' => streams'[t].visitors # {}
                        /\ streams'[t].at = "attached" /\ ~streams'[t].closed =>
                             \/ registered' = streams'[t].map /\ t \in members'[registered']
                             \/ streams'[streams'[t].map].visitors # {}
      BY DEF KeptInv
    <3>1. Waiting(t)' => streams'[t].visitors # {}
      BY <1>1, <1>3
    <3>2. ASSUME streams[t].at = "attached", ~streams[t].closed, t # s
          PROVE  \/ registered' = streams[t].map /\ t \in members'[registered']
                 \/ streams'[streams[t].map].visitors # {}
      <4>1. CASE streams[streams[t].map].visitors # {}
        BY <1>4, <3>2, <4>1 DEF FanInv, MapsInv
      <4>2. CASE r = streams[t].map /\ t \in members[r]
        BY <2>1, <2>2, <2>3, <3>2, <4>2
      <4>3. QED BY <3>2, <4>1, <4>2 DEF FanInv, KeptInv
    <3>3. QED BY <1>1, <3>1, <3>2
  <2>9. LeftInv'
    <3>1. \A t \in Streams : Waiting(t)' /\ streams'[t].closed => t \in streams'[t].visitors
      BY <1>1, <1>3 DEF FanInv, LeftInv
    <3>2. ASSUME NEW t \in left, streams'[t].closed PROVE t \in streams'[t].visitors
      <4>1. t \in Streams /\ t \in members[r] /\ t # s
        BY <2>1
      <4>2. t \in streams[t].visitors
        BY <1>1, <1>6, <3>2, <4>1 DEF FanInv, LeftInv
      <4>3. QED BY <1>1, <4>1, <4>2
    <3>3. registered' # None => members'[registered'] = left
      BY <2>2, <2>3
    <3>4. QED BY <3>1, <3>2, <3>3 DEF LeftInv
  <2>10. QED BY <2>4, <2>5, <2>6, <2>7, <2>8, <2>9 DEF FanInv
<1>7. QED BY <1>5, <1>6

LEMMA RedisObeysFanout ==
  ASSUME FanInv, RedisObeys PROVE FanInv'
<1>1. QueuesInv' /\ AwaitInv'
  BY RedisObeysQueues DEF FanInv
<1>2. /\ orders # <<>> /\ orders' = Tail(orders) /\ orders \in Seq(Command)
      /\ subscribed' = (Head(orders)[1] = "subscribe")
      /\ UNCHANGED <<streams, registered, members>>
  BY DEF RedisObeys, FanInv, QueuesInv
<1>3. Final' = Final
  <2>1. /\ Len(orders') = Len(orders) - 1 /\ Len(orders) \in Nat \ {0}
        /\ Head(orders) = orders[1]
        /\ \A i \in 1..Len(orders') : orders'[i] = orders[i + 1]
        /\ (orders' = <<>> <=> Len(orders) = 1)
    BY <1>2, TailIs
  <2>2. CASE Len(orders) = 1
    BY <1>2, <2>1, <2>2 DEF Final
  <2>3. CASE Len(orders) # 1
    <3>1. orders'[Len(orders')] = orders[Len(orders)]
      BY <2>1, <2>3
    <3>2. QED BY <1>2, <2>1, <2>3, <3>1 DEF Final
  <2>4. QED BY <2>2, <2>3
<1>4. QED
  BY <1>1, <1>2, <1>3
  DEF FanInv, FanoutTypeOK, QueuesInv, SubscribedInv, MapsInv, KeptInv, LeftInv, Waiting

LEMMA ReadReplyFanout ==
  ASSUME FanInv, ReadReply PROVE FanInv'
<1>1. QueuesInv' /\ AwaitInv'
  BY ReadReplyQueues DEF FanInv
<1>2. PICK s \in Streams : /\ streams[s].at = "waiting"
                           /\ streams' = [streams EXCEPT ![s].at = "answered"]
  BY ReadReplyQueues DEF FanInv
<1>3. /\ streams' \in [Streams -> Stream]
      /\ streams'[s].at = "answered" /\ streams'[s].map = streams[s].map
      /\ streams'[s].closed = streams[s].closed
      /\ streams'[s].visitors = streams[s].visitors
      /\ \A t \in Streams : t # s => streams'[t] = streams[t]
  BY <1>2, StreamGoes DEF FanInv, AttachSteps
<1>4. UNCHANGED <<registered, members, orders, subscribed>>
  BY DEF ReadReply
<1>5. \A t \in Streams : Waiting(t)' <=> Waiting(t)
  BY <1>2, <1>3 DEF Waiting
<1>6. FanoutTypeOK' /\ SubscribedInv'
  BY <1>3, <1>4 DEF FanInv, FanoutTypeOK, SubscribedInv, Final
<1>7. \A t \in Streams :
        /\ streams'[t].map = streams[t].map /\ streams'[t].closed = streams[t].closed
        /\ streams'[t].visitors = streams[t].visitors
        /\ streams'[t].at = "off" <=> streams[t].at = "off"
        /\ streams'[t].at = "attached" <=> streams[t].at = "attached"
  BY <1>2, <1>3
<1>8. MapsInv'
  BY <1>4, <1>5, <1>7 DEF FanInv, MapsInv, FanoutTypeOK
<1>9. KeptInv'
  BY <1>4, <1>5, <1>7 DEF FanInv, KeptInv, MapsInv
<1>10. LeftInv'
  BY <1>4, <1>5, <1>7 DEF FanInv, LeftInv, FanoutTypeOK
<1>11. QED BY <1>1, <1>6, <1>8, <1>9, <1>10 DEF FanInv

LEMMA FanoutStepInvariant ==
  ASSUME FanInv, \/ FanoutStep
                 \/ \E s \in Streams : Attach(s) \/ Detach(s)
  PROVE  FanInv'
BY FirstAttach, LaterAttach, ResumeFanout, DetachFanout, RedisObeysFanout, ReadReplyFanout
DEF FanoutStep

LEMMA InitFanout == FanoutInit => FanInv
<1> SUFFICES ASSUME FanoutInit PROVE FanInv
  OBVIOUS
<1>1. NoStream \in Stream /\ NoStream.at = "off" /\ ~NoStream.closed
  BY DEF NoStream, Stream, AttachSteps
<1>2. \A s \in Streams : streams[s].at = "off" /\ ~streams[s].closed /\ members[s] = {}
  BY <1>1 DEF FanoutInit
<1>3. orders = <<>> /\ wire = <<>> /\ registered = None /\ ~subscribed
  BY DEF FanoutInit
<1>4. \A s \in Streams, i \in Nat : ~Ordered(s, i) /\ ~Replied(s, i)
  BY <1>3 DEF Ordered, Replied
<1>empty. <<>> \in Seq(Command) /\ <<>> \in Seq(Message)
  BY EmptySeq
<1>5. FanoutTypeOK /\ QueuesInv
  BY <1>1, <1>3, <1>empty DEF FanoutInit, FanoutTypeOK, QueuesInv
<1>6. AwaitInv
  BY <1>4 DEF AwaitInv
<1>7. SubscribedInv /\ MapsInv /\ KeptInv /\ LeftInv
  BY <1>2, <1>3 DEF SubscribedInv, Final, MapsInv, KeptInv, LeftInv, Waiting
<1>8. QED BY <1>5, <1>6, <1>7 DEF FanInv

LEMMA FanInvHears == FanInv => ListenersHear
<1> SUFFICES ASSUME FanInv PROVE ListenersHear
  OBVIOUS
<1>1. ASSUME NEW s \in Streams, Opened(s), streams[s].at = "attached"
      PROVE  \/ s \in Listening /\ (orders = <<>> => subscribed)
             \/ streams[streams[s].map].visitors # {}
  <2>1. CASE registered = streams[s].map /\ s \in members[registered]
    <3>1. registered # None
      BY <1>1, <2>1, NoneAssumption DEF FanInv, MapsInv
    <3>2. s \in Listening
      BY <1>1, <2>1, <3>1 DEF Listening, Opened
    <3>3. orders = <<>> => subscribed
      BY <3>1 DEF FanInv, SubscribedInv, Final
    <3>4. QED BY <3>2, <3>3
  <2>2. QED BY <1>1, <2>1 DEF FanInv, KeptInv, Opened
<1>2. QED BY <1>1 DEF ListenersHear, FanInv, LeftInv

-----------------------------------------------------------------------------
(* The calls: what their invariant says.                                    *)

RowsOK ==
  /\ approvals \in [Requests -> Approval]
  /\ comments \in [Comments -> Comment]
  /\ inbox \subseteq Note
  /\ call \in [Calls -> Call]
  /\ late \in [Comments \cup {"document"} -> SUBSET Calls]

\* The call has written what it was asked to write.
Written(v) == v.at \in {"record", "announce", "count", "tell"} \/ v.ok
Past(c) == Written(call[c])

\* What the record v of a call has in hand.
Hand(v) ==
  /\ v.ok => v.at \in {"answered", "done"}
  /\ v.at \notin {"idle", "done"} => v.who \in People
  /\ v.kind = "request" => v.choice \in People \cup {None}
  /\ v.kind \in {"decide", "cancel"} /\ (v.at \in {"find", "write"} \/ Written(v)) =>
       v.target \in Requests /\ approvals[v.target].status # "none"
  /\ v.kind = "decide" /\ v.at \in {"find", "write"} => v.choice \in {"APPROVED", "REJECTED"}
  /\ v.kind \in {"update", "remove"} /\ v.at \in {"find", "write"} =>
       v.target \in Comments /\ comments[v.target].author # None
  /\ \A d \in v.before : call[d].ok

\* A row is there once the call that makes it has written, and a request is
\* settled by one call.
MadeInv ==
  /\ \A c \in Calls :
       approvals[c].status # "none" \/ comments[c].author # None => Past(c)
  /\ \A a \in Requests :
       /\ approvals[a].status \in {"none", "PENDING"} => approvals[a].settled = None
       /\ approvals[a].status \notin {"none", "PENDING"} =>
            approvals[a].settled \in Calls /\ Past(approvals[a].settled)
       /\ approvals[a].status # "none" => approvals[a].by \in People
  /\ \A k \in Comments : comments[k].deleted # None => comments[k].author # None

\* A decision that was written stands; a withdrawal found the request pending,
\* and whoever came first was not over when it began.
Stands(c, v) ==
  /\ v.kind = "decide" /\ Written(v) =>
       /\ approvals[v.target].settled = c
       /\ approvals[v.target].status = v.choice
  /\ v.kind = "cancel" /\ v.at = "write" =>
       \/ approvals[v.target].status = "PENDING"
       \/ approvals[v.target].settled \notin v.before
  /\ v.kind = "cancel" /\ Written(v) =>
       \/ approvals[v.target].settled = c /\ approvals[v.target].status = "CANCELLED"
       \/ \E d \in Calls : /\ approvals[v.target].settled = d
                           /\ c # d /\ c \notin call[d].before /\ d \notin v.before

TrailInv ==
  \A e \in trail : e[1] \in Calls /\ Past(e[1]) /\ e[2] = call[e[1]].target

\* Whoever still writes about what is gone was under way when it went.
Gone(c, v) ==
  /\ v.kind \in {"update", "remove"} /\ v.at = "write" =>
       comments[v.target].deleted = None \/ c \in late[v.target]
  /\ /\ trashed
     /\ v.kind \in {"request", "create", "star", "unstar"}
     /\ v.at \in {"voices", "insert", "write"}
     => c \in late["document"]

CallInv(c, v) == Hand(v) /\ Stands(c, v) /\ Gone(c, v)

CallsInv == RowsOK /\ MadeInv /\ TrailInv /\ \A c \in Calls : CallInv(c, call[c])

-----------------------------------------------------------------------------
(* The calls: how one of them moves.                                        *)

\* v is the same request as u.
Kin(u, v) == /\ v.kind = u.kind /\ v.who = u.who /\ v.page = u.page
             /\ v.target = u.target /\ v.choice = u.choice /\ v.before = u.before

\* The ways a step goes on with a call.
Telling(c, next, told) == call' = [call EXCEPT ![c].at = next, ![c].told = told]
Counting(c, next, n) == call' = [call EXCEPT ![c].at = next, ![c].unread = n]

LEMMA CallPut ==
  ASSUME RowsOK, NEW c \in Calls, NEW v \in Call, call' = [call EXCEPT ![c] = v]
  PROVE  /\ call' \in [Calls -> Call] /\ call'[c] = v
         /\ \A d \in Calls : d # c => call'[d] = call[d]
BY DEF RowsOK

LEMMA GotoMoves ==
  ASSUME RowsOK, NEW c \in Calls, NEW next \in CallSteps, Goto(c, next)
  PROVE  \E v \in Call : /\ call' = [call EXCEPT ![c] = v]
                         /\ Kin(call[c], v) /\ v.at = next /\ v.ok = call[c].ok
                         /\ v.told = call[c].told
<1>1. PICK u \in Call : u = call[c]
  BY DEF RowsOK
<1>2. PICK v : v = [u EXCEPT !.at = next]
  OBVIOUS
<1>3. v \in Call /\ Kin(u, v) /\ v.at = next /\ v.ok = u.ok /\ v.told = u.told
  BY <1>2 DEF Call, Kin
<1>4. call' = [call EXCEPT ![c] = v]
  BY <1>1, <1>2, Zenon DEF Goto
<1>5. QED BY <1>1, <1>3, <1>4

LEMMA ToldMoves ==
  ASSUME RowsOK, NEW c \in Calls, NEW next \in CallSteps, NEW told \in SUBSET People,
         Telling(c, next, told)
  PROVE  \E v \in Call : /\ call' = [call EXCEPT ![c] = v]
                         /\ Kin(call[c], v) /\ v.at = next /\ v.ok = call[c].ok
                         /\ v.told = told
<1>1. PICK u \in Call : u = call[c]
  BY DEF RowsOK
<1>2. PICK v : v = [u EXCEPT !.at = next, !.told = told]
  OBVIOUS
<1>3. v \in Call /\ Kin(u, v) /\ v.at = next /\ v.ok = u.ok /\ v.told = told
  BY <1>2 DEF Call, Kin
<1>4. call' = [call EXCEPT ![c] = v]
  BY <1>1, <1>2, Zenon DEF Telling
<1>5. QED BY <1>1, <1>3, <1>4

LEMMA UnreadMoves ==
  ASSUME RowsOK, NEW c \in Calls, NEW next \in CallSteps, NEW n \in Nat,
         Counting(c, next, n)
  PROVE  \E v \in Call : /\ call' = [call EXCEPT ![c] = v]
                         /\ Kin(call[c], v) /\ v.at = next /\ v.ok = call[c].ok
                         /\ v.unread = n
<1>1. PICK u \in Call : u = call[c]
  BY DEF RowsOK
<1>2. PICK v : v = [u EXCEPT !.at = next, !.unread = n]
  OBVIOUS
<1>3. v \in Call /\ Kin(u, v) /\ v.at = next /\ v.ok = u.ok /\ v.unread = n
  BY <1>2 DEF Call, Kin
<1>4. call' = [call EXCEPT ![c] = v]
  BY <1>1, <1>2, Zenon DEF Counting
<1>5. QED BY <1>1, <1>3, <1>4

LEMMA PanelMoves ==
  ASSUME RowsOK, NEW c \in Calls, NEW n \in Nat,
         call' = [call EXCEPT ![c].at = "answered", ![c].ok = TRUE, ![c].unread = n]
  PROVE  \E v \in Call : /\ call' = [call EXCEPT ![c] = v]
                         /\ Kin(call[c], v) /\ v.at = "answered" /\ v.ok
                         /\ v.unread = n
<1>1. PICK u \in Call : u = call[c]
  BY DEF RowsOK
<1>2. PICK v : v = [u EXCEPT !.at = "answered", !.ok = TRUE, !.unread = n]
  OBVIOUS
<1>3. v \in Call /\ Kin(u, v) /\ v.at = "answered" /\ v.ok /\ v.unread = n
  BY <1>2 DEF Call, Kin, CallSteps
<1>4. call' = [call EXCEPT ![c] = v]
  BY <1>1, <1>2, Zenon
<1>5. QED BY <1>1, <1>3, <1>4

LEMMA FinishMoves ==
  ASSUME RowsOK, NEW c \in Calls, Finish(c)
  PROVE  \E v \in Call : /\ call' = [call EXCEPT ![c] = v]
                         /\ Kin(call[c], v) /\ v.at \in {"answered", "done"} /\ v.ok
                         /\ v.at = "answered" <=> call[c].page
<1>1. PICK u \in Call : u = call[c]
  BY DEF RowsOK
<1>2. PICK next \in {"answered", "done"} : next = IF u.page THEN "answered" ELSE "done"
  OBVIOUS
<1>3. PICK v : v = [u EXCEPT !.at = next, !.ok = TRUE]
  OBVIOUS
<1>4. v \in Call /\ Kin(u, v) /\ v.at = next /\ v.ok
  BY <1>3 DEF Call, Kin, CallSteps
<1>5. call' = [call EXCEPT ![c] = v]
  BY <1>1, <1>2, <1>3, Zenon DEF Finish
<1>6. v.at = "answered" <=> call[c].page
  BY <1>1, <1>2, <1>4 DEF Call
<1>7. QED BY <1>1, <1>4, <1>5, <1>6

LEMMA RefuseMoves ==
  ASSUME RowsOK, NEW c \in Calls, Refuse(c)
  PROVE  \E v \in Call : /\ call' = [call EXCEPT ![c] = v]
                         /\ v.kind = call[c].kind /\ v.at = "done" /\ ~v.ok
                         /\ v.choice = None /\ v.before = {} /\ ~v.page
<1>1. PICK kind \in AllCallKinds \cup {"none"} : kind = call[c].kind
  BY DEF RowsOK, Call
<1>2. PICK v : v = [NoCall EXCEPT !.at = "done", !.kind = kind]
  OBVIOUS
<1>3. /\ v \in Call /\ v.kind = kind /\ v.at = "done" /\ ~v.ok
      /\ v.choice = None /\ v.before = {} /\ ~v.page
  BY <1>2 DEF Call, NoCall, CallSteps
<1>4. call' = [call EXCEPT ![c] = v]
  BY <1>1, <1>2, Zenon DEF Refuse
<1>5. QED BY <1>1, <1>3, <1>4

\* A request as it arrives: the fields that were not said are those of NoCall.
LEMMA BeginMoves ==
  ASSUME RowsOK, NEW c \in Calls, NEW r \in Call, Begin(c, r)
  PROVE  /\ call[c].at = "idle" /\ Reads
         /\ \E v \in Call : /\ call' = [call EXCEPT ![c] = v]
                            /\ v.kind = r.kind /\ v.at = r.at /\ v.who = r.who
                            /\ v.target = r.target /\ v.choice = r.choice /\ v.ok = r.ok
                            /\ v.page = r.page
                            /\ v.before = {d \in Calls : Over(d)}
<1>1. PICK before \in SUBSET Calls : before = {d \in Calls : Over(d)}
  OBVIOUS
<1>2. PICK v : v = [r EXCEPT !.before = before]
  OBVIOUS
<1>3. /\ v \in Call
      /\ v.kind = r.kind /\ v.at = r.at /\ v.who = r.who
      /\ v.target = r.target /\ v.choice = r.choice /\ v.ok = r.ok
      /\ v.page = r.page /\ v.before = before
  BY <1>2 DEF Call
<1>4. call' = [call EXCEPT ![c] = v]
  BY <1>1, <1>2, Zenon DEF Begin
<1>5. QED BY <1>1, <1>3, <1>4 DEF Begin, Reads

\* A step of one call that leaves the rows as they are, but for the inbox.
LEMMA QuietCalls ==
  ASSUME CallsInv, NEW c \in Calls, NEW v \in Call, call' = [call EXCEPT ![c] = v],
         UNCHANGED <<trashed, approvals, comments, late>>,
         inbox' \subseteq Note,
         CallInv(c, v),
         call[c].ok => v.ok,
         Past(c) => Written(v) /\ v.target = call[c].target /\ v.before = call[c].before,
         \/ UNCHANGED trail
         \/ trail' = trail \cup {<<c, v.target>>} /\ Written(v)
  PROVE  CallsInv'
<1>1. /\ call' \in [Calls -> Call] /\ call'[c] = v
      /\ \A d \in Calls : d # c => call'[d] = call[d]
  BY CallPut DEF CallsInv
<1>2. RowsOK'
  BY <1>1 DEF CallsInv, RowsOK
<1>3. \A d \in Calls : /\ call[d].ok => call'[d].ok
                       /\ Past(d) => /\ Past(d)' /\ call'[d].target = call[d].target
                                     /\ call'[d].before = call[d].before
  BY <1>1 DEF Past
<1>4. MadeInv'
  BY <1>3 DEF CallsInv, MadeInv
<1>5. TrailInv'
  <2> SUFFICES ASSUME NEW e \in trail'
               PROVE  e[1] \in Calls /\ Past(e[1])' /\ e[2] = call'[e[1]].target
    BY DEF TrailInv
  <2>1. CASE e \in trail
    BY <1>3, <2>1 DEF CallsInv, TrailInv
  <2>2. CASE e \notin trail
    <3>1. e = <<c, v.target>> /\ Written(v)
      BY <2>2
    <3>2. QED BY <1>1, <3>1 DEF Past
  <2>3. QED BY <2>1, <2>2
<1>6. ASSUME NEW d \in Calls PROVE CallInv(d, call[d])'
  <2>1. PICK w \in Call : w = call'[d]
    BY <1>1
  <2>2. CallInv(d, w)
    BY <1>1, <2>1 DEF CallsInv
  <2>3. (\A e \in w.before : call[e].ok) => \A e \in w.before : call'[e].ok
    BY <1>3 DEF Call
  <2>4. Hand(call[d])'
    BY <2>1, <2>2, <2>3 DEF CallInv, Hand
  <2>5. Stands(d, call[d])'
    <3>1. ASSUME w.kind = "cancel", Written(w)
          PROVE  \/ approvals[w.target].settled = d /\ approvals[w.target].status = "CANCELLED"
                 \/ \E e \in Calls : /\ approvals[w.target].settled = e
                                     /\ d # e /\ d \notin call'[e].before /\ e \notin w.before
      <4>1. w.target \in Requests
        BY <2>2, <3>1 DEF CallInv, Hand
      <4>2. CASE approvals[w.target].settled = d /\ approvals[w.target].status = "CANCELLED"
        BY <4>2
      <4>3. ASSUME NEW e \in Calls, approvals[w.target].settled = e,
                   d # e, d \notin call[e].before, e \notin w.before
            PROVE  d \notin call'[e].before
        <5>1. Past(e)
          BY <4>1, <4>3, PeopleAssumption DEF CallsInv, MadeInv, Requests
        <5>2. QED BY <1>3, <4>3, <5>1
      <4>4. QED BY <2>2, <3>1, <4>2, <4>3 DEF CallInv, Stands
    <3>2. QED BY <2>1, <2>2, <3>1 DEF CallInv, Stands
  <2>6. Gone(d, call[d])'
    BY <2>1, <2>2 DEF CallInv, Gone
  <2>7. QED BY <2>4, <2>5, <2>6 DEF CallInv
<1>7. QED BY <1>2, <1>4, <1>5, <1>6 DEF CallsInv

\* What is said of a call stands when it moves on without writing.
LEMMA SameHand ==
  ASSUME NEW c \in Calls, NEW u \in Call, NEW v \in Call, Kin(u, v), CallInv(c, u),
         u.ok => v.ok,
         v.ok => v.at \in {"answered", "done"},
         u.at \notin {"idle", "done"} \/ v.at \in {"idle", "done"},
         v.kind \in {"decide", "cancel", "update", "remove"} /\ v.at \in {"find", "write"} =>
           u.at = v.at,
         v.kind \in {"decide", "cancel"} /\ Written(v) => Written(u),
         trashed /\ v.kind \in {"request", "create", "star", "unstar"} =>
           \/ v.at \notin {"voices", "insert", "write"}
           \/ u.at \in {"voices", "insert", "write"}
  PROVE  CallInv(c, v)
<1>1. Hand(v)
  BY DEF CallInv, Hand, Kin, Written
<1>2. Stands(c, v)
  BY DEF CallInv, Stands, Kin, Written
<1>3. Gone(c, v)
  BY DEF CallInv, Gone, Kin
<1>4. QED BY <1>1, <1>2, <1>3 DEF CallInv

\* A refused call has nothing in hand.
LEMMA RefusedCalls ==
  ASSUME CallsInv, NEW c \in Calls, Refuse(c), ~Past(c)
  PROVE  CallsInv'
<1>1. PICK v \in Call : /\ call' = [call EXCEPT ![c] = v]
                        /\ v.kind = call[c].kind /\ v.at = "done" /\ ~v.ok
                        /\ v.choice = None /\ v.before = {}
  BY RefuseMoves DEF CallsInv
<1>2. CallInv(c, v)
  BY <1>1 DEF CallInv, Hand, Stands, Gone, Written
<1>3. UNCHANGED <<trashed, approvals, comments, late, trail, inbox>>
  BY DEF Refuse, Reads, rows, rest
<1>4. inbox' \subseteq Note /\ (call[c].ok => Past(c))
  BY <1>3 DEF CallsInv, RowsOK, Past, Written
<1>5. QED BY <1>1, <1>2, <1>3, <1>4, QuietCalls

LEMMA NotesAreFinite == ASSUME RowsOK PROVE Cardinality(Unread(Me)) \in Nat
<1>1. IsFiniteSet(BOOLEAN)
  <2>1. IsFiniteSet({TRUE}) /\ IsFiniteSet({FALSE})
    BY FS_Singleton
  <2>2. IsFiniteSet({TRUE} \cup {FALSE})
    BY <2>1, FS_Union
  <2>3. BOOLEAN = {TRUE} \cup {FALSE}
    OBVIOUS
  <2>4. QED BY <2>2, <2>3
<1>2. IsFiniteSet(People \X (Calls \X BOOLEAN))
  BY <1>1, FS_Product, FinitenessAssumption
<1>3. PICK f : f = [n \in Note |-> <<n.to, <<n.by, n.read>>>>]
  OBVIOUS
<1>4. f \in [Note -> People \X (Calls \X BOOLEAN)]
  BY <1>3 DEF Note
<1>5. \A m, n \in Note : f[m] = f[n] => m = n
  BY <1>3 DEF Note
<1>6. f \in Injection(Note, People \X (Calls \X BOOLEAN))
  BY <1>4, <1>5 DEF Injection, IsInjective
<1>7. IsFiniteSet(Note)
  BY <1>2, <1>6, FS_Injection
<1>8. Unread(Me) \in SUBSET Note
  BY DEF RowsOK, Unread
<1>9. IsFiniteSet(Unread(Me))
  BY <1>7, <1>8, FS_Subset
<1>10. QED BY <1>9, FS_CardinalityType

-----------------------------------------------------------------------------
(* The calls: their steps.                                                  *)

LEMMA MoveCalls ==
  ASSUME CallsInv, NEW c \in Calls, NEW v \in Call, call' = [call EXCEPT ![c] = v],
         Kin(call[c], v),
         UNCHANGED <<trashed, approvals, comments, late>>, inbox' \subseteq Note,
         Past(c) => Written(v),
         call[c].ok => v.ok,
         v.ok => v.at \in {"answered", "done"},
         call[c].at \notin {"idle", "done"} \/ v.at \in {"idle", "done"},
         v.kind \in {"decide", "cancel", "update", "remove"} /\ v.at \in {"find", "write"} =>
           call[c].at = v.at,
         v.kind \in {"decide", "cancel"} /\ Written(v) => Past(c),
         trashed /\ v.kind \in {"request", "create", "star", "unstar"} =>
           \/ v.at \notin {"voices", "insert", "write"}
           \/ call[c].at \in {"voices", "insert", "write"},
         \/ UNCHANGED trail
         \/ trail' = trail \cup {<<c, v.target>>} /\ Written(v)
  PROVE  CallsInv'
<1>1. PICK u \in Call : u = call[c] /\ CallInv(c, u)
  BY DEF CallsInv, RowsOK
<1>2. CallInv(c, v)
  BY <1>1, SameHand DEF Past
<1>3. v.target = call[c].target /\ v.before = call[c].before
  BY DEF Kin
<1>4. QED BY <1>2, <1>3, QuietCalls

\* A request arrives, with nothing read yet.
LEMMA BeginCalls ==
  ASSUME CallsInv, NEW c \in Calls, NEW r \in Call, Begin(c, r),
         ~r.ok, r.who \in People,
         r.at \in {"doc", "find"} \/ (r.at = "write" /\ r.kind \in {"readAll", "readOne"}),
         r.kind = "request" => r.choice \in People \cup {None},
         r.kind \in {"decide", "cancel"} =>
           r.target \in Requests /\ approvals[r.target].status # "none",
         r.kind = "decide" => r.choice \in {"APPROVED", "REJECTED"},
         r.kind \in {"update", "remove"} =>
           r.target \in Comments /\ comments[r.target].author # None
  PROVE  CallsInv'
<1>1. call[c].at = "idle" /\ Reads
  BY BeginMoves DEF CallsInv
<1>2. PICK v \in Call : /\ call' = [call EXCEPT ![c] = v]
                        /\ v.kind = r.kind /\ v.at = r.at /\ v.who = r.who
                        /\ v.target = r.target /\ v.choice = r.choice /\ v.ok = r.ok
                        /\ v.before = {d \in Calls : Over(d)}
  BY BeginMoves DEF CallsInv
<1>3. ~Past(c) /\ ~Written(v)
  BY <1>1, <1>2 DEF CallsInv, CallInv, Hand, Past, Written
<1>4. \A d \in v.before : call[d].ok
  BY <1>2 DEF Over
<1>5. CallInv(c, v)
  BY <1>2, <1>3, <1>4 DEF CallInv, Hand, Stands, Gone
<1>6. UNCHANGED <<trashed, approvals, comments, late, trail, inbox>>
  BY <1>1 DEF Reads, rows, rest
<1>7. inbox' \subseteq Note /\ (call[c].ok => Past(c))
  BY <1>6 DEF CallsInv, RowsOK, Past, Written
<1>8. QED BY <1>2, <1>3, <1>5, <1>6, <1>7, QuietCalls

LEMMA BeginsCalls ==
  ASSUME CallsInv, NEW c \in Calls,
         \/ BeginRequest(c) \/ BeginDecide(c) \/ BeginCancel(c) \/ BeginCreate(c)
         \/ BeginUpdate(c) \/ BeginRemove(c) \/ BeginStar(c) \/ BeginReadAll(c)
         \/ BeginReadOne(c) \/ BeginPanel(c)
  PROVE  CallsInv'
<1>1. /\ NoCall \in Call /\ ~NoCall.ok /\ Me \in People /\ Approvers \subseteq People
      /\ 0 \in Nat
  BY PeopleAssumption DEF NoCall, Call, CallSteps
<1>3. CASE BeginRequest(c)
  <2>1. PICK p \in People, q \in People \cup {None} :
          Begin(c, [NoCall EXCEPT !.kind = "request", !.at = "doc", !.who = p, !.choice = q])
    BY <1>3 DEF BeginRequest
  <2>2. PICK r : r = [NoCall EXCEPT !.kind = "request", !.at = "doc", !.who = p, !.choice = q]
    OBVIOUS
  <2>3. /\ r \in Call /\ ~r.ok /\ r.kind = "request" /\ r.at = "doc" /\ r.who = p
        /\ r.choice = q
    BY <1>1, <2>2 DEF NoCall, Call, CallSteps, AllCallKinds
  <2>4. Begin(c, r)
    BY <2>1, <2>2
  <2>5. QED BY <1>1, <2>1, <2>3, <2>4, BeginCalls
<1>4. CASE BeginDecide(c)
  <2>1. PICK p \in Approvers, a \in Requests, d \in {"APPROVED", "REJECTED"} :
          /\ approvals[a].status # "none"
          /\ Begin(c, [NoCall EXCEPT !.kind = "decide", !.at = "find", !.who = p,
                                     !.target = a, !.choice = d])
    BY <1>4 DEF BeginDecide
  <2>2. PICK r : r = [NoCall EXCEPT !.kind = "decide", !.at = "find", !.who = p,
                                    !.target = a, !.choice = d]
    OBVIOUS
  <2>3. /\ r \in Call /\ ~r.ok /\ r.kind = "decide" /\ r.at = "find" /\ r.who = p
        /\ r.target = a /\ r.choice = d
    BY <1>1, <2>2 DEF NoCall, Call, CallSteps, AllCallKinds
  <2>4. Begin(c, r)
    BY <2>1, <2>2
  <2>5. QED BY <1>1, <2>1, <2>3, <2>4, BeginCalls
<1>5. CASE BeginCancel(c)
  <2>1. PICK p \in People, a \in Requests :
          /\ approvals[a].status # "none"
          /\ Begin(c, [NoCall EXCEPT !.kind = "cancel", !.at = "find", !.who = p, !.target = a])
    BY <1>5 DEF BeginCancel
  <2>2. PICK r : r = [NoCall EXCEPT !.kind = "cancel", !.at = "find", !.who = p, !.target = a]
    OBVIOUS
  <2>3. /\ r \in Call /\ ~r.ok /\ r.kind = "cancel" /\ r.at = "find" /\ r.who = p
        /\ r.target = a
    BY <1>1, <2>2 DEF NoCall, Call, CallSteps, AllCallKinds
  <2>4. Begin(c, r)
    BY <2>1, <2>2
  <2>5. QED BY <1>1, <2>1, <2>3, <2>4, BeginCalls
<1>6. CASE BeginCreate(c)
  <2>1. PICK p \in People, page1 \in BOOLEAN :
          Begin(c, [NoCall EXCEPT !.kind = "create", !.at = "doc", !.who = p, !.page = page1])
    BY <1>6 DEF BeginCreate
  <2>2. PICK r : r = [NoCall EXCEPT !.kind = "create", !.at = "doc", !.who = p, !.page = page1]
    OBVIOUS
  <2>3. r \in Call /\ ~r.ok /\ r.kind = "create" /\ r.at = "doc" /\ r.who = p
    BY <1>1, <2>2 DEF NoCall, Call, CallSteps, AllCallKinds
  <2>4. Begin(c, r)
    BY <2>1, <2>2
  <2>5. QED BY <1>1, <2>1, <2>3, <2>4, BeginCalls
<1>7. CASE BeginUpdate(c)
  <2>1. PICK p \in People, k \in Comments, page1 \in BOOLEAN :
          /\ comments[k].author # None
          /\ Begin(c, [NoCall EXCEPT !.kind = "update", !.at = "find", !.who = p, !.target = k,
                                     !.page = page1])
    BY <1>7 DEF BeginUpdate
  <2>2. PICK r : r = [NoCall EXCEPT !.kind = "update", !.at = "find", !.who = p, !.target = k,
                                    !.page = page1]
    OBVIOUS
  <2>3. /\ r \in Call /\ ~r.ok /\ r.kind = "update" /\ r.at = "find" /\ r.who = p
        /\ r.target = k
    BY <1>1, <2>2 DEF NoCall, Call, CallSteps, AllCallKinds
  <2>4. Begin(c, r)
    BY <2>1, <2>2
  <2>5. QED BY <1>1, <2>1, <2>3, <2>4, BeginCalls
<1>8. CASE BeginRemove(c)
  <2>1. PICK p \in People, k \in Comments, page1 \in BOOLEAN :
          /\ comments[k].author # None
          /\ Begin(c, [NoCall EXCEPT !.kind = "remove", !.at = "find", !.who = p, !.target = k,
                                     !.page = page1])
    BY <1>8 DEF BeginRemove
  <2>2. PICK r : r = [NoCall EXCEPT !.kind = "remove", !.at = "find", !.who = p, !.target = k,
                                    !.page = page1]
    OBVIOUS
  <2>3. /\ r \in Call /\ ~r.ok /\ r.kind = "remove" /\ r.at = "find" /\ r.who = p
        /\ r.target = k
    BY <1>1, <2>2 DEF NoCall, Call, CallSteps, AllCallKinds
  <2>4. Begin(c, r)
    BY <2>1, <2>2
  <2>5. QED BY <1>1, <2>1, <2>3, <2>4, BeginCalls
<1>9. CASE BeginStar(c)
  <2>1. PICK p \in People, kind \in {"star", "unstar"} :
          Begin(c, [NoCall EXCEPT !.kind = kind, !.at = "doc", !.who = p])
    BY <1>9 DEF BeginStar
  <2>2. PICK r : r = [NoCall EXCEPT !.kind = kind, !.at = "doc", !.who = p]
    OBVIOUS
  <2>3. r \in Call /\ ~r.ok /\ r.kind = kind /\ r.at = "doc" /\ r.who = p
    BY <1>1, <2>2 DEF NoCall, Call, CallSteps, AllCallKinds
  <2>4. Begin(c, r)
    BY <2>1, <2>2
  <2>5. QED BY <1>1, <2>1, <2>3, <2>4, BeginCalls
<1>10. CASE BeginReadAll(c)
  <2>1. PICK r : r = [NoCall EXCEPT !.kind = "readAll", !.at = "write", !.who = Me, !.page = TRUE]
    OBVIOUS
  <2>2. r \in Call /\ ~r.ok /\ r.kind = "readAll" /\ r.at = "write" /\ r.who = Me
    BY <1>1, <2>1 DEF NoCall, Call, CallSteps, AllCallKinds
  <2>3. QED BY <1>1, <1>10, <2>1, <2>2, BeginCalls DEF BeginReadAll
<1>11. CASE BeginReadOne(c)
  <2>1. PICK n \in Unread(Me) :
          Begin(c, [NoCall EXCEPT !.kind = "readOne", !.at = "write", !.who = Me, !.page = TRUE,
                                  !.target = n.by])
    BY <1>11 DEF BeginReadOne
  <2>2. PICK by \in Calls : by = n.by
    BY DEF Unread, CallsInv, RowsOK, Note
  <2>3. PICK r : r = [NoCall EXCEPT !.kind = "readOne", !.at = "write", !.who = Me, !.page = TRUE,
                                    !.target = by]
    OBVIOUS
  <2>4. r \in Call /\ ~r.ok /\ r.kind = "readOne" /\ r.at = "write" /\ r.who = Me
    BY <1>1, <2>3 DEF NoCall, Call, CallSteps, AllCallKinds, Requests
  <2>5. Begin(c, r)
    BY <2>1, <2>2, <2>3
  <2>6. QED BY <1>1, <2>4, <2>5, BeginCalls
<1>12. CASE BeginPanel(c)
  <2>1. PICK r : r = [NoCall EXCEPT !.kind = "panel", !.at = "find", !.who = Me, !.page = TRUE]
    OBVIOUS
  <2>2. r \in Call /\ ~r.ok /\ r.kind = "panel" /\ r.at = "find" /\ r.who = Me
    BY <1>1, <2>1 DEF NoCall, Call, CallSteps, AllCallKinds
  <2>3. QED BY <1>1, <1>12, <2>1, <2>2, BeginCalls DEF BeginPanel
<1>13. QED BY <1>3, <1>4, <1>5, <1>6, <1>7, <1>8, <1>9, <1>10, <1>11, <1>12

\* A comment, a decision or a withdrawal is looked up before it is written.
LEMMA FoundCalls ==
  ASSUME CallsInv, NEW c \in Calls, FindDocument(c) \/ FindRequest(c) \/ FindComment(c)
  PROVE  CallsInv'
<1>1. PICK u \in Call : u = call[c] /\ CallInv(c, u)
  BY DEF CallsInv, RowsOK
<1>2. u.at \in {"doc", "find"} => ~Past(c)
  BY <1>1 DEF CallInv, Hand, Past, Written
<1>3. CASE FindDocument(c)
  <2>1. CASE DocumentFound
    <3>1. PICK next \in {"voices", "write", "insert"} :
            /\ next = CASE call[c].kind = "create" -> "voices"
                        [] call[c].kind \in {"star", "unstar"} -> "write"
                        [] OTHER -> "insert"
            /\ Goto(c, next) /\ Reads
      BY <1>3, <2>1 DEF FindDocument, Check
    <3>2. next = "write" => u.kind \in {"star", "unstar"}
      BY <1>1, <3>1
    <3>3. PICK v \in Call : /\ call' = [call EXCEPT ![c] = v]
                            /\ Kin(call[c], v) /\ v.at = next /\ v.ok = call[c].ok
      BY <3>1, GotoMoves DEF CallSteps, CallsInv
    <3>4. UNCHANGED <<trashed, approvals, comments, late, trail, inbox>> /\ ~trashed
      BY <2>1, <3>1 DEF Reads, rows, rest, DocumentFound
    <3>5. inbox' \subseteq Note
      BY <3>4 DEF CallsInv, RowsOK
    <3>6. u.at = "doc" /\ ~Past(c) /\ ~u.ok
      BY <1>1, <1>2, <1>3 DEF FindDocument, Past, Written
    <3>7. v.kind = u.kind /\ ~v.ok /\ ~Written(v)
      BY <1>1, <3>3, <3>6 DEF Kin, Written
    <3>8. QED BY <1>1, <3>2, <3>3, <3>4, <3>5, <3>6, <3>7, MoveCalls
  <2>2. CASE ~DocumentFound
    BY <1>1, <1>2, <1>3, <2>2, RefusedCalls DEF FindDocument, Check
  <2>3. QED BY <2>1, <2>2
<1>4. CASE FindRequest(c)
  <2>1. u.at = "find" /\ u.kind \in {"decide", "cancel"} /\ ~Past(c) /\ ~u.ok
    BY <1>1, <1>2, <1>4 DEF FindRequest, At, Past, Written
  <2>2. CASE Refuse(c)
    BY <2>1, <2>2, RefusedCalls
  <2>3. CASE ~Refuse(c)
    <3> PICK told : told = IF call[c].kind = "decide" THEN {approvals[call[c].target].by}
                           ELSE Addressees(approvals[call[c].target].assignee)
      OBVIOUS
    <3>1. /\ Telling(c, "write", told)
          /\ approvals[call[c].target].status = "PENDING"
          /\ Reads
      BY <1>4, <2>3, Zenon DEF FindRequest, Telling
    <3>2. PICK a \in Approval : /\ a = approvals[u.target] /\ a.status = "PENDING"
                                /\ u.target \in Requests
      BY <1>1, <2>1, <3>1 DEF CallInv, Hand, CallsInv, RowsOK
    <3>3. a.by \in People
      BY <3>2 DEF CallsInv, MadeInv
    <3>4. a.assignee \in People \cup {None}
      BY DEF Approval
    <3>5. told \in SUBSET People
      BY <1>1, <3>1, <3>2, <3>3, <3>4, PeopleAssumption DEF Addressees
    <3>6. PICK v \in Call : /\ call' = [call EXCEPT ![c] = v]
                            /\ Kin(call[c], v) /\ v.at = "write" /\ v.ok = call[c].ok
      BY <3>1, <3>5, ToldMoves DEF CallSteps, CallsInv
    <3>7. UNCHANGED <<trashed, approvals, comments, late, trail, inbox>>
      BY <3>1 DEF Reads, rows, rest
    <3>8. inbox' \subseteq Note
      BY <3>7 DEF CallsInv, RowsOK
    <3>9. ~v.ok /\ ~Written(v) /\ v.kind = u.kind /\ v.target = u.target
      BY <1>1, <2>1, <3>6 DEF Kin, Written
    <3>10. CallInv(c, v)
      <4>1. Hand(v)
        BY <1>1, <2>1, <3>6, <3>9 DEF CallInv, Hand, Kin
      <4>2. Stands(c, v)
        BY <3>2, <3>9 DEF Stands
      <4>3. Gone(c, v)
        BY <2>1, <3>9 DEF Gone
      <4>4. QED BY <4>1, <4>2, <4>3 DEF CallInv
    <3>11. QED BY <1>1, <2>1, <3>6, <3>7, <3>8, <3>10, QuietCalls
  <2>4. QED BY <2>2, <2>3
<1>5. CASE FindComment(c)
  <2>1. u.at = "find" /\ u.kind \in {"update", "remove"} /\ ~Past(c) /\ ~u.ok
    BY <1>1, <1>2, <1>5 DEF FindComment, At, Past, Written
  <2>2. CASE Refuse(c)
    BY <2>1, <2>2, RefusedCalls
  <2>3. CASE ~Refuse(c)
    <3>1. Goto(c, "write") /\ Reads /\ Found(call[c].target)
      BY <1>5, <2>3 DEF FindComment, Check
    <3>2. PICK v \in Call : /\ call' = [call EXCEPT ![c] = v]
                            /\ Kin(call[c], v) /\ v.at = "write" /\ v.ok = call[c].ok
      BY <3>1, GotoMoves DEF CallSteps, CallsInv
    <3>3. UNCHANGED <<trashed, approvals, comments, late, trail, inbox>>
      BY <3>1 DEF Reads, rows, rest
    <3>4. inbox' \subseteq Note
      BY <3>3 DEF CallsInv, RowsOK
    <3>5. ~v.ok /\ ~Written(v) /\ v.kind = u.kind /\ v.target = u.target
      BY <1>1, <2>1, <3>2 DEF Kin, Written
    <3>6. comments[u.target].deleted = None
      BY <1>1, <3>1 DEF Found, LiveComments
    <3>7. CallInv(c, v)
      <4>1. Hand(v)
        BY <1>1, <2>1, <3>2, <3>5 DEF CallInv, Hand, Kin
      <4>2. Stands(c, v)
        BY <2>1, <3>5 DEF Stands
      <4>3. Gone(c, v)
        BY <2>1, <3>5, <3>6 DEF Gone
      <4>4. QED BY <4>1, <4>2, <4>3 DEF CallInv
    <3>8. QED BY <1>1, <2>1, <3>2, <3>3, <3>4, <3>7, QuietCalls
  <2>4. QED BY <2>2, <2>3
<1>6. QED BY <1>3, <1>4, <1>5

\* Steps after which the call has still to write, or had nothing to write.
LEMMA GoingCalls ==
  ASSUME CallsInv, NEW c \in Calls,
         ReadVoices(c) \/ WriteStar(c) \/ WriteRead(c) \/ ReadPanel(c)
  PROVE  CallsInv'
<1>1. PICK u \in Call : u = call[c] /\ CallInv(c, u)
  BY DEF CallsInv, RowsOK
<1>2. u.at \in {"voices", "write", "find"} => ~Past(c) /\ ~u.ok
  BY <1>1 DEF CallInv, Hand, Past, Written
<1>3. inbox \subseteq Note
  BY DEF CallsInv, RowsOK
<1>4. CASE ReadVoices(c)
  <2>1. u.at = "voices" /\ u.kind = "create"
    BY <1>1, <1>4 DEF ReadVoices, At
  <2>2. Participants \in SUBSET People
    <3>1. ASSUME NEW k \in LiveComments PROVE comments[k].author \in People
      <4>1. comments[k] \in Comment /\ comments[k].author # None
        BY DEF LiveComments, CallsInv, RowsOK
      <4>2. QED BY <4>1 DEF Comment
    <3>2. QED BY <3>1, PeopleAssumption DEF Participants
  <2>3. PICK v \in Call : /\ call' = [call EXCEPT ![c] = v]
                          /\ Kin(call[c], v) /\ v.at = "insert" /\ v.ok = call[c].ok
    <3>1. Telling(c, "insert", Participants)
      BY <1>4 DEF ReadVoices, Telling
    <3>2. QED BY <2>2, <3>1, ToldMoves DEF CallSteps, CallsInv
  <2>4. UNCHANGED <<trashed, approvals, comments, late, trail, inbox>>
    BY <1>4 DEF ReadVoices, Reads, rows, rest
  <2>5. v.kind = "create" /\ ~v.ok
    BY <1>1, <1>2, <2>1, <2>3 DEF Kin
  <2>6. QED BY <1>1, <1>2, <1>3, <2>1, <2>3, <2>4, <2>5, MoveCalls
<1>5. CASE WriteStar(c)
  <2>1. u.at = "write" /\ u.kind \in {"star", "unstar"}
    BY <1>1, <1>5 DEF WriteStar, At
  <2>2. PICK v \in Call : /\ call' = [call EXCEPT ![c] = v]
                          /\ Kin(call[c], v) /\ v.at \in {"answered", "done"} /\ v.ok
    BY <1>5, FinishMoves DEF WriteStar, CallsInv
  <2>3. UNCHANGED <<trashed, approvals, comments, late, trail, inbox>>
    BY <1>5 DEF WriteStar, rest
  <2>4. v.kind = u.kind /\ Written(v)
    BY <1>1, <2>2 DEF Kin, Written
  <2>5. QED BY <1>1, <1>2, <1>3, <2>1, <2>2, <2>3, <2>4, MoveCalls
<1>6. CASE WriteRead(c)
  <2>1. u.at = "write" /\ u.kind \in {"readAll", "readOne"}
    BY <1>1, <1>6 DEF WriteRead, At
  <2>2. inbox' \subseteq Note
    <3>1. ASSUME NEW n \in Note PROVE [n EXCEPT !.read = TRUE] \in Note
      BY DEF Note
    <3>2. QED BY <1>3, <1>6, <3>1 DEF WriteRead
  <2>3. UNCHANGED <<trashed, approvals, comments, late, trail>>
    BY <1>6 DEF WriteRead, rest
  <2>4. PICK v \in Call : /\ call' = [call EXCEPT ![c] = v] /\ Kin(call[c], v)
                          /\ \/ v.at \in {"answered", "done"} /\ v.ok
                             \/ v.at = "find" /\ v.ok = call[c].ok
    <3>1. CASE Finish(c)
      BY <3>1, FinishMoves DEF CallsInv
    <3>2. CASE Goto(c, "find")
      BY <3>2, GotoMoves DEF CallSteps, CallsInv
    <3>3. QED BY <1>6, <3>1, <3>2 DEF WriteRead
  <2>5. v.kind = u.kind /\ (v.ok => v.at \in {"answered", "done"})
    BY <1>1, <1>2, <2>1, <2>4 DEF Kin
  <2>6. QED BY <1>1, <1>2, <2>1, <2>2, <2>3, <2>4, <2>5, MoveCalls
<1>7. CASE ReadPanel(c)
  <2>1. u.at = "find" /\ u.kind \in {"panel", "readOne"}
    BY <1>1, <1>7 DEF ReadPanel, At
  <2>2. PICK v \in Call : /\ call' = [call EXCEPT ![c] = v]
                          /\ Kin(call[c], v) /\ v.at = "answered" /\ v.ok
    BY <1>7, NotesAreFinite, PanelMoves DEF ReadPanel, CallsInv
  <2>3. UNCHANGED <<trashed, approvals, comments, late, trail, inbox>>
    BY <1>7 DEF ReadPanel, Reads, rows, rest
  <2>4. v.kind = u.kind
    BY <1>1, <2>2 DEF Kin
  <2>5. QED BY <1>1, <1>2, <1>3, <2>1, <2>2, <2>3, <2>4, MoveCalls
<1>8. QED BY <1>4, <1>5, <1>6, <1>7

\* A call that has written tells the others.
LEMMA TellingCalls ==
  ASSUME CallsInv, NEW c \in Calls, TellStep(c)
  PROVE  CallsInv'
<1>1. PICK u \in Call : u = call[c] /\ CallInv(c, u)
  BY DEF CallsInv, RowsOK
<1>2. u.at \in {"record", "announce", "count", "tell"} /\ Past(c) /\ ~u.ok
  BY <1>1 DEF TellStep, Record, Announce, CountUnread, Tell, CallInv, Hand, Past, Written
<1>3. inbox \subseteq Note
  BY DEF CallsInv, RowsOK
<1>4. CASE Record(c)
  <2>1. PICK v \in Call : /\ call' = [call EXCEPT ![c] = v]
                          /\ Kin(call[c], v) /\ v.at = "announce" /\ v.ok = call[c].ok
    BY <1>4, GotoMoves DEF Record, CallSteps, CallsInv
  <2>2. UNCHANGED <<trashed, approvals, comments, late>>
    BY <1>4 DEF Record, rest
  <2>3. Written(v) /\ v.target = call[c].target
    BY <2>1 DEF Written, Kin
  <2>4. UNCHANGED trail \/ trail' = trail \cup {<<c, v.target>>}
    BY <1>4, <2>3 DEF Record
  <2>5. inbox' \subseteq Note
    <3>1. Recipients(c) \subseteq People
      BY <1>1 DEF Recipients, Call
    <3>2. [to : Recipients(c), by : {c}, read : {FALSE}] \subseteq Note
      BY <3>1 DEF Note
    <3>3. QED BY <1>3, <1>4, <3>2 DEF Record
  <2>6. QED BY <1>1, <1>2, <2>1, <2>2, <2>3, <2>4, <2>5, MoveCalls
<1>5. CASE Announce(c) \/ CountUnread(c) \/ Tell(c)
  <2>1. UNCHANGED <<trashed, approvals, comments, late, trail, inbox>>
    BY <1>5 DEF Announce, CountUnread, Tell, Reads, rows, rest
  <2>2. PICK v \in Call : /\ call' = [call EXCEPT ![c] = v] /\ Kin(call[c], v)
                          /\ \/ v.at \in {"answered", "done"} /\ v.ok
                             \/ v.at \in {"count", "tell"} /\ v.ok = call[c].ok
    <3>1. CASE Finish(c)
      BY <3>1, FinishMoves DEF CallsInv
    <3>2. CASE Goto(c, "count")
      BY <3>2, GotoMoves DEF CallSteps, CallsInv
    <3>3. CASE CountUnread(c)
      <4>1. PICK n \in Nat : n = Cardinality(Unread(Me))
        BY NotesAreFinite DEF CallsInv
      <4>2. Counting(c, "tell", n)
        BY <3>3, <4>1 DEF CountUnread, Counting
      <4>3. QED BY <4>2, UnreadMoves DEF CallSteps, CallsInv
    <3>4. CASE Announce(c)
      BY <3>1, <3>2, <3>4 DEF Announce
    <3>5. CASE Tell(c)
      BY <3>1, <3>5 DEF Tell
    <3>6. QED BY <1>5, <3>3, <3>4, <3>5
  <2>3. Written(v) /\ (v.ok => v.at \in {"answered", "done"})
    BY <1>1, <1>2, <2>2 DEF Written
  <2>4. QED BY <1>1, <1>2, <1>3, <2>1, <2>2, <2>3, MoveCalls
<1>6. QED BY <1>4, <1>5 DEF TellStep

\* A call writes its row; what is said of the other calls stands, because the
\* row was not there, was pending, or keeps what they look at.
LEMMA WrittenCalls ==
  ASSUME CallsInv, NEW c \in Calls, NEW v \in Call, call' = [call EXCEPT ![c] = v],
         Kin(call[c], v), ~Past(c), v.at = "record", ~v.ok,
         UNCHANGED <<trashed, inbox, trail>>,
         approvals' \in [Requests -> Approval],
         comments' \in [Comments -> Comment],
         late' \in [Comments \cup {"document"} -> SUBSET Calls],
         late'["document"] = late["document"],
         \A a \in Requests :
           \/ approvals'[a] = approvals[a]
           \/ /\ approvals[a].status = "none" /\ a = c
              /\ approvals'[a].status = "PENDING" /\ approvals'[a].settled = None
              /\ approvals'[a].by \in People
           \/ /\ approvals[a].status = "PENDING"
              /\ approvals'[a].status \notin {"none", "PENDING"}
              /\ approvals'[a].settled = c /\ approvals'[a].by = approvals[a].by,
         \A k \in Comments :
           /\ comments'[k].author = comments[k].author \/ k = c
           /\ comments[k].author # None => comments'[k].author # None
           /\ comments'[k].deleted # None => comments'[k].author # None
           /\ \/ comments'[k].deleted = comments[k].deleted /\ late'[k] = late[k]
              \/ late'[k] = {d \in Calls : UnderWay(d)},
         Hand(v)', Stands(c, v)'
  PROVE  CallsInv'
<1>1. /\ call' \in [Calls -> Call] /\ call'[c] = v
      /\ \A d \in Calls : d # c => call'[d] = call[d]
  BY CallPut DEF CallsInv
<1>2. RowsOK'
  BY <1>1 DEF CallsInv, RowsOK
<1>3. ~call[c].ok /\ v.before = call[c].before
  BY DEF Past, Written, Kin
<1>4. \A d \in Calls : /\ (call'[d].ok <=> call[d].ok) /\ (Past(d) => Past(d)')
                       /\ call'[d].before = call[d].before
  BY <1>1, <1>3 DEF Past, Written
<1>5. Past(c)'
  BY <1>1 DEF Past, Written
<1>6. MadeInv'
  <2>1. ASSUME NEW d \in Calls, approvals'[d].status # "none" \/ comments'[d].author # None
        PROVE  Past(d)'
    <3>1. CASE d = c
      BY <1>5, <3>1
    <3>2. CASE d # c
      <4>1. d \in Requests /\ d \in Comments
        BY DEF Requests, Comments
      <4>2. approvals[d].status # "none" \/ comments[d].author # None
        BY <2>1, <3>2, <4>1
      <4>3. QED BY <1>4, <4>2 DEF CallsInv, MadeInv
    <3>3. QED BY <3>1, <3>2
  <2>2. ASSUME NEW a \in Requests
        PROVE  /\ approvals'[a].status \in {"none", "PENDING"} => approvals'[a].settled = None
               /\ approvals'[a].status \notin {"none", "PENDING"} =>
                    approvals'[a].settled \in Calls /\ Past(approvals[a].settled)'
               /\ approvals'[a].status # "none" => approvals'[a].by \in People
    <3>1. CASE approvals'[a] = approvals[a]
      <4>1. approvals[a].settled \in Calls /\ Past(approvals[a].settled) =>
              \E d \in Calls : approvals'[a].settled = d /\ Past(d)'
        BY <1>4, <3>1
      <4>2. QED BY <3>1, <4>1 DEF CallsInv, MadeInv, Past, Written
    <3>2. CASE approvals'[a] # approvals[a]
      <4>1. approvals'[a].settled = c => Past(approvals[a].settled)'
        BY <1>5 DEF Past, Written
      <4>2. QED BY <3>2, <4>1 DEF CallsInv, MadeInv
    <3>3. QED BY <3>1, <3>2
  <2>3. QED BY <2>1, <2>2 DEF MadeInv
<1>7. TrailInv'
  <2> SUFFICES ASSUME NEW e \in trail
               PROVE  e[1] \in Calls /\ Past(e[1])' /\ e[2] = call'[e[1]].target
    BY DEF TrailInv
  <2>1. PICK d \in Calls : d = e[1] /\ Past(d) /\ e[2] = call[d].target
    BY DEF CallsInv, TrailInv
  <2>2. QED BY <1>1, <1>4, <2>1
<1>8. ASSUME NEW d \in Calls PROVE CallInv(d, call[d])'
  <2>1. CASE d = c
    <3>1. Gone(c, v)'
      BY DEF Gone
    <3>2. QED BY <1>1, <2>1, <3>1 DEF CallInv, Hand, Stands, Gone
  <2>2. CASE d # c
    <3>1. PICK w \in Call : w = call'[d] /\ w = call[d]
      BY <1>1, <2>2
    <3>2. CallInv(d, w)
      BY <3>1 DEF CallsInv
    <3>3. Hand(w)'
      <4>1. \A a \in Requests : approvals[a].status # "none" => approvals'[a].status # "none"
        OBVIOUS
      <4>2. \A e \in w.before : call'[e].ok
        BY <1>4, <3>2 DEF CallInv, Hand, Call
      <4>3. QED BY <3>2, <4>1, <4>2 DEF CallInv, Hand
    <3>4. Stands(d, w)'
      <4>1. ASSUME w.kind \in {"decide", "cancel"}, w.at \in {"find", "write"} \/ Written(w)
            PROVE  w.target \in Requests /\ approvals[w.target].status # "none"
        BY <3>2, <4>1 DEF CallInv, Hand
      <4>2. ASSUME w.kind \in {"decide", "cancel"}, Written(w)
            PROVE  approvals'[w.target] = approvals[w.target]
        <5>1. approvals[w.target].settled = d
              \/ (w.kind = "cancel" /\ approvals[w.target].settled \in Calls)
          BY <3>2, <4>2 DEF CallInv, Stands
        <5>2. approvals[w.target].settled # None
          BY <5>1, PeopleAssumption DEF Requests
        <5>3. approvals[w.target].status # "PENDING"
          BY <4>1, <4>2, <5>2 DEF CallsInv, MadeInv
        <5>4. QED BY <4>1, <4>2, <5>3
      <4>3. w.kind = "decide" /\ Written(w) =>
              /\ approvals'[w.target].settled = d
              /\ approvals'[w.target].status = w.choice
        BY <3>2, <4>2 DEF CallInv, Stands
      <4>4. ASSUME w.kind = "cancel", w.at = "write"
            PROVE  \/ approvals'[w.target].status = "PENDING"
                   \/ approvals'[w.target].settled \notin w.before
        <5>1. c \notin w.before
          BY <1>3, <3>2 DEF CallInv, Hand
        <5>2. QED BY <3>2, <4>1, <4>4, <5>1 DEF CallInv, Stands
      <4>5. ASSUME w.kind = "cancel", Written(w)
            PROVE  \/ /\ approvals'[w.target].settled = d
                      /\ approvals'[w.target].status = "CANCELLED"
                   \/ \E e \in Calls : /\ approvals'[w.target].settled = e
                                       /\ d # e /\ d \notin call'[e].before /\ e \notin w.before
        BY <1>4, <3>2, <4>2, <4>5 DEF CallInv, Stands
      <4>6. QED BY <4>3, <4>4, <4>5 DEF Stands, Written
    <3>5. Gone(d, w)'
      <4>1. ASSUME w.kind \in {"update", "remove"}, w.at = "write"
            PROVE  comments'[w.target].deleted = None \/ d \in late'[w.target]
        <5>1. w.target \in Comments
          BY <3>2, <4>1 DEF CallInv, Hand
        <5>2. d \in {e \in Calls : UnderWay(e)}
          BY <3>1, <4>1 DEF UnderWay
        <5>3. QED BY <3>2, <4>1, <5>1, <5>2 DEF CallInv, Gone
      <4>2. QED BY <3>2, <4>1 DEF CallInv, Gone
    <3>6. QED BY <3>1, <3>3, <3>4, <3>5 DEF CallInv, Hand, Stands, Gone
  <2>3. QED BY <2>1, <2>2
<1>9. QED BY <1>2, <1>6, <1>7, <1>8 DEF CallsInv

LEMMA InsertRequestCalls ==
  ASSUME CallsInv, NEW c \in Calls, InsertRequest(c) PROVE CallsInv'
<1>1. PICK u \in Call : u = call[c] /\ CallInv(c, u)
  BY DEF CallsInv, RowsOK
<1>2. u.kind = "request" /\ u.at = "insert" /\ ~Past(c) /\ ~u.ok
  BY <1>1 DEF InsertRequest, At, CallInv, Hand, Past, Written
<1>3. u.who \in People /\ u.choice \in People \cup {None}
  BY <1>1, <1>2 DEF CallInv, Hand
<1>4. CASE AlreadyPending
  BY <1>2, <1>4, RefusedCalls DEF InsertRequest
<1>5. CASE ~AlreadyPending
  <2>1. PICK row : row = [NoApproval EXCEPT !.status = "PENDING", !.by = u.who,
                                            !.assignee = u.choice]
    OBVIOUS
  <2>2. /\ row \in Approval /\ row.status = "PENDING" /\ row.settled = None
        /\ row.by \in People
    BY <1>3, <2>1 DEF NoApproval, Approval
  <2>3. approvals' = [approvals EXCEPT ![c] = row] /\ c \in Requests
    BY <1>1, <1>5, <2>1 DEF InsertRequest, Requests
  <2>4. /\ approvals' \in [Requests -> Approval] /\ approvals'[c] = row
        /\ \A a \in Requests : a # c => approvals'[a] = approvals[a]
    BY <2>2, <2>3 DEF CallsInv, RowsOK
  <2>5. approvals[c].status = "none"
    BY <1>2 DEF CallsInv, MadeInv
  <2>6. PICK told \in SUBSET People : told = Addressees(u.choice)
    BY <1>3, PeopleAssumption DEF Addressees
  <2>7. Telling(c, "record", told)
    BY <1>1, <1>5, <2>6 DEF InsertRequest, Telling
  <2>8. PICK v \in Call : /\ call' = [call EXCEPT ![c] = v]
                          /\ Kin(call[c], v) /\ v.at = "record" /\ v.ok = call[c].ok
    BY <2>7, ToldMoves DEF CallSteps, CallsInv
  <2>9. v.kind = "request" /\ ~v.ok /\ v.who = u.who /\ v.choice = u.choice
        /\ v.before = u.before
    BY <1>1, <1>2, <2>8 DEF Kin
  <2>10. UNCHANGED <<trashed, inbox, trail, comments, late>>
    BY <1>5 DEF InsertRequest, rest
  <2>11. \A d \in v.before : call'[d].ok
    <3>1. \A d \in v.before : d \in Calls /\ call[d].ok /\ d # c
      BY <1>1, <1>2, <2>9 DEF CallInv, Hand, Call
    <3>2. QED BY <2>8, <3>1, CallPut DEF CallsInv
  <2>12. Hand(v)' /\ Stands(c, v)'
    BY <1>3, <2>8, <2>9, <2>11 DEF Hand, Stands
  <2>13. /\ comments \in [Comments -> Comment]
         /\ late \in [Comments \cup {"document"} -> SUBSET Calls]
         /\ \A k \in Comments : comments[k].deleted # None => comments[k].author # None
    BY DEF CallsInv, RowsOK, MadeInv
  <2>14. QED BY <1>2, <2>2, <2>4, <2>5, <2>8, <2>9, <2>10, <2>12, <2>13, WrittenCalls
<1>6. QED BY <1>4, <1>5

LEMMA SettlingCalls ==
  ASSUME CallsInv, NEW c \in Calls, WriteDecision(c) \/ WriteCancel(c) PROVE CallsInv'
<1>1. PICK u \in Call : u = call[c] /\ CallInv(c, u)
  BY DEF CallsInv, RowsOK
<1>2. u.kind \in {"decide", "cancel"} /\ u.at = "write" /\ ~Past(c) /\ ~u.ok
  BY <1>1 DEF WriteDecision, WriteCancel, At, CallInv, Hand, Past, Written
<1>3. u.target \in Requests /\ approvals[u.target].status # "none"
  BY <1>1, <1>2 DEF CallInv, Hand
<1>4. CASE Refuse(c)
  BY <1>2, <1>4, RefusedCalls
<1>5. CASE ~Refuse(c)
  <2>1. Goto(c, "record") /\ UNCHANGED <<trashed, inbox, trail, comments, late>>
    BY <1>5 DEF WriteDecision, WriteCancel, rest
  <2>2. PICK v \in Call : /\ call' = [call EXCEPT ![c] = v]
                          /\ Kin(call[c], v) /\ v.at = "record" /\ v.ok = call[c].ok
    BY <2>1, GotoMoves DEF CallSteps, CallsInv
  <2>3. /\ v.kind = u.kind /\ v.target = u.target /\ v.choice = u.choice
        /\ ~v.ok /\ v.who = u.who /\ v.before = u.before
    BY <1>1, <1>2, <2>2 DEF Kin
  <2>4. u.who \in People
    BY <1>1, <1>2 DEF CallInv, Hand
  <2>5. /\ \A d \in v.before : call'[d].ok
        /\ \A d \in Calls : c \notin call'[d].before
    <3>1. \A d \in v.before : d \in Calls /\ call[d].ok /\ d # c
      BY <1>1, <1>2, <2>3 DEF CallInv, Hand, Call
    <3>2. \A d \in Calls : c \notin call[d].before
      BY <1>1, <1>2 DEF CallsInv, CallInv, Hand
    <3>3. QED BY <2>2, <2>3, <1>1, <3>1, <3>2, CallPut DEF CallsInv
  <2>6. /\ comments \in [Comments -> Comment]
        /\ late \in [Comments \cup {"document"} -> SUBSET Calls]
        /\ \A k \in Comments : comments[k].deleted # None => comments[k].author # None
    BY DEF CallsInv, RowsOK, MadeInv
  <2>7. CASE StillPending(u.target)
    <3>1. PICK status \in {"APPROVED", "REJECTED", "CANCELLED"} :
            /\ status = IF u.kind = "decide" THEN u.choice ELSE "CANCELLED"
            /\ Settle(c, status)
      <4>1. u.kind = "decide" => u.choice \in {"APPROVED", "REJECTED"}
        BY <1>1, <1>2 DEF CallInv, Hand
      <4>2. u.kind = "decide" => Settle(c, u.choice)
        BY <1>1, <2>7 DEF WriteDecision, WriteCancel, At
      <4>3. u.kind = "cancel" => Settle(c, "CANCELLED")
        BY <1>1, <2>7 DEF WriteDecision, WriteCancel, At
      <4>4. QED BY <1>2, <4>1, <4>2, <4>3
    <3>2. PICK old \in Approval : old = approvals[u.target]
      BY <1>3 DEF CallsInv, RowsOK
    <3>3. PICK row : row = [old EXCEPT !.status = status, !.settled = c]
      OBVIOUS
    <3>4. row \in Approval /\ row.status = status /\ row.settled = c /\ row.by = old.by
      BY <3>3 DEF Approval
    <3>5. approvals' = [approvals EXCEPT ![u.target] = row]
      BY <1>1, <3>1, <3>2, <3>3, Zenon DEF Settle
    <3>6. /\ approvals' \in [Requests -> Approval] /\ approvals'[u.target] = row
          /\ \A a \in Requests : a # u.target => approvals'[a] = approvals[a]
      BY <1>3, <3>4, <3>5 DEF CallsInv, RowsOK
    <3>7. old.status = "PENDING"
      BY <2>7, <3>2 DEF StillPending
    <3>8. Hand(v)' /\ Stands(c, v)'
      BY <1>2, <1>3, <2>2, <2>3, <2>4, <2>5, <3>1, <3>4, <3>6 DEF Hand, Stands
    <3>9. \A a \in Requests :
            \/ approvals'[a] = approvals[a]
            \/ /\ approvals[a].status = "PENDING"
               /\ approvals'[a].status \notin {"none", "PENDING"}
               /\ approvals'[a].settled = c /\ approvals'[a].by = approvals[a].by
      BY <3>2, <3>4, <3>6, <3>7
    <3>10. QED BY <1>2, <2>1, <2>2, <2>3, <2>6, <3>6, <3>8, <3>9, WrittenCalls
  <2>8. CASE ~StillPending(u.target)
    <3>1. u.kind = "cancel" /\ UNCHANGED approvals
      BY <1>1, <1>5, <2>8 DEF WriteDecision, WriteCancel, At
    <3>2. /\ approvals[u.target].settled \in Calls
          /\ approvals[u.target].settled \notin u.before
          /\ c # approvals[u.target].settled
      <4>1. approvals[u.target].status # "PENDING"
        BY <2>8 DEF StillPending
      <4>2. approvals[u.target].settled \in Calls /\ Past(approvals[u.target].settled)
        BY <1>3, <4>1 DEF CallsInv, MadeInv
      <4>3. c # approvals[u.target].settled
        BY <1>2, <4>2
      <4>4. QED BY <1>1, <1>2, <3>1, <4>1, <4>2, <4>3 DEF CallInv, Stands
    <3>3. Hand(v)' /\ Stands(c, v)'
      <4>1. Hand(v)'
        BY <1>2, <1>3, <2>2, <2>3, <2>4, <2>5, <3>1 DEF Hand
      <4>2. \E d \in Calls : /\ approvals'[v.target].settled = d
                             /\ c # d /\ c \notin call'[d].before /\ d \notin v.before
        BY <2>3, <2>5, <3>1, <3>2
      <4>3. QED BY <2>2, <2>3, <3>1, <4>1, <4>2 DEF Stands
    <3>4. approvals' \in [Requests -> Approval]
      BY <3>1 DEF CallsInv, RowsOK
    <3>5. QED BY <1>2, <2>1, <2>2, <2>3, <2>6, <3>1, <3>3, <3>4, WrittenCalls
  <2>9. QED BY <2>7, <2>8
<1>6. QED BY <1>4, <1>5

LEMMA CommentingCalls ==
  ASSUME CallsInv, NEW c \in Calls, InsertComment(c) \/ WriteBody(c) \/ WriteDeleted(c)
  PROVE  CallsInv'
<1>1. PICK u \in Call : u = call[c] /\ CallInv(c, u)
  BY DEF CallsInv, RowsOK
<1>2. /\ u.kind \in {"create", "update", "remove"} /\ u.at \in {"insert", "write"}
      /\ ~Past(c) /\ ~u.ok /\ UnderWay(c)
  BY <1>1 DEF InsertComment, WriteBody, WriteDeleted, At, CallInv, Hand, Past, Written, UnderWay
<1>3. u.who \in People
  BY <1>1, <1>2 DEF CallInv, Hand
<1>4. Goto(c, "record") /\ UNCHANGED <<trashed, inbox, trail, approvals>>
  BY DEF InsertComment, WriteBody, WriteDeleted, rest
<1>5. PICK v \in Call : /\ call' = [call EXCEPT ![c] = v]
                        /\ Kin(call[c], v) /\ v.at = "record" /\ v.ok = call[c].ok
  BY <1>4, GotoMoves DEF CallSteps, CallsInv
<1>6. v.kind = u.kind /\ ~v.ok /\ v.who = u.who /\ v.before = u.before
  BY <1>1, <1>2, <1>5 DEF Kin
<1>7. \A d \in v.before : call'[d].ok
  <2>1. \A d \in v.before : d \in Calls /\ call[d].ok /\ d # c
    BY <1>1, <1>2, <1>6 DEF CallInv, Hand, Call
  <2>2. QED BY <1>5, <2>1, CallPut DEF CallsInv
<1>8. Hand(v)' /\ Stands(c, v)'
  BY <1>2, <1>3, <1>5, <1>6, <1>7 DEF Hand, Stands
<1>9. /\ approvals \in [Requests -> Approval] /\ comments \in [Comments -> Comment]
      /\ late \in [Comments \cup {"document"} -> SUBSET Calls]
      /\ \A k \in Comments : comments[k].deleted # None => comments[k].author # None
  BY DEF CallsInv, RowsOK, MadeInv
<1>10. CASE InsertComment(c)
  <2>1. PICK row : row = [NoComment EXCEPT !.author = u.who, !.body = c]
    OBVIOUS
  <2>2. row \in Comment /\ row.author = u.who /\ row.deleted = None
    BY <1>3, <2>1 DEF NoComment, Comment
  <2>3. comments' = [comments EXCEPT ![c] = row] /\ c \in Comments /\ UNCHANGED late
    BY <1>1, <1>10, <2>1 DEF InsertComment, Comments, rest
  <2>4. /\ comments' \in [Comments -> Comment] /\ comments'[c] = row
        /\ \A k \in Comments : k # c => comments'[k] = comments[k]
    BY <1>9, <2>2, <2>3
  <2>5. comments[c].author = None /\ comments[c].deleted = None
    BY <1>2, <1>9, <2>3 DEF CallsInv, MadeInv
  <2>6. u.who # None
    BY <1>3, PeopleAssumption
  <2>7. QED
    BY <1>2, <1>4, <1>5, <1>6, <1>8, <1>9, <2>2, <2>3, <2>4, <2>5, <2>6, WrittenCalls
<1>11. CASE WriteBody(c)
  <2>1. u.kind = "update" /\ u.at = "write" /\ UNCHANGED late
    BY <1>1, <1>11 DEF WriteBody, At, rest
  <2>2. u.target \in Comments
    BY <1>1, <2>1 DEF CallInv, Hand
  <2>3. PICK old \in Comment : old = comments[u.target]
    BY <1>9, <2>2
  <2>4. PICK row : row = [old EXCEPT !.body = c]
    OBVIOUS
  <2>5. row \in Comment /\ row.author = old.author /\ row.deleted = old.deleted
    BY <2>4 DEF Comment
  <2>6. comments' = [comments EXCEPT ![u.target] = row]
    BY <1>1, <1>11, <2>3, <2>4, Zenon DEF WriteBody
  <2>7. /\ comments' \in [Comments -> Comment]
        /\ \A k \in Comments : /\ comments'[k].author = comments[k].author
                               /\ comments'[k].deleted = comments[k].deleted
    BY <1>9, <2>2, <2>3, <2>5, <2>6
  <2>8. QED BY <1>2, <1>4, <1>5, <1>6, <1>8, <1>9, <2>1, <2>7, WrittenCalls
<1>12. CASE WriteDeleted(c)
  <2>1. u.kind = "remove" /\ u.at = "write"
    BY <1>1, <1>12 DEF WriteDeleted, At
  <2>2. u.target \in Comments /\ comments[u.target].author # None
    BY <1>1, <2>1 DEF CallInv, Hand
  <2>3. CASE ~NotDeleted(u.target)
    <3>1. UNCHANGED <<comments, late>>
      BY <1>1, <1>12, <2>3 DEF WriteDeleted
    <3>2. QED BY <1>2, <1>4, <1>5, <1>6, <1>8, <1>9, <3>1, WrittenCalls
  <2>4. CASE NotDeleted(u.target)
    <3>1. PICK old \in Comment : old = comments[u.target]
      BY <1>9, <2>2
    <3>2. PICK row : row = [old EXCEPT !.deleted = c]
      OBVIOUS
    <3>3. row \in Comment /\ row.author = old.author /\ row.deleted = c
      BY <3>2 DEF Comment
    <3>4. PICK now \in SUBSET Calls : now = {d \in Calls : UnderWay(d)}
      OBVIOUS
    <3>5. /\ comments' = [comments EXCEPT ![u.target] = row]
          /\ late' = [late EXCEPT ![u.target] = now]
      BY <1>1, <1>12, <2>4, <3>1, <3>2, <3>4, Zenon DEF WriteDeleted
    <3>6. /\ comments' \in [Comments -> Comment] /\ comments'[u.target] = row
          /\ \A k \in Comments : k # u.target => comments'[k] = comments[k]
      BY <1>9, <2>2, <3>3, <3>5
    <3>7. /\ late' \in [Comments \cup {"document"} -> SUBSET Calls]
          /\ late'["document"] = late["document"] /\ late'[u.target] = now
          /\ \A k \in Comments : k # u.target => late'[k] = late[k]
      BY <1>9, <2>2, <3>5, NamesAssumption
    <3>8. \A k \in Comments :
            /\ comments'[k].author = comments[k].author
            /\ \/ comments'[k].deleted = comments[k].deleted /\ late'[k] = late[k]
               \/ late'[k] = {d \in Calls : UnderWay(d)}
            /\ comments'[k].deleted # None => comments'[k].author # None
      BY <1>9, <2>2, <3>1, <3>3, <3>4, <3>6, <3>7
    <3>9. QED BY <1>2, <1>4, <1>5, <1>6, <1>8, <1>9, <3>6, <3>7, <3>8, WrittenCalls
  <2>5. QED BY <2>3, <2>4
<1>13. QED BY <1>10, <1>11, <1>12

\* The trash catches whoever is under way.
LEMMA TrashCalls == ASSUME CallsInv, Trash PROVE CallsInv'
<1>1. /\ UNCHANGED <<approvals, comments, inbox, trail, call>>
      /\ late' = [late EXCEPT !["document"] = {c \in Calls : UnderWay(c)}]
  BY DEF Trash
<1>2. /\ late' \in [Comments \cup {"document"} -> SUBSET Calls]
      /\ late'["document"] = {c \in Calls : UnderWay(c)}
      /\ \A k \in Comments : late'[k] = late[k]
  BY <1>1, NamesAssumption DEF CallsInv, RowsOK
<1>3. RowsOK' /\ MadeInv' /\ TrailInv'
  BY <1>1, <1>2 DEF CallsInv, RowsOK, MadeInv, TrailInv, Past
<1>4. ASSUME NEW c \in Calls PROVE CallInv(c, call[c])'
  <2>1. CallInv(c, call[c])
    BY DEF CallsInv
  <2>2. Hand(call[c])' /\ Stands(c, call[c])'
    BY <1>1, <2>1 DEF CallInv, Hand, Stands
  <2>3. call[c].kind = "update" /\ call[c].at = "write" => call[c].target \in Comments
    BY <2>1 DEF CallInv, Hand
  <2>4. Gone(c, call[c])'
    BY <1>1, <1>2, <2>1, <2>3 DEF CallInv, Gone, UnderWay
  <2>5. QED BY <2>2, <2>4 DEF CallInv
<1>5. QED BY <1>3, <1>4 DEF CallsInv

LEMMA CallStepCalls ==
  ASSUME CallsInv, NEW c \in Calls, CallStep(c) PROVE CallsInv'
<1>1. CASE FindDocument(c) \/ FindRequest(c) \/ FindComment(c)
  BY <1>1, FoundCalls
<1>2. CASE TellStep(c)
  BY <1>2, TellingCalls
<1>3. CASE InsertRequest(c)
  BY <1>3, InsertRequestCalls
<1>4. CASE WriteDecision(c) \/ WriteCancel(c)
  BY <1>4, SettlingCalls
<1>5. CASE InsertComment(c) \/ WriteBody(c) \/ WriteDeleted(c)
  BY <1>5, CommentingCalls
<1>6. CASE ReadVoices(c) \/ WriteStar(c) \/ WriteRead(c) \/ ReadPanel(c)
  BY <1>6, GoingCalls
<1>7. CASE \/ BeginRequest(c) \/ BeginDecide(c) \/ BeginCancel(c) \/ BeginCreate(c)
           \/ BeginUpdate(c) \/ BeginRemove(c) \/ BeginStar(c) \/ BeginReadAll(c)
           \/ BeginReadOne(c) \/ BeginPanel(c)
  BY <1>7, BeginsCalls
<1>8. QED
  BY <1>1, <1>2, <1>3, <1>4, <1>5, <1>6, <1>7
  DEF CallStep, ApprovalStep, CommentStep, InboxStep

\* The page reads an answer.
LEMMA AnswerCalls ==
  ASSUME CallsInv, NEW c \in Calls, Answer(c) PROVE CallsInv'
<1>1. PICK u \in Call : u = call[c] /\ CallInv(c, u)
  BY DEF CallsInv, RowsOK
<1>2. /\ u.at = "answered" /\ Goto(c, "done")
      /\ UNCHANGED <<trashed, approvals, comments, inbox, trail, late>>
  BY <1>1 DEF Answer, rows, rest
<1>3. PICK v \in Call : /\ call' = [call EXCEPT ![c] = v]
                        /\ Kin(call[c], v) /\ v.at = "done" /\ v.ok = call[c].ok
  BY <1>2, GotoMoves DEF CallSteps, CallsInv
<1>4. /\ inbox' \subseteq Note /\ v.kind = u.kind
      /\ (Past(c) <=> u.ok) /\ (Written(v) <=> u.ok)
  BY <1>1, <1>2, <1>3 DEF CallsInv, RowsOK, Kin, Past, Written
<1>5. QED BY <1>1, <1>2, <1>3, <1>4, MoveCalls

LEMMA CallsInvariant == ASSUME CallsInv, [Next]_vars PROVE CallsInv'
<1>1. CASE UNCHANGED server
  <2>1. UNCHANGED <<trashed, approvals, comments, inbox, trail, late, call>>
    BY <1>1 DEF server, rows, rest
  <2>2. RowsOK' /\ MadeInv' /\ TrailInv'
    BY <2>1 DEF CallsInv, RowsOK, MadeInv, TrailInv, Past
  <2>3. ASSUME NEW c \in Calls PROVE CallInv(c, call[c])'
    BY <2>1 DEF CallsInv, CallInv, Hand, Stands, Gone
  <2>4. QED BY <2>2, <2>3 DEF CallsInv
<1>2. CASE Trash
  BY <1>2, TrashCalls
<1>3. CASE \E c \in Calls : CallStep(c)
  BY <1>3, CallStepCalls
<1>4. CASE \E c \in Calls : Answer(c)
  BY <1>4, AnswerCalls
<1>5. QED
  BY <1>1, <1>2, <1>3, <1>4
  DEF Next, PageStep, ServerStep, ReadBadge, ShowBadge, OpenStream, LoseStream, OthersStream,
      ReadEvent, FetchRows, FetchTotal, ShowThread, vars

LEMMA InitCalls == Init => CallsInv
<1> SUFFICES ASSUME Init PROVE CallsInv
  OBVIOUS
<1> USE DEF Init, CollaborationInit
<1>1. PICK p \in People, q \in People \cup {None} :
        approvals = [a \in Requests |->
          IF a = Asked /\ Uses({"decide", "cancel"})
          THEN [NoApproval EXCEPT !.status = "PENDING", !.by = p, !.assignee = q]
          ELSE NoApproval]
  OBVIOUS
<1>2. PICK author \in [Said -> People] :
        comments = [k \in Comments |->
          IF k \in Said /\ Uses({"create", "update", "remove"})
          THEN [NoComment EXCEPT !.author = author[k]] ELSE NoComment]
  OBVIOUS
<1>3. PICK row : row = [NoApproval EXCEPT !.status = "PENDING", !.by = p, !.assignee = q]
  OBVIOUS
<1>4. /\ row \in Approval /\ row.status = "PENDING" /\ row.settled = None /\ row.by = p
      /\ NoApproval \in Approval /\ NoApproval.status = "none" /\ NoApproval.settled = None
  BY <1>3 DEF NoApproval, Approval
<1>5. /\ approvals \in [Requests -> Approval]
      /\ \A a \in Requests : /\ approvals[a].settled = None
                             /\ approvals[a].status \in {"none", "PENDING"}
                             /\ approvals[a].status # "none" => approvals[a].by \in People
                             /\ a # Asked => approvals[a].status = "none"
  BY <1>1, <1>3, <1>4
<1>6. ASSUME NEW k \in Comments
      PROVE  /\ comments[k] \in Comment /\ comments[k].deleted = None
             /\ k \notin Said => comments[k].author = None
  <2>1. /\ NoComment \in Comment /\ NoComment.deleted = None /\ NoComment.author = None
    BY DEF NoComment, Comment
  <2>2. ASSUME NEW who \in People
        PROVE  /\ [NoComment EXCEPT !.author = who] \in Comment
               /\ [NoComment EXCEPT !.author = who].deleted = None
    BY DEF NoComment, Comment
  <2>3. QED BY <1>2, <2>1, <2>2
<1>7. comments \in [Comments -> Comment]
  BY <1>2, <1>6
<1>8. /\ NoCall \in Call /\ NoCall.kind = "none" /\ NoCall.at = "idle" /\ ~NoCall.ok
      /\ NoCall.before = {}
  BY DEF NoCall, Call, CallSteps
<1>9. call \in [Calls -> Call] /\ \A c \in Calls : call[c] = NoCall
  BY <1>8
<1>10. inbox = {} /\ trail = {} /\ late \in [Comments \cup {"document"} -> SUBSET Calls]
  OBVIOUS
<1>11. RowsOK /\ TrailInv
  BY <1>5, <1>7, <1>9, <1>10 DEF RowsOK, TrailInv
<1>12. MadeInv
  <2>1. \A c \in Calls : c \in Requests /\ c \in Comments /\ c # Asked /\ c \notin Said
    BY NamesAssumption DEF Requests, Comments
  <2>2. QED BY <1>5, <1>6, <2>1 DEF MadeInv
<1>13. \A c \in Calls : CallInv(c, call[c])
  BY <1>8, <1>9 DEF CallInv, Hand, Stands, Gone, Written
<1>14. QED BY <1>11, <1>12, <1>13 DEF CallsInv

LEMMA CallsInvAnswers == CallsInv => AnswersStand
<1> SUFFICES ASSUME CallsInv, NEW c \in Calls
             PROVE  LET a == approvals[call[c].target]
                    IN  /\ Answered(c, {"decide"}) => a.settled = c /\ a.status = call[c].choice
                        /\ Answered(c, {"cancel"}) =>
                             \/ a.settled = c /\ a.status = "CANCELLED"
                             \/ \E d \in Calls : a.settled = d /\ Overlap(c, d)
                        /\ \A e \in trail : e[1] = c /\ call[c].kind = "decide" =>
                             approvals[e[2]].settled = c
  BY DEF AnswersStand
<1>1. Stands(c, call[c])
  BY DEF CallsInv, CallInv
<1>2. \A e \in trail : e[1] = c => Past(c) /\ e[2] = call[c].target
  BY DEF CallsInv, TrailInv
<1>3. QED BY <1>1, <1>2 DEF Stands, Written, Past, Answered, Overlap

-----------------------------------------------------------------------------
(* What is gone is left alone.                                              *)

LEMMA TrashStep ==
  ASSUME CallsInv, [Next]_vars, <<approvals, comments, stars>>' # <<approvals, comments, stars>>,
         NEW d \in Calls, trashed, call'[d] # call[d],
         call[d].kind \in {"request", "create", "star", "unstar"}
  PROVE  d \in late["document"]
<1>1. PICK c \in Calls : \/ InsertRequest(c) \/ WriteDecision(c) \/ WriteCancel(c)
                         \/ InsertComment(c) \/ WriteBody(c) \/ WriteDeleted(c) \/ WriteStar(c)
  <2>1. ~(UNCHANGED rows)
    BY DEF rows
  <2>2. ~Trash
    BY DEF Trash
  <2>3. PICK c \in Calls : CallStep(c)
    BY <2>1, <2>2
    DEF Next, PageStep, ServerStep, ReadBadge, ShowBadge, OpenStream, LoseStream, OthersStream,
        ReadEvent, FetchRows, FetchTotal, ShowThread, Answer, vars, server
  <2>4. ~FindDocument(c) /\ ~FindRequest(c) /\ ~FindComment(c) /\ ~ReadVoices(c) /\ ~ReadPanel(c)
    BY <2>1 DEF FindDocument, FindRequest, FindComment, Check, Refuse, ReadVoices, ReadPanel, Reads
  <2>5. ~BeginRequest(c) /\ ~BeginDecide(c) /\ ~BeginCancel(c) /\ ~BeginCreate(c)
    BY <2>1 DEF BeginRequest, BeginDecide, BeginCancel, BeginCreate, Begin
  <2>6. ~BeginUpdate(c) /\ ~BeginRemove(c) /\ ~BeginStar(c)
    BY <2>1 DEF BeginUpdate, BeginRemove, BeginStar, Begin
  <2>7. ~BeginReadAll(c) /\ ~BeginReadOne(c) /\ ~BeginPanel(c)
    BY <2>1 DEF BeginReadAll, BeginReadOne, BeginPanel, Begin
  <2>8. ~TellStep(c) /\ ~WriteRead(c)
    BY DEF TellStep, Record, Announce, CountUnread, Tell, Reads, rows, WriteRead
  <2>9. QED
    BY <2>3, <2>4, <2>5, <2>6, <2>7, <2>8 DEF CallStep, ApprovalStep, CommentStep, InboxStep
<1>2. d = c
  <2>1. (\E v : call' = [call EXCEPT ![c] = v]) => (d # c => call'[d] = call[d])
    BY DEF CallsInv, RowsOK
  <2>2. \E v : call' = [call EXCEPT ![c] = v]
    BY <1>1
    DEF InsertRequest, WriteDecision, WriteCancel, InsertComment, WriteBody, WriteDeleted,
        WriteStar, Goto, Refuse, Finish
  <2>3. QED BY <2>1, <2>2
<1>3. call[c].at \in {"insert", "write"}
  BY <1>1 DEF InsertRequest, WriteDecision, WriteCancel, InsertComment, WriteBody, WriteDeleted,
              WriteStar, At
<1>4. QED BY <1>2, <1>3 DEF CallsInv, CallInv, Gone

LEMMA RemovedStep ==
  ASSUME CallsInv, [Next]_vars, NEW k \in Comments, comments[k].deleted # None
  PROVE  /\ comments'[k].deleted = comments[k].deleted
         /\ comments'[k].body # comments[k].body => comments'[k].body \in late[k]
<1>1. CASE UNCHANGED comments
  BY <1>1
<1>2. CASE comments' # comments
  <2>1. PICK c \in Calls : InsertComment(c) \/ WriteBody(c) \/ WriteDeleted(c)
    <3>1. ~Trash /\ ~(UNCHANGED rows)
      BY <1>2 DEF Trash, rows
    <3>2. PICK c \in Calls : CallStep(c)
      BY <3>1
      DEF Next, PageStep, ServerStep, ReadBadge, ShowBadge, OpenStream, LoseStream, OthersStream,
          ReadEvent, FetchRows, FetchTotal, ShowThread, Answer, vars, server
    <3>3. ~FindDocument(c) /\ ~FindRequest(c) /\ ~FindComment(c) /\ ~ReadVoices(c) /\ ~ReadPanel(c)
      BY <3>1 DEF FindDocument, FindRequest, FindComment, Check, Refuse, ReadVoices, ReadPanel, Reads
    <3>4. ~BeginRequest(c) /\ ~BeginDecide(c) /\ ~BeginCancel(c) /\ ~BeginCreate(c)
      BY <3>1 DEF BeginRequest, BeginDecide, BeginCancel, BeginCreate, Begin
    <3>5. ~BeginUpdate(c) /\ ~BeginRemove(c) /\ ~BeginStar(c)
      BY <3>1 DEF BeginUpdate, BeginRemove, BeginStar, Begin
    <3>6. ~BeginReadAll(c) /\ ~BeginReadOne(c) /\ ~BeginPanel(c)
      BY <3>1 DEF BeginReadAll, BeginReadOne, BeginPanel, Begin
    <3>7. ~TellStep(c) /\ ~WriteRead(c) /\ ~WriteStar(c)
      BY <1>2 DEF TellStep, Record, Announce, CountUnread, Tell, Reads, rows, WriteRead, WriteStar
    <3>8. ~InsertRequest(c) /\ ~WriteDecision(c) /\ ~WriteCancel(c)
      BY <1>2 DEF InsertRequest, WriteDecision, WriteCancel, Refuse, Reads, rows
    <3>9. QED
      BY <3>2, <3>3, <3>4, <3>5, <3>6, <3>7, <3>8
      DEF CallStep, ApprovalStep, CommentStep, InboxStep
  <2>2. PICK u \in Call : u = call[c] /\ CallInv(c, u)
    BY DEF CallsInv, RowsOK
  <2>3. comments \in [Comments -> Comment]
    BY DEF CallsInv, RowsOK
  <2>4. CASE InsertComment(c)
    <3>1. call[c].at = "insert" /\ ~Past(c)
      BY <2>2, <2>4 DEF InsertComment, At, CallInv, Hand, Past, Written
    <3>2. comments[c].author = None
      BY <3>1 DEF CallsInv, MadeInv
    <3>3. k # c
      BY <3>2 DEF CallsInv, MadeInv
    <3>4. QED BY <2>3, <2>4, <3>3 DEF InsertComment
  <2>5. CASE WriteBody(c)
    <3>1. u.kind = "update" /\ u.at = "write" /\ u.target \in Comments
      BY <2>2, <2>5 DEF WriteBody, At, CallInv, Hand
    <3>2. CASE k = u.target
      <4>1. c \in late[k]
        BY <2>2, <3>1, <3>2 DEF CallInv, Gone
      <4>2. PICK old \in Comment : old = comments[k]
        BY <2>3
      <4>3. PICK row : row = [old EXCEPT !.body = c]
        OBVIOUS
      <4>4. row.deleted = old.deleted /\ row.body = c
        BY <4>3 DEF Comment
      <4>5. comments' = [comments EXCEPT ![k] = row]
        BY <2>2, <2>5, <3>2, <4>2, <4>3, Zenon DEF WriteBody
      <4>6. QED BY <2>3, <4>1, <4>2, <4>4, <4>5
    <3>3. CASE k # u.target
      BY <2>2, <2>3, <2>5, <3>3 DEF WriteBody
    <3>4. QED BY <3>2, <3>3
  <2>6. CASE WriteDeleted(c)
    <3>1. NotDeleted(u.target)
      BY <1>2, <2>2, <2>6 DEF WriteDeleted
    <3>2. k # u.target
      BY <3>1 DEF NotDeleted
    <3>3. comments' = [comments EXCEPT ![u.target].deleted = c]
      BY <2>2, <2>6, <3>1 DEF WriteDeleted
    <3>4. QED BY <2>3, <3>2, <3>3
  <2>7. QED BY <2>1, <2>4, <2>5, <2>6
<1>3. QED BY <1>1, <1>2

-----------------------------------------------------------------------------
(* The fan-out under the calls.                                             *)

LEMMA PublishedEvents ==
  ASSUME CallsInv, NEW c \in Calls
  PROVE  /\ Changed(c) \in Event
         /\ [type |-> "notification", unread |-> call[c].unread, by |-> c] \in Event
<1>1. PICK u \in Call : u = call[c]
  BY DEF CallsInv, RowsOK
<1>2. u.unread \in Nat /\ u.target \in Requests \cup Comments \cup {None} /\ c \in Requests
  BY DEF Call, Requests
<1>3. About(c) \in Requests \cup Comments \cup {None}
  BY <1>1, <1>2 DEF About
<1>4. PICK type \in {"approval", "comment"} :
        type = IF call[c].kind \in {"request", "decide", "cancel"} THEN "approval" ELSE "comment"
  OBVIOUS
<1>5. [type |-> type, about |-> About(c), by |-> c] \in Event
  BY <1>3 DEF Event
<1>6. Changed(c) \in Event
  BY <1>4, <1>5 DEF Changed
<1>7. [type |-> "notification", unread |-> u.unread, by |-> c] \in Event
  BY <1>2 DEF Event
<1>8. QED BY <1>1, <1>6, <1>7

LEMMA CallStepFanout ==
  ASSUME FanInv, CallsInv, NEW c \in Calls, CallStep(c) PROVE FanInv'
<1>1. CASE UNCHANGED fanout
  BY <1>1, QuietFanout DEF fanout
<1>2. CASE Announce(c)
  BY <1>2, PublishedEvents, PublishFanout DEF Announce
<1>3. CASE Tell(c)
  BY <1>3, PublishedEvents, PublishFanout DEF Tell
<1>4. CASE Record(c) \/ CountUnread(c)
  BY <1>1, <1>4 DEF Record, CountUnread, Reads
<1>5. CASE FindDocument(c) \/ FindRequest(c) \/ FindComment(c) \/ ReadVoices(c) \/ ReadPanel(c)
  BY <1>1, <1>5 DEF FindDocument, FindRequest, FindComment, Check, Refuse, ReadVoices, ReadPanel, Reads
<1>6. CASE BeginRequest(c) \/ BeginDecide(c) \/ BeginCancel(c) \/ BeginCreate(c)
  BY <1>1, <1>6 DEF BeginRequest, BeginDecide, BeginCancel, BeginCreate, Begin
<1>7. CASE BeginUpdate(c) \/ BeginRemove(c) \/ BeginStar(c)
  BY <1>1, <1>7 DEF BeginUpdate, BeginRemove, BeginStar, Begin
<1>8. CASE BeginReadAll(c) \/ BeginReadOne(c) \/ BeginPanel(c)
  BY <1>1, <1>8 DEF BeginReadAll, BeginReadOne, BeginPanel, Begin
<1>9. CASE InsertRequest(c) \/ WriteDecision(c) \/ WriteCancel(c)
  BY <1>1, <1>9 DEF InsertRequest, WriteDecision, WriteCancel, Refuse, Reads
<1>10. CASE InsertComment(c) \/ WriteBody(c) \/ WriteDeleted(c) \/ WriteStar(c) \/ WriteRead(c)
  BY <1>1, <1>10 DEF InsertComment, WriteBody, WriteDeleted, WriteStar, WriteRead
<1>11. QED
  BY <1>2, <1>3, <1>4, <1>5, <1>6, <1>7, <1>8, <1>9, <1>10
  DEF CallStep, ApprovalStep, CommentStep, InboxStep, TellStep

LEMMA FanInvariant == ASSUME FanInv, CallsInv, [Next]_vars PROVE FanInv'
<1>1. CASE UNCHANGED fanout
  BY <1>1, QuietFanout DEF fanout
<1>2. CASE \E c \in Calls : CallStep(c)
  BY <1>2, CallStepFanout
<1>3. CASE FanoutStep
  BY <1>3, FanoutStepInvariant
<1>4. CASE OpenStream \/ OthersStream
  BY <1>4, FanoutStepInvariant DEF OpenStream, OthersStream
<1>5. CASE ReadEvent
  BY <1>5, QuietFanout DEF ReadEvent
<1>6. QED
  BY <1>1, <1>2, <1>3, <1>4, <1>5
  DEF Next, PageStep, ServerStep, ReadBadge, ShowBadge, LoseStream, FetchRows, FetchTotal,
      ShowThread, Answer, Trash, vars

-----------------------------------------------------------------------------
(* The badge: what its invariant says.                                      *)

TellingKinds == {"request", "decide", "cancel", "create", "update", "remove"}
InboxKinds == {"readAll", "readOne", "panel"}

\* Which request goes where, by what its record v says.
Fits(v) ==
  /\ v.page => v.kind \in {"create", "update", "remove"} \cup InboxKinds
  /\ v.kind \in InboxKinds /\ v.at \notin {"idle", "done"} => v.page
  /\ v.at = "answered" => v.page
  /\ v.at \in {"record", "announce", "count", "tell"} => v.kind \in TellingKinds
  /\ v.at = "answered" => v.ok
  /\ v.ok => v.kind \in AllCallKinds
  /\ v.kind = "panel" => v.at \in {"find", "answered", "done"}
  /\ v.kind = "readAll" => v.at \in {"write", "answered", "done"}
  /\ v.kind = "readOne" => v.at \in {"write", "find", "answered", "done"}
  /\ v.kind \in {"update", "remove"} /\ v.at \notin {"idle", "done"} => v.target \in Comments

KindsInv == \A c \in Calls : Fits(call[c])

\* The call has changed something, and will be answered.
Touch(v) == Written(v) \/ (v.kind = "readOne" /\ v.at = "find")
Touched(c) == Touch(call[c])

\* One after the other, and each heard of before the next began.
Serial == \A c, d \in Calls : Touched(c) /\ Touched(d) => ~Overlap(c, d)

\* What Redis has sent and the instance has not read yet.
Sent(w) == {w[i] : i \in DOMAIN w}

\* What was over when a call began is over.
BeforeInv == \A c \in Calls : \A d \in call[c].before : Over(d)

\* An event is of a call that was about to be answered.
Announced(v) == v.at \in {"count", "tell"} \/ v.ok

SentInv == \A m \in Sent(wire) : m.type # "reply" => m.by \in Calls /\ Announced(call[m.by])

Count == Cardinality(Unread(Me))

\* A count on its way, as one call or one message has it, is the one there is.
Right(v, n) ==
  /\ v.at = "tell" => v.unread = n
  /\ v.at = "answered" /\ v.kind \in {"readOne", "panel"} => v.unread = n
  /\ v.at = "answered" /\ v.kind = "readAll" => n = 0

CountInv ==
  Serial => /\ \A c \in Calls : Right(call[c], Count)
            /\ \A m \in Sent(wire) : m.type = "notification" => m.unread = Count

\* Somebody is going to bring the page the count.
Bringing(v) ==
  \/ v.at = "announce" /\ Me \in v.told \ {v.who}
  \/ v.at \in {"count", "tell"}
  \/ v.kind = "readOne" /\ v.at = "find"
  \/ v.kind \in {"readOne", "readAll"} /\ v.at = "answered"

Owed == \/ \E c \in Calls : Bringing(call[c])
        \/ \E m \in Sent(wire) : m.type = "notification"

\* Whatever is under way while the page does not hear is taken note of.
UnheardInv == /\ page.at # "counting" => Uses({"streams"})
              /\ Uses({"streams"}) /\ ~Hearing => AtWork \subseteq unheard

\* The page shows the count, or is going to be brought it.
ShownCount ==
  Serial /\ unheard = {} =>
    /\ page.at = "counted" => page.count = Count
    /\ page.at \in {"opening", "open"} => page.badge = Count \/ Owed

\* The page is what it should be.
PageOK == page \in Page /\ mine \subseteq Comments /\ fetch \in Fetch

BadgeInv == /\ PageOK /\ KindsInv /\ BeforeInv /\ SentInv /\ CountInv
            /\ UnheardInv /\ ShownCount

-----------------------------------------------------------------------------
(* The badge: the events.                                                   *)

LEMMA SentAppend ==
  ASSUME NEW S, NEW w \in Seq(S), NEW e \in S
  PROVE  Sent(Append(w, e)) = Sent(w) \cup {e}
<1>1. /\ Append(w, e) \in Seq(S) /\ Len(Append(w, e)) = Len(w) + 1 /\ Len(w) \in Nat
      /\ Append(w, e)[Len(w) + 1] = e
      /\ \A i \in 1..Len(w) : Append(w, e)[i] = w[i]
  OBVIOUS
<1>2. DOMAIN w = 1..Len(w) /\ DOMAIN Append(w, e) = 1..(Len(w) + 1)
  BY <1>1
<1>3. \A i \in 1..Len(w) : i \in 1..(Len(w) + 1)
  BY <1>1
<1>4. Len(w) + 1 \in 1..(Len(w) + 1)
  BY <1>1
<1>5. \A i \in 1..(Len(w) + 1) : i \in 1..Len(w) \/ i = Len(w) + 1
  BY <1>1
<1>6. ASSUME NEW m \in Sent(Append(w, e)) PROVE m \in Sent(w) \cup {e}
  <2>1. PICK i \in 1..(Len(w) + 1) : m = Append(w, e)[i]
    BY <1>2 DEF Sent
  <2>2. CASE i \in 1..Len(w)
    BY <1>1, <1>2, <2>1, <2>2 DEF Sent
  <2>3. CASE i = Len(w) + 1
    BY <1>1, <2>1, <2>3
  <2>4. QED BY <1>5, <2>2, <2>3
<1>7. e \in Sent(Append(w, e))
  BY <1>1, <1>2, <1>4 DEF Sent
<1>8. ASSUME NEW m \in Sent(w) PROVE m \in Sent(Append(w, e))
  <2>1. PICK i \in 1..Len(w) : m = w[i]
    BY <1>2 DEF Sent
  <2>2. m = Append(w, e)[i] /\ i \in DOMAIN Append(w, e)
    BY <1>1, <1>2, <1>3, <2>1
  <2>3. QED BY <2>2 DEF Sent
<1>9. QED BY <1>6, <1>7, <1>8

LEMMA SentTail ==
  ASSUME NEW S, NEW w \in Seq(S), w # <<>>
  PROVE  Sent(w) = Sent(Tail(w)) \cup {Head(w)}
<1>1. /\ Len(w) \in Nat /\ Len(w) >= 1 /\ DOMAIN w = 1..Len(w) /\ Head(w) = w[1]
      /\ Len(Tail(w)) = Len(w) - 1 /\ DOMAIN Tail(w) = 1..(Len(w) - 1)
      /\ \A i \in 1..(Len(w) - 1) : Tail(w)[i] = w[i + 1]
  OBVIOUS
<1>2. \A i \in 1..(Len(w) - 1) : i + 1 \in 1..Len(w)
  BY <1>1
<1>3. \A i \in 1..Len(w) : i # 1 => i - 1 \in 1..(Len(w) - 1) /\ (i - 1) + 1 = i
  BY <1>1
<1>4. ASSUME NEW m \in Sent(w) PROVE m \in Sent(Tail(w)) \cup {Head(w)}
  <2>1. PICK i \in 1..Len(w) : m = w[i]
    BY <1>1 DEF Sent
  <2>2. CASE i = 1
    BY <1>1, <2>1, <2>2
  <2>3. CASE i # 1
    <3>1. m = Tail(w)[i - 1] /\ i - 1 \in DOMAIN Tail(w)
      BY <1>1, <1>3, <2>1, <2>3
    <3>2. QED BY <3>1 DEF Sent
  <2>4. QED BY <2>2, <2>3
<1>5. ASSUME NEW m \in Sent(Tail(w)) PROVE m \in Sent(w)
  <2>1. PICK i \in 1..(Len(w) - 1) : m = Tail(w)[i]
    BY <1>1 DEF Sent
  <2>2. QED BY <1>1, <1>2, <2>1 DEF Sent
<1>6. Head(w) \in Sent(w)
  BY <1>1 DEF Sent
<1>7. QED BY <1>4, <1>5, <1>6

LEMMA InFlightSent ==
  \A c \in Calls : InFlight(c) <=> \E m \in Sent(wire) : m.type # "reply" /\ m.by = c
BY DEF InFlight, Sent

\* The steps that send or read something.
LEMMA SentSteps ==
  ASSUME FanInv
  PROVE  /\ UNCHANGED wire => Sent(wire)' = Sent(wire)
         /\ RedisObeys => \/ Sent(wire)' = Sent(wire)
                          \/ \E s \in Streams : Sent(wire)' = Sent(wire) \cup {Reply(s)}
         /\ ReadReply \/ ReadEvent =>
              Sent(wire) = Sent(wire)' \cup {Head(wire)}
         /\ \A e \in Event : Publish(e) =>
              Sent(wire)' = IF subscribed THEN Sent(wire) \cup {e} ELSE Sent(wire)
<1>1. wire \in Seq(Message) /\ orders \in Seq(Command)
  BY DEF FanInv, QueuesInv
<1>2. UNCHANGED wire => Sent(wire)' = Sent(wire)
  BY DEF Sent
<1>3. ASSUME RedisObeys
      PROVE  \/ Sent(wire)' = Sent(wire)
             \/ \E s \in Streams : Sent(wire)' = Sent(wire) \cup {Reply(s)}
  <2>1. CASE Head(orders)[1] = "subscribe"
    <3>1. Head(orders)[2] \in Streams
      BY <1>1, <1>3 DEF RedisObeys, Command
    <3>2. PICK s \in Streams : wire' = Append(wire, Reply(s)) /\ Reply(s) \in Message
      BY <1>3, <2>1, <3>1 DEF RedisObeys, Message
    <3>3. Sent(wire') = Sent(wire) \cup {Reply(s)}
      BY <1>1, <3>2, SentAppend
    <3>4. QED BY <3>3
  <2>2. CASE Head(orders)[1] # "subscribe"
    BY <1>2, <1>3, <2>2 DEF RedisObeys
  <2>3. QED BY <2>1, <2>2
<1>4. ASSUME ReadReply \/ ReadEvent PROVE Sent(wire) = Sent(wire') \cup {Head(wire)}
  <2>1. wire # <<>> /\ wire' = Tail(wire)
    BY <1>4 DEF ReadReply, ReadEvent
  <2>2. Sent(wire) = Sent(Tail(wire)) \cup {Head(wire)}
    BY <1>1, <2>1, SentTail
  <2>3. QED BY <2>1, <2>2
<1>5. ASSUME NEW e \in Event, Publish(e)
      PROVE  Sent(wire') = IF subscribed THEN Sent(wire) \cup {e} ELSE Sent(wire)
  <2>1. CASE subscribed
    <3>1. e \in Message /\ wire' = Append(wire, e)
      BY <1>5, <2>1 DEF Publish, Message
    <3>2. Sent(wire') = Sent(wire) \cup {e}
      BY <1>1, <3>1, SentAppend
    <3>3. QED BY <2>1, <3>2
  <2>2. CASE ~subscribed
    BY <1>5, <2>2 DEF Publish
  <2>3. QED BY <2>1, <2>2
<1>6. QED BY <1>2, <1>3, <1>4, <1>5

-----------------------------------------------------------------------------
(* The badge: how a call moves.                                             *)

\* A step before the call has changed anything, or by which it has.
Working(u, v) ==
  /\ ~Touch(u)
  /\ Fits(v)
  /\ v.at \notin {"announce", "count", "tell", "answered"}
  /\ v.ok => v.at = "done"
  /\ v.kind = "readOne" => v.at # "find"
  /\ v.at # "idle"
  /\ \A d \in v.before : d \in u.before \/ (u.at = "idle" /\ Over(d))

ThreadKinds == {"create", "update", "remove"}
ThreadWrite(c) == InsertComment(c) \/ WriteBody(c) \/ WriteDeleted(c)

Works(c) ==
  /\ UNCHANGED <<inbox, fanout, mix>>
  /\ \E v \in Call :
       /\ call' = [call EXCEPT ![c] = v]
       /\ Working(call[c], v)
       /\ \/ UNCHANGED <<comments, late>> /\ (v.kind \in ThreadKinds => ~Written(v))
          \/ ThreadWrite(c) /\ Kin(call[c], v) /\ v.at = "record"

LEMMA BeginWorks ==
  ASSUME CallsInv, NEW c \in Calls, NEW r \in Call, Begin(c, r),
         ~r.ok, Fits(r), r.at \in {"doc", "find", "write"},
         r.kind = "readOne" => r.at # "find"
  PROVE  Works(c)
<1>1. call[c].at = "idle" /\ Reads
  BY BeginMoves DEF CallsInv
<1>2. PICK v \in Call : /\ call' = [call EXCEPT ![c] = v]
                        /\ v.kind = r.kind /\ v.at = r.at /\ v.who = r.who
                        /\ v.target = r.target /\ v.choice = r.choice /\ v.ok = r.ok
                        /\ v.page = r.page
                        /\ v.before = {d \in Calls : Over(d)}
  BY BeginMoves DEF CallsInv
<1>3. ~Touch(call[c])
  BY <1>1 DEF CallsInv, CallInv, Hand, Touch, Written
<1>4. Fits(v)
  BY <1>2 DEF Fits
<1>5. Working(call[c], v)
  BY <1>1, <1>2, <1>3, <1>4 DEF Working
<1>6. ~Written(v)
  BY <1>2 DEF Written
<1>7. QED BY <1>1, <1>2, <1>5, <1>6 DEF Works, Reads, rows, rest

LEMMA BeginsWork ==
  ASSUME CallsInv, NEW c \in Calls,
         \/ BeginRequest(c) \/ BeginDecide(c) \/ BeginCancel(c) \/ BeginCreate(c)
         \/ BeginUpdate(c) \/ BeginRemove(c) \/ BeginStar(c) \/ BeginReadAll(c)
         \/ BeginReadOne(c) \/ BeginPanel(c)
  PROVE  Works(c)
<1>1. /\ NoCall \in Call /\ ~NoCall.ok /\ Me \in People /\ Approvers \subseteq People
      /\ 0 \in Nat
  BY PeopleAssumption DEF NoCall, Call, CallSteps
<1>2. CASE BeginRequest(c)
  <2>1. PICK p \in People, q \in People \cup {None} :
          Begin(c, [NoCall EXCEPT !.kind = "request", !.at = "doc", !.who = p, !.choice = q])
    BY <1>2 DEF BeginRequest
  <2>2. PICK r : r = [NoCall EXCEPT !.kind = "request", !.at = "doc", !.who = p, !.choice = q]
    OBVIOUS
  <2>3. r \in Call /\ ~r.ok /\ r.kind = "request" /\ r.at = "doc" /\ ~r.page
    BY <1>1, <2>2 DEF NoCall, Call, CallSteps, AllCallKinds
  <2>4. Begin(c, r)
    BY <2>1, <2>2
  <2>5. Fits(r)
    BY <2>3 DEF Fits, TellingKinds, InboxKinds
  <2>6. QED BY <2>3, <2>4, <2>5, BeginWorks
<1>3. CASE BeginDecide(c)
  <2>1. PICK p \in Approvers, a \in Requests, d \in {"APPROVED", "REJECTED"} :
          Begin(c, [NoCall EXCEPT !.kind = "decide", !.at = "find", !.who = p,
                                 !.target = a, !.choice = d])
    BY <1>3 DEF BeginDecide
  <2>2. PICK r : r = [NoCall EXCEPT !.kind = "decide", !.at = "find", !.who = p,
                                 !.target = a, !.choice = d]
    OBVIOUS
  <2>3. r \in Call /\ ~r.ok /\ r.kind = "decide" /\ r.at = "find" /\ ~r.page
    BY <1>1, <2>2 DEF NoCall, Call, CallSteps, AllCallKinds
  <2>4. Begin(c, r)
    BY <2>1, <2>2
  <2>5. Fits(r)
    BY <2>3 DEF Fits, TellingKinds, InboxKinds
  <2>6. QED BY <2>3, <2>4, <2>5, BeginWorks
<1>4. CASE BeginCancel(c)
  <2>1. PICK p \in People, a \in Requests :
          Begin(c, [NoCall EXCEPT !.kind = "cancel", !.at = "find", !.who = p, !.target = a])
    BY <1>4 DEF BeginCancel
  <2>2. PICK r : r = [NoCall EXCEPT !.kind = "cancel", !.at = "find", !.who = p, !.target = a]
    OBVIOUS
  <2>3. r \in Call /\ ~r.ok /\ r.kind = "cancel" /\ r.at = "find" /\ ~r.page
    BY <1>1, <2>2 DEF NoCall, Call, CallSteps, AllCallKinds
  <2>4. Begin(c, r)
    BY <2>1, <2>2
  <2>5. Fits(r)
    BY <2>3 DEF Fits, TellingKinds, InboxKinds
  <2>6. QED BY <2>3, <2>4, <2>5, BeginWorks
<1>5. CASE BeginCreate(c)
  <2>1. PICK p \in People, page1 \in BOOLEAN :
          Begin(c, [NoCall EXCEPT !.kind = "create", !.at = "doc", !.who = p, !.page = page1])
    BY <1>5 DEF BeginCreate
  <2>2. PICK r : r = [NoCall EXCEPT !.kind = "create", !.at = "doc", !.who = p, !.page = page1]
    OBVIOUS
  <2>3. r \in Call /\ ~r.ok /\ r.kind = "create" /\ r.at = "doc"
    BY <1>1, <2>2 DEF NoCall, Call, CallSteps, AllCallKinds
  <2>4. Begin(c, r)
    BY <2>1, <2>2
  <2>5. Fits(r)
    BY <2>3 DEF Fits, TellingKinds, InboxKinds
  <2>6. QED BY <2>3, <2>4, <2>5, BeginWorks
<1>6. CASE BeginUpdate(c)
  <2>1. PICK p \in People, k \in Comments, page1 \in BOOLEAN :
          Begin(c, [NoCall EXCEPT !.kind = "update", !.at = "find", !.who = p, !.target = k,
                                 !.page = page1])
    BY <1>6 DEF BeginUpdate
  <2>2. PICK r : r = [NoCall EXCEPT !.kind = "update", !.at = "find", !.who = p, !.target = k,
                                 !.page = page1]
    OBVIOUS
  <2>3. r \in Call /\ ~r.ok /\ r.kind = "update" /\ r.at = "find" /\ r.target = k
    BY <1>1, <2>2 DEF NoCall, Call, CallSteps, AllCallKinds
  <2>4. Begin(c, r)
    BY <2>1, <2>2
  <2>5. Fits(r)
    BY <2>3 DEF Fits, TellingKinds, InboxKinds
  <2>6. QED BY <2>3, <2>4, <2>5, BeginWorks
<1>7. CASE BeginRemove(c)
  <2>1. PICK p \in People, k \in Comments, page1 \in BOOLEAN :
          Begin(c, [NoCall EXCEPT !.kind = "remove", !.at = "find", !.who = p, !.target = k,
                                 !.page = page1])
    BY <1>7 DEF BeginRemove
  <2>2. PICK r : r = [NoCall EXCEPT !.kind = "remove", !.at = "find", !.who = p, !.target = k,
                                 !.page = page1]
    OBVIOUS
  <2>3. r \in Call /\ ~r.ok /\ r.kind = "remove" /\ r.at = "find" /\ r.target = k
    BY <1>1, <2>2 DEF NoCall, Call, CallSteps, AllCallKinds
  <2>4. Begin(c, r)
    BY <2>1, <2>2
  <2>5. Fits(r)
    BY <2>3 DEF Fits, TellingKinds, InboxKinds
  <2>6. QED BY <2>3, <2>4, <2>5, BeginWorks
<1>8. CASE BeginStar(c)
  <2>1. PICK p \in People, kind \in {"star", "unstar"} :
          Begin(c, [NoCall EXCEPT !.kind = kind, !.at = "doc", !.who = p])
    BY <1>8 DEF BeginStar
  <2>2. PICK r : r = [NoCall EXCEPT !.kind = kind, !.at = "doc", !.who = p]
    OBVIOUS
  <2>3. r \in Call /\ ~r.ok /\ r.kind = kind /\ r.at = "doc" /\ ~r.page
    BY <1>1, <2>2 DEF NoCall, Call, CallSteps, AllCallKinds
  <2>4. Begin(c, r)
    BY <2>1, <2>2
  <2>5. Fits(r)
    BY <2>3 DEF Fits, TellingKinds, InboxKinds
  <2>6. QED BY <2>3, <2>4, <2>5, BeginWorks
<1>9. CASE BeginReadAll(c)
  <2>1. PICK r : r = [NoCall EXCEPT !.kind = "readAll", !.at = "write", !.who = Me, !.page = TRUE]
    OBVIOUS
  <2>2. r \in Call /\ ~r.ok /\ r.kind = "readAll" /\ r.at = "write" /\ r.page
    BY <1>1, <2>1 DEF NoCall, Call, CallSteps, AllCallKinds
  <2>3. Fits(r)
    BY <2>2 DEF Fits, TellingKinds, InboxKinds
  <2>4. QED BY <1>9, <2>1, <2>2, <2>3, BeginWorks DEF BeginReadAll
<1>10. CASE BeginPanel(c)
  <2>1. PICK r : r = [NoCall EXCEPT !.kind = "panel", !.at = "find", !.who = Me, !.page = TRUE]
    OBVIOUS
  <2>2. r \in Call /\ ~r.ok /\ r.kind = "panel" /\ r.at = "find" /\ r.page
    BY <1>1, <2>1 DEF NoCall, Call, CallSteps, AllCallKinds
  <2>3. Fits(r)
    BY <2>2 DEF Fits, TellingKinds, InboxKinds
  <2>4. QED BY <1>10, <2>1, <2>2, <2>3, BeginWorks DEF BeginPanel
<1>11. CASE BeginReadOne(c)
  <2>1. PICK n \in Unread(Me) :
          Begin(c, [NoCall EXCEPT !.kind = "readOne", !.at = "write", !.who = Me, !.page = TRUE,
                                  !.target = n.by])
    BY <1>11 DEF BeginReadOne
  <2>2. PICK by \in Calls : by = n.by
    BY DEF Unread, CallsInv, RowsOK, Note
  <2>3. PICK r : r = [NoCall EXCEPT !.kind = "readOne", !.at = "write", !.who = Me, !.page = TRUE,
                                    !.target = by]
    OBVIOUS
  <2>4. r \in Call /\ ~r.ok /\ r.kind = "readOne" /\ r.at = "write" /\ r.page
    BY <1>1, <2>3 DEF NoCall, Call, CallSteps, AllCallKinds, Requests
  <2>5. Begin(c, r)
    BY <2>1, <2>2, <2>3
  <2>6. Fits(r)
    BY <2>4 DEF Fits, TellingKinds, InboxKinds
  <2>7. QED BY <2>4, <2>5, <2>6, BeginWorks
<1>12. QED BY <1>2, <1>3, <1>4, <1>5, <1>6, <1>7, <1>8, <1>9, <1>10, <1>11

LEMMA RefuseWorks ==
  ASSUME CallsInv, NEW c \in Calls, Refuse(c), ~Touched(c) PROVE Works(c)
<1>1. PICK v \in Call : /\ call' = [call EXCEPT ![c] = v]
                        /\ v.kind = call[c].kind /\ v.at = "done" /\ ~v.ok
                        /\ v.choice = None /\ v.before = {} /\ ~v.page
  BY RefuseMoves DEF CallsInv
<1>2. Fits(v)
  BY <1>1 DEF Fits
<1>3. Working(call[c], v)
  BY <1>1, <1>2 DEF Working, Touched
<1>4. ~Written(v)
  BY <1>1 DEF Written
<1>5. QED BY <1>1, <1>3, <1>4 DEF Works, Refuse, Reads, rows, rest

LEMMA GoWorks ==
  ASSUME KindsInv, NEW c \in Calls, NEW v \in Call, call' = [call EXCEPT ![c] = v],
         Kin(call[c], v), ~Touched(c), call[c].kind \notin InboxKinds,
         call[c].at \notin {"idle", "done"},
         v.at \in {"voices", "insert", "write", "record"}, ~v.ok,
         v.at = "record" => call[c].kind \in TellingKinds,
         UNCHANGED <<inbox, fanout, mix>>,
         \/ /\ UNCHANGED <<comments, late>>
            /\ v.at # "record" \/ call[c].kind \notin ThreadKinds
         \/ ThreadWrite(c) /\ v.at = "record"
  PROVE  Works(c)
<1>1. PICK u : u = call[c] /\ Fits(u)
  BY DEF KindsInv
<1>2. Fits(v)
  BY <1>1 DEF Fits, Kin, InboxKinds
<1>3. v.kind # "readOne" /\ v.before = call[c].before
  BY <1>1 DEF Kin, InboxKinds
<1>4. Working(call[c], v)
  BY <1>2, <1>3 DEF Working, Touched
<1>5. v.kind = call[c].kind /\ (v.at # "record" => ~Written(v))
  BY DEF Kin, Written
<1>6. QED BY <1>4, <1>5 DEF Works

\* A call that has not written is not answered yet.
LEMMA NotTouched ==
  ASSUME CallsInv, NEW c \in Calls, call[c].at \in {"doc", "voices", "insert", "find", "write"},
         call[c].kind # "readOne" \/ call[c].at # "find"
  PROVE  ~Touched(c) /\ ~call[c].ok
BY DEF CallsInv, CallInv, Hand, Touched, Touch, Written

LEMMA FindsWork ==
  ASSUME CallsInv, KindsInv, NEW c \in Calls,
         FindDocument(c) \/ FindRequest(c) \/ FindComment(c)
  PROVE  Works(c)
<1>1. PICK u \in Call : u = call[c] /\ CallInv(c, u) /\ Fits(u)
  BY DEF CallsInv, RowsOK, KindsInv
<1>2. CASE FindDocument(c)
  <2>1. u.at = "doc" /\ ~Touched(c) /\ ~u.ok
    BY <1>1, <1>2, NotTouched DEF FindDocument
  <2>2. u.kind \notin InboxKinds
    BY <1>1, <2>1 DEF Fits, InboxKinds, FindDocument
  <2>3. CASE DocumentFound
    <3>1. PICK next \in {"voices", "write", "insert"} :
            /\ next = CASE call[c].kind = "create" -> "voices"
                        [] call[c].kind \in {"star", "unstar"} -> "write"
                        [] OTHER -> "insert"
            /\ Goto(c, next) /\ Reads
      BY <1>2, <2>3 DEF FindDocument, Check
    <3>2. PICK v \in Call : /\ call' = [call EXCEPT ![c] = v]
                            /\ Kin(call[c], v) /\ v.at = next /\ v.ok = call[c].ok
      BY <3>1, GotoMoves DEF CallSteps, CallsInv
    <3>3. UNCHANGED <<inbox, fanout, mix, comments, late>>
      BY <3>1 DEF Reads, rows, rest
    <3>4. QED BY <1>1, <2>1, <2>2, <3>2, <3>3, GoWorks
  <2>4. CASE ~DocumentFound
    BY <1>2, <2>1, <2>4, RefuseWorks DEF FindDocument, Check
  <2>5. QED BY <2>3, <2>4
<1>3. CASE FindRequest(c)
  <2>1. u.at = "find" /\ u.kind \in {"decide", "cancel"} /\ ~Touched(c) /\ ~u.ok
    BY <1>1, <1>3, NotTouched DEF FindRequest, At
  <2>2. CASE Refuse(c)
    BY <2>1, <2>2, RefuseWorks
  <2>3. CASE ~Refuse(c)
    <3> PICK told : told = IF call[c].kind = "decide" THEN {approvals[call[c].target].by}
                           ELSE Addressees(approvals[call[c].target].assignee)
      OBVIOUS
    <3>1. /\ Telling(c, "write", told)
          /\ approvals[call[c].target].status = "PENDING"
          /\ Reads
      BY <1>3, <2>3, Zenon DEF FindRequest, Telling
    <3>2. PICK a \in Approval : a = approvals[u.target] /\ a.status = "PENDING"
                                /\ u.target \in Requests
      BY <1>1, <2>1, <3>1 DEF CallInv, Hand, CallsInv, RowsOK
    <3>3. a.by \in People
      BY <3>2 DEF CallsInv, MadeInv
    <3>4. a.assignee \in People \cup {None}
      BY DEF Approval
    <3>5. told \in SUBSET People
      BY <1>1, <3>1, <3>2, <3>3, <3>4, PeopleAssumption DEF Addressees
    <3>6. PICK v \in Call : /\ call' = [call EXCEPT ![c] = v]
                            /\ Kin(call[c], v) /\ v.at = "write" /\ v.ok = call[c].ok
      BY <3>1, <3>5, ToldMoves DEF CallSteps, CallsInv
    <3>7. UNCHANGED <<inbox, fanout, mix, comments, late>>
      BY <3>1 DEF Reads, rows, rest
    <3>8. QED BY <1>1, <2>1, <3>6, <3>7, GoWorks DEF InboxKinds
  <2>4. QED BY <2>2, <2>3
<1>4. CASE FindComment(c)
  <2>1. u.at = "find" /\ u.kind \in {"update", "remove"} /\ ~Touched(c) /\ ~u.ok
    BY <1>1, <1>4, NotTouched DEF FindComment, At
  <2>2. CASE Refuse(c)
    BY <2>1, <2>2, RefuseWorks
  <2>3. CASE ~Refuse(c)
    <3>1. Goto(c, "write") /\ Reads
      BY <1>4, <2>3 DEF FindComment, Check
    <3>2. PICK v \in Call : /\ call' = [call EXCEPT ![c] = v]
                            /\ Kin(call[c], v) /\ v.at = "write" /\ v.ok = call[c].ok
      BY <3>1, GotoMoves DEF CallSteps, CallsInv
    <3>3. UNCHANGED <<inbox, fanout, mix, comments, late>>
      BY <3>1 DEF Reads, rows, rest
    <3>4. QED BY <1>1, <2>1, <3>2, <3>3, GoWorks DEF InboxKinds
  <2>4. QED BY <2>2, <2>3
<1>5. QED BY <1>2, <1>3, <1>4

LEMMA WritesWork ==
  ASSUME CallsInv, KindsInv, NEW c \in Calls,
         \/ ReadVoices(c) \/ InsertRequest(c) \/ InsertComment(c) \/ WriteBody(c)
         \/ WriteDeleted(c) \/ WriteDecision(c) \/ WriteCancel(c) \/ WriteStar(c)
  PROVE  Works(c)
<1>1. PICK u \in Call : u = call[c] /\ CallInv(c, u) /\ Fits(u)
  BY DEF CallsInv, RowsOK, KindsInv
<1>2. CASE ReadVoices(c)
  <2>1. u.at = "voices" /\ u.kind = "create" /\ ~Touched(c) /\ ~u.ok
    BY <1>1, <1>2, NotTouched DEF ReadVoices, At
  <2>2. Participants \in SUBSET People
    <3>1. ASSUME NEW k \in LiveComments PROVE comments[k].author \in People
      <4>1. comments[k] \in Comment /\ comments[k].author # None
        BY DEF LiveComments, CallsInv, RowsOK
      <4>2. QED BY <4>1 DEF Comment
    <3>2. QED BY <3>1, PeopleAssumption DEF Participants
  <2>3. PICK v \in Call : /\ call' = [call EXCEPT ![c] = v]
                          /\ Kin(call[c], v) /\ v.at = "insert" /\ v.ok = call[c].ok
    <3>1. Telling(c, "insert", Participants)
      BY <1>2 DEF ReadVoices, Telling
    <3>2. QED BY <2>2, <3>1, ToldMoves DEF CallSteps, CallsInv
  <2>4. UNCHANGED <<inbox, fanout, mix, comments, late>>
    BY <1>2 DEF ReadVoices, Reads, rows, rest
  <2>5. QED BY <1>1, <2>1, <2>3, <2>4, GoWorks DEF InboxKinds
<1>3. CASE InsertRequest(c)
  <2>1. u.at = "insert" /\ u.kind = "request" /\ ~Touched(c) /\ ~u.ok
    BY <1>1, <1>3, NotTouched DEF InsertRequest, At
  <2>2. CASE AlreadyPending
    BY <1>3, <2>1, <2>2, RefuseWorks DEF InsertRequest
  <2>3. CASE ~AlreadyPending
    <3>1. PICK told \in SUBSET People : told = Addressees(u.choice)
      BY <1>1, <2>1, PeopleAssumption DEF Addressees, CallInv, Hand
    <3>2. Telling(c, "record", told)
      BY <1>1, <1>3, <2>3, <3>1 DEF InsertRequest, Telling
    <3>3. PICK v \in Call : /\ call' = [call EXCEPT ![c] = v]
                            /\ Kin(call[c], v) /\ v.at = "record" /\ v.ok = call[c].ok
      BY <3>2, ToldMoves DEF CallSteps, CallsInv
    <3>4. UNCHANGED <<inbox, fanout, mix, comments, late>>
      BY <1>3, <2>3 DEF InsertRequest, rest
    <3>5. QED BY <1>1, <2>1, <3>3, <3>4, GoWorks DEF InboxKinds, TellingKinds, ThreadKinds
  <2>4. QED BY <2>2, <2>3
<1>4. CASE Goto(c, "record") /\ (InsertComment(c) \/ WriteBody(c) \/ WriteDeleted(c)
                                 \/ WriteDecision(c) \/ WriteCancel(c))
  <2>1. /\ u.at \in {"insert", "write"} /\ u.kind \in TellingKinds
        /\ ~Touched(c) /\ ~u.ok
    BY <1>1, <1>4, NotTouched
    DEF InsertComment, WriteBody, WriteDeleted, WriteDecision, WriteCancel, At, TellingKinds
  <2>2. PICK v \in Call : /\ call' = [call EXCEPT ![c] = v]
                          /\ Kin(call[c], v) /\ v.at = "record" /\ v.ok = call[c].ok
    BY <1>4, GotoMoves DEF CallSteps, CallsInv
  <2>3. UNCHANGED <<inbox, fanout, mix>>
    BY <1>4 DEF InsertComment, WriteBody, WriteDeleted, WriteDecision, WriteCancel, rest,
                Refuse, Reads, rows
  <2>4. \/ UNCHANGED <<comments, late>> /\ call[c].kind \notin ThreadKinds
        \/ ThreadWrite(c)
    BY <1>4 DEF ThreadWrite, WriteDecision, WriteCancel, At, rest, ThreadKinds, Refuse, Reads, rows
  <2>5. QED BY <1>1, <2>1, <2>2, <2>3, <2>4, GoWorks DEF InboxKinds, TellingKinds
<1>5. CASE WriteDecision(c) /\ Refuse(c)
  <2>1. ~Touched(c)
    BY <1>1, <1>5, NotTouched DEF WriteDecision, At
  <2>2. QED BY <1>5, <2>1, RefuseWorks
<1>6. CASE WriteStar(c)
  <2>1. u.at = "write" /\ u.kind \in {"star", "unstar"} /\ ~Touched(c) /\ ~u.ok
    BY <1>1, <1>6, NotTouched DEF WriteStar, At
  <2>2. PICK v \in Call : /\ call' = [call EXCEPT ![c] = v]
                          /\ Kin(call[c], v) /\ v.at \in {"answered", "done"} /\ v.ok
                          /\ v.at = "answered" <=> call[c].page
    BY <1>6, FinishMoves DEF WriteStar, CallsInv
  <2>3. v.kind = u.kind /\ v.page = u.page /\ v.before = u.before
    BY <1>1, <2>2 DEF Kin
  <2>4. ~u.page
    BY <1>1, <2>1 DEF Fits, InboxKinds
  <2>5. v.at = "done"
    BY <1>1, <2>2, <2>4
  <2>6. Fits(v)
    BY <2>1, <2>2, <2>3, <2>4, <2>5 DEF Fits, InboxKinds, AllCallKinds
  <2>7. Working(call[c], v)
    BY <1>1, <2>1, <2>2, <2>3, <2>5, <2>6 DEF Working, Touched
  <2>8. UNCHANGED <<inbox, fanout, mix, comments, late>>
    BY <1>6 DEF WriteStar, rest
  <2>9. v.kind \notin ThreadKinds
    BY <2>1, <2>3 DEF ThreadKinds
  <2>10. QED BY <2>2, <2>7, <2>8, <2>9 DEF Works
<1>7. QED
  BY <1>2, <1>3, <1>4, <1>5, <1>6
  DEF InsertComment, WriteBody, WriteDeleted, WriteDecision, WriteCancel

\* What a call does before it tells the others, or if it has nobody to tell.
LEMMA CallStepWorks ==
  ASSUME CallsInv, KindsInv, NEW c \in Calls, CallStep(c)
  PROVE  Works(c) \/ TellStep(c) \/ WriteRead(c) \/ ReadPanel(c)
BY BeginsWork, FindsWork, WritesWork DEF CallStep, ApprovalStep, CommentStep, InboxStep

-----------------------------------------------------------------------------
(* The badge: what stands when a call moves.                                *)

LEMMA SerialBefore ==
  ASSUME \A d \in Calls : Touched(d) => Touched(d)' /\ call'[d].before = call[d].before
  PROVE  Serial' => Serial
BY DEF Serial, Overlap

\* Two calls that were under way together are not one after the other.
LEMMA AloneAfter ==
  ASSUME BeforeInv, Serial', NEW c \in Calls, NEW d \in Calls, ~Over(c), ~Over(d),
         Touched(c)', Touched(d)',
         call'[c].before = call[c].before, call'[d].before = call[d].before
  PROVE  c = d
<1>1. c \notin call[d].before /\ d \notin call[c].before
  BY DEF BeforeInv
<1>2. ~Overlap(c, d)'
  BY DEF Serial
<1>3. QED BY <1>1, <1>2 DEF Overlap

LEMMA InFlightAfter ==
  \A c \in Calls : InFlight(c)' <=> \E m \in Sent(wire)' : m.type # "reply" /\ m.by = c
BY DEF InFlight, Sent

\* What is over stays over when another call moves.
LEMMA OverStays ==
  ASSUME NEW c \in Calls, ~Over(c),
         \A d \in Calls : d # c => call'[d] = call[d],
         \A m \in Sent(wire)' : m \in Sent(wire) \/ m.type = "reply" \/ m.by = c
  PROVE  \A d \in Calls : Over(d) => Over(d)'
<1> SUFFICES ASSUME NEW d \in Calls, Over(d) PROVE Over(d)'
  OBVIOUS
<1>1. d # c /\ call'[d] = call[d]
  OBVIOUS
<1>2. ~InFlight(d)'
  BY <1>1, InFlightSent, InFlightAfter DEF Over
<1>3. QED BY <1>1, <1>2 DEF Over

LEMMA ServerKeeps ==
  ASSUME RowsOK, KindsInv, BeforeInv, SentInv,
         NEW c \in Calls, NEW v \in Call, call' = [call EXCEPT ![c] = v],
         ~Over(c), Fits(v),
         \A d \in v.before : d \in call[c].before \/ Over(d),
         Touched(c) => Touch(v) /\ v.before = call[c].before,
         Announced(call[c]) => Announced(v),
         \A m \in Sent(wire)' :
           m \in Sent(wire) \/ m.type = "reply" \/ (m.by = c /\ Announced(v))
  PROVE  /\ KindsInv' /\ BeforeInv' /\ SentInv' /\ (Serial' => Serial)
         /\ call' \in [Calls -> Call] /\ call'[c] = v
         /\ \A d \in Calls : d # c => call'[d] = call[d]
<1>1. /\ call' \in [Calls -> Call] /\ call'[c] = v
      /\ \A d \in Calls : d # c => call'[d] = call[d]
  BY CallPut
<1>2. KindsInv'
  BY <1>1 DEF KindsInv
<1>3. BeforeInv'
  <2>1. \A d \in Calls : Over(d) => Over(d)'
    BY <1>1, OverStays
  <2>2. v.before \subseteq Calls
    BY DEF Call
  <2>3. ASSUME NEW b \in Calls, NEW d \in call'[b].before PROVE Over(d)'
    <3>1. CASE b = c
      BY <1>1, <2>1, <2>2, <3>1 DEF BeforeInv
    <3>2. CASE b # c
      <4>1. call[b] \in Call /\ d \in call[b].before
        BY <1>1, <2>3, <3>2 DEF RowsOK
      <4>2. d \in Calls
        BY <4>1 DEF Call
      <4>3. QED BY <2>1, <4>1, <4>2 DEF BeforeInv
    <3>3. QED BY <3>1, <3>2
  <2>4. QED BY <2>3 DEF BeforeInv
<1>4. SentInv'
  <2>1. ASSUME NEW m \in Sent(wire)', m.type # "reply"
        PROVE  m.by \in Calls /\ Announced(call'[m.by])
    <3>1. CASE m.by = c /\ Announced(v)
      BY <1>1, <3>1
    <3>2. CASE m \in Sent(wire)
      <4>1. m.by \in Calls /\ Announced(call[m.by])
        BY <2>1, <3>2 DEF SentInv
      <4>2. CASE m.by = c
        BY <1>1, <4>1, <4>2
      <4>3. CASE m.by # c
        BY <1>1, <4>1, <4>3
      <4>4. QED BY <4>2, <4>3
    <3>3. QED BY <2>1, <3>1, <3>2
  <2>2. QED BY <2>1 DEF SentInv
<1>5. Serial' => Serial
  <2>1. \A d \in Calls : Touched(d) => Touched(d)' /\ call'[d].before = call[d].before
    BY <1>1 DEF Touched
  <2>2. QED BY <2>1, SerialBefore
<1>6. QED BY <1>1, <1>2, <1>3, <1>4, <1>5

\* The unread notifications stay as they are.
LEMMA CountStands ==
  ASSUME CountInv, Serial' => Serial, Count' = Count, NEW c \in Calls,
         \A d \in Calls : d # c => call'[d] = call[d],
         Serial => Right(call'[c], Count),
         \A m \in Sent(wire)' :
           m \in Sent(wire) \/ m.type # "notification" \/ (Serial => m.unread = Count)
  PROVE  CountInv'
<1> SUFFICES ASSUME Serial'
             PROVE  /\ \A d \in Calls : Right(call'[d], Count)
                    /\ \A m \in Sent(wire)' : m.type = "notification" => m.unread = Count
  BY DEF CountInv
<1>1. Serial
  OBVIOUS
<1>2. ASSUME NEW d \in Calls PROVE Right(call'[d], Count)
  <2>1. CASE d = c
    BY <1>1, <2>1
  <2>2. CASE d # c
    BY <1>1, <2>2 DEF CountInv
  <2>3. QED BY <2>1, <2>2
<1>3. ASSUME NEW m \in Sent(wire)', m.type = "notification" PROVE m.unread = Count
  BY <1>1, <1>3 DEF CountInv
<1>4. QED BY <1>2, <1>3

\* A call changes which notifications are unread: nobody has a count.
LEMMA CountChanges ==
  ASSUME CallsInv, KindsInv, BeforeInv, SentInv, CountInv, NEW c \in Calls, UNCHANGED wire,
         \A d \in Calls : d # c => call'[d] = call[d],
         ~Over(c), ~Announced(call[c]), Touched(c)',
         call'[c].before = call[c].before,
         Right(call'[c], Count')
  PROVE  CountInv'
<1> SUFFICES ASSUME Serial'
             PROVE  /\ \A d \in Calls : Right(call'[d], Count')
                    /\ \A m \in Sent(wire)' : m.type = "notification" => m.unread = Count'
  BY DEF CountInv
<1>1. \A d \in Calls : d # c /\ Touched(d) => Over(d)
  <2> SUFFICES ASSUME NEW d \in Calls, d # c, Touched(d), ~Over(d) PROVE FALSE
    OBVIOUS
  <2>1. Touched(d)' /\ call'[d].before = call[d].before
    BY DEF Touched
  <2>2. QED BY <2>1, AloneAfter
<1>2. ASSUME NEW d \in Calls PROVE Right(call'[d], Count')
  <2>1. CASE d = c
    BY <2>1
  <2>2. CASE d # c
    <3>1. Touched(d) => call[d].at = "done"
      BY <1>1, <2>2 DEF Over
    <3>2. call[d].at \in {"tell", "answered"} => Touched(d)
      BY DEF KindsInv, Fits, Touched, Touch, Written
    <3>3. call[d].at \notin {"tell", "answered"}
      BY <3>1, <3>2
    <3>4. QED BY <2>2, <3>3 DEF Right
  <2>3. QED BY <2>1, <2>2
<1>3. ASSUME NEW m \in Sent(wire)', m.type = "notification" PROVE FALSE
  <2>1. m \in Sent(wire)
    BY DEF Sent
  <2>2. m.by \in Calls /\ Announced(call[m.by]) /\ m.type # "reply"
    BY <1>3, <2>1 DEF SentInv
  <2>3. m.by # c
    BY <2>2
  <2>4. Touched(m.by)
    BY <2>2 DEF Announced, Touched, Touch, Written
  <2>5. Over(m.by)
    BY <1>1, <2>2, <2>3, <2>4
  <2>6. QED BY <2>1, <2>2, <2>5, InFlightSent DEF Over
<1>4. QED BY <1>2, <1>3

LEMMA OwedStays ==
  ASSUME NEW c \in Calls, \A d \in Calls : d # c => call'[d] = call[d],
         Bringing(call[c]) => Bringing(call'[c]),
         \A m \in Sent(wire) : m.type = "notification" => m \in Sent(wire)'
  PROVE  Owed => Owed'
<1> SUFFICES ASSUME Owed PROVE Owed'
  OBVIOUS
<1>1. CASE \E d \in Calls : Bringing(call[d])
  <2>1. PICK d \in Calls : Bringing(call[d])
    BY <1>1
  <2>2. Bringing(call'[d])
    BY <2>1
  <2>3. QED BY <2>2 DEF Owed
<1>2. CASE \E m \in Sent(wire) : m.type = "notification"
  BY <1>2 DEF Owed
<1>3. QED BY <1>1, <1>2 DEF Owed

-----------------------------------------------------------------------------
(* The badge: the steps of a call on the server.                            *)

\* The count stays, and who brings it; or somebody is going to bring it.
Brought(c) ==
  /\ Count' = Count \/ UnderWay(c)
  /\ Serial /\ (UnderWay(c) => subscribed) =>
       \/ Count' = Count /\ (Owed => Owed')
       \/ Owed'

ServerBadge(c) == /\ KindsInv' /\ BeforeInv' /\ SentInv' /\ CountInv' /\ Brought(c)
                  /\ Serial' => Serial
                  /\ UNCHANGED mix

ServerInv == CallsInv /\ KindsInv /\ BeforeInv /\ SentInv /\ CountInv

LEMMA SameCount == UNCHANGED inbox => Count' = Count
BY DEF Count, Unread

LEMMA WorksBadge ==
  ASSUME ServerInv, NEW c \in Calls, Works(c) PROVE ServerBadge(c)
<1>1. PICK v \in Call : call' = [call EXCEPT ![c] = v] /\ Working(call[c], v)
  BY DEF Works
<1>2. UNCHANGED <<inbox, wire, mix>>
  BY DEF Works, fanout
<1>3. PICK u : u = call[c] /\ Fits(u)
  BY DEF ServerInv, KindsInv
<1>4. /\ ~Touched(c) /\ ~Over(c) /\ ~Announced(u) /\ ~Bringing(u)
  BY <1>1, <1>3
  DEF Working, Touched, Touch, Written, Over, Announced, Bringing, Fits
<1>5. Sent(wire)' = Sent(wire) /\ Count' = Count
  BY <1>2, SameCount DEF Sent
<1>6. /\ KindsInv' /\ BeforeInv' /\ SentInv' /\ (Serial' => Serial)
      /\ call'[c] = v /\ \A d \in Calls : d # c => call'[d] = call[d]
  BY <1>1, <1>3, <1>4, <1>5, ServerKeeps DEF ServerInv, CallsInv, Working
<1>7. Right(v, Count)
  BY <1>1 DEF Working, Right
<1>8. CountInv'
  BY <1>5, <1>6, <1>7, CountStands DEF ServerInv
<1>9. Owed => Owed'
  BY <1>3, <1>4, <1>5, <1>6, OwedStays
<1>10. QED BY <1>2, <1>5, <1>6, <1>8, <1>9 DEF ServerBadge, Brought

LEMMA RecordBadge ==
  ASSUME ServerInv, NEW c \in Calls, Record(c) PROVE ServerBadge(c)
<1>1. PICK u \in Call : u = call[c] /\ Fits(u) /\ CallInv(c, u)
  BY DEF ServerInv, KindsInv, CallsInv, RowsOK
<1>2. u.at = "record" /\ ~u.ok /\ UNCHANGED <<wire, mix>>
  BY <1>1 DEF Record, CallInv, Hand, rest, fanout
<1>3. PICK v \in Call : /\ call' = [call EXCEPT ![c] = v]
                        /\ Kin(call[c], v) /\ v.at = "announce" /\ v.ok = call[c].ok
                        /\ v.told = call[c].told
  BY GotoMoves DEF Record, CallSteps, ServerInv, CallsInv
<1>4. /\ Touched(c) /\ ~Over(c) /\ ~Announced(u) /\ ~Bringing(u)
      /\ UnderWay(c)
  BY <1>1, <1>2 DEF Touched, Touch, Written, Over, Announced, Bringing, UnderWay
<1>5. Touch(v) /\ v.before = u.before /\ Fits(v)
  BY <1>1, <1>2, <1>3 DEF Touch, Written, Kin, Fits
<1>6. Sent(wire)' = Sent(wire)
  BY <1>2 DEF Sent
<1>7. /\ KindsInv' /\ BeforeInv' /\ SentInv' /\ (Serial' => Serial)
      /\ call'[c] = v /\ \A d \in Calls : d # c => call'[d] = call[d]
  BY <1>1, <1>3, <1>4, <1>5, <1>6, ServerKeeps DEF ServerInv, CallsInv
<1>8. Right(v, Count')
  BY <1>3 DEF Right
<1>9. CountInv'
  BY <1>1, <1>2, <1>4, <1>5, <1>7, <1>8, CountChanges DEF ServerInv, Touched
<1>10. CASE Me \in Recipients(c)
  <2>1. Bringing(v)
    BY <1>1, <1>3, <1>10 DEF Bringing, Recipients, Kin
  <2>2. Owed'
    BY <1>7, <2>1 DEF Owed
  <2>3. QED BY <1>2, <1>4, <1>7, <1>9, <2>2 DEF ServerBadge, Brought
<1>11. CASE Me \notin Recipients(c)
  <2>1. Count' = Count
    <3>1. \A n \in [to : Recipients(c), by : {c}, read : {FALSE}] : n.to # Me
      BY <1>11
    <3>2. Unread(Me)' = Unread(Me)
      BY <3>1 DEF Record, Unread
    <3>3. QED BY <3>2 DEF Count
  <2>2. Owed => Owed'
    BY <1>1, <1>4, <1>6, <1>7, OwedStays
  <2>3. QED BY <1>2, <1>4, <1>7, <1>9, <2>1, <2>2 DEF ServerBadge, Brought
<1>12. QED BY <1>10, <1>11

\* After the first event the count is read for whoever was notified.
LEMMA AnnounceBadge ==
  ASSUME ServerInv, FanInv, NEW c \in Calls, Announce(c) PROVE ServerBadge(c)
<1>1. PICK u \in Call : u = call[c] /\ Fits(u) /\ CallInv(c, u)
  BY DEF ServerInv, KindsInv, CallsInv, RowsOK
<1>2. u.at = "announce" /\ ~u.ok /\ UNCHANGED <<inbox, mix>> /\ Publish(Changed(c))
  BY <1>1 DEF Announce, CallInv, Hand, rows, rest
<1>3. PICK v \in Call : /\ call' = [call EXCEPT ![c] = v] /\ Kin(call[c], v)
                        /\ \/ Me \in Recipients(c) /\ v.at = "count" /\ v.ok = call[c].ok
                           \/ /\ Me \notin Recipients(c)
                              /\ v.at \in {"answered", "done"} /\ v.ok
                              /\ v.at = "answered" => v.page
  <2>1. CASE Me \in Recipients(c)
    <3>1. Goto(c, "count")
      BY <2>1 DEF Announce
    <3>2. QED BY <2>1, <3>1, GotoMoves DEF CallSteps, ServerInv, CallsInv
  <2>2. CASE Me \notin Recipients(c)
    <3>1. Finish(c)
      BY <2>2 DEF Announce
    <3>2. PICK v \in Call : /\ call' = [call EXCEPT ![c] = v]
                            /\ Kin(call[c], v) /\ v.at \in {"answered", "done"} /\ v.ok
                            /\ v.at = "answered" <=> call[c].page
      BY <3>1, FinishMoves DEF ServerInv, CallsInv
    <3>3. v.at = "answered" => v.page
      BY <3>2 DEF Kin
    <3>4. QED BY <2>2, <3>2, <3>3
  <2>3. QED BY <2>1, <2>2
<1>4. /\ Touched(c) /\ ~Over(c) /\ ~Announced(u) /\ UnderWay(c)
  BY <1>1, <1>2 DEF Touched, Touch, Written, Over, Announced, UnderWay
<1>5. u.kind \in TellingKinds /\ v.kind = u.kind
  BY <1>1, <1>2, <1>3 DEF Fits, Kin
<1>6. Touch(v) /\ v.before = u.before /\ Announced(v)
  BY <1>1, <1>2, <1>3 DEF Touch, Written, Kin, Announced
<1>7. Fits(v)
  <2>1. v.page = u.page /\ v.target = u.target
    BY <1>1, <1>3 DEF Kin
  <2>2. QED BY <1>1, <1>2, <1>3, <1>5, <2>1 DEF Fits, TellingKinds, InboxKinds, AllCallKinds
<1>8. Right(v, Count)
  BY <1>3, <1>5 DEF Right, TellingKinds
<1>9. /\ Changed(c) \in Event /\ Changed(c).by = c
      /\ Changed(c).type # "notification"
  <2>1. Changed(c).type # "notification" /\ Changed(c).by = c
    BY DEF Changed
  <2>2. QED BY <2>1, PublishedEvents DEF ServerInv
<1>10. /\ \A m \in Sent(wire)' : m \in Sent(wire) \/ m = Changed(c)
       /\ Sent(wire) \subseteq Sent(wire)'
  BY <1>2, <1>9, SentSteps
<1>11. Count' = Count
  BY <1>2, SameCount
<1>12. /\ KindsInv' /\ BeforeInv' /\ SentInv' /\ (Serial' => Serial)
       /\ call'[c] = v /\ \A d \in Calls : d # c => call'[d] = call[d]
  BY <1>1, <1>3, <1>4, <1>6, <1>7, <1>9, <1>10, ServerKeeps DEF ServerInv, CallsInv
<1>13. CountInv'
  BY <1>8, <1>9, <1>10, <1>11, <1>12, CountStands DEF ServerInv
<1>14. Owed => Owed'
  <2>1. CASE Me \in Recipients(c)
    <3>1. Bringing(v)
      BY <1>3, <2>1 DEF Bringing
    <3>2. QED BY <1>12, <3>1 DEF Owed
  <2>2. CASE Me \notin Recipients(c)
    <3>1. ~Bringing(u)
      BY <1>1, <1>2, <2>2 DEF Bringing, Recipients
    <3>2. QED BY <1>1, <1>10, <1>12, <3>1, OwedStays
  <2>3. QED BY <2>1, <2>2
<1>15. QED BY <1>2, <1>11, <1>12, <1>13, <1>14 DEF ServerBadge, Brought

LEMMA CountUnreadBadge ==
  ASSUME ServerInv, NEW c \in Calls, CountUnread(c) PROVE ServerBadge(c)
<1>1. PICK u \in Call : u = call[c] /\ Fits(u) /\ CallInv(c, u)
  BY DEF ServerInv, KindsInv, CallsInv, RowsOK
<1>2. u.at = "count" /\ ~u.ok /\ UNCHANGED <<inbox, wire, mix>>
  BY <1>1 DEF CountUnread, CallInv, Hand, Reads, rows, rest, fanout
<1>3. PICK n \in Nat : n = Count
  BY NotesAreFinite DEF Count, ServerInv, CallsInv
<1>4. Counting(c, "tell", n)
  BY <1>3 DEF CountUnread, Counting, Count
<1>5. PICK v \in Call : /\ call' = [call EXCEPT ![c] = v]
                        /\ Kin(call[c], v) /\ v.at = "tell" /\ v.ok = call[c].ok
                        /\ v.unread = n
  BY <1>4, UnreadMoves DEF CallSteps, ServerInv, CallsInv
<1>6. ~Over(c) /\ Bringing(v) /\ Announced(v) /\ Touch(v)
  BY <1>1, <1>2, <1>5 DEF Over, Bringing, Announced, Touch, Written
<1>7. v.before = u.before /\ Fits(v) /\ Right(v, Count)
  BY <1>1, <1>2, <1>3, <1>5 DEF Kin, Fits, Right
<1>8. Sent(wire)' = Sent(wire) /\ Count' = Count
  BY <1>2, SameCount DEF Sent
<1>9. /\ KindsInv' /\ BeforeInv' /\ SentInv' /\ (Serial' => Serial)
      /\ call'[c] = v /\ \A d \in Calls : d # c => call'[d] = call[d]
  BY <1>1, <1>5, <1>6, <1>7, <1>8, ServerKeeps DEF ServerInv, CallsInv
<1>10. CountInv'
  BY <1>7, <1>8, <1>9, CountStands DEF ServerInv
<1>11. Owed'
  BY <1>6, <1>9 DEF Owed
<1>12. QED BY <1>2, <1>8, <1>9, <1>10, <1>11 DEF ServerBadge, Brought

\* The event of the count is lost if nobody is subscribed for it.
LEMMA TellBadge ==
  ASSUME ServerInv, FanInv, NEW c \in Calls, Tell(c) PROVE ServerBadge(c)
<1>1. PICK u \in Call : u = call[c] /\ Fits(u) /\ CallInv(c, u)
  BY DEF ServerInv, KindsInv, CallsInv, RowsOK
<1>2. PICK e : e = [type |-> "notification", unread |-> u.unread, by |-> c]
  OBVIOUS
<1>3. u.at = "tell" /\ ~u.ok /\ UNCHANGED <<inbox, mix>> /\ Publish(e) /\ Finish(c)
  BY <1>1, <1>2 DEF Tell, CallInv, Hand, rows, rest
<1>4. e \in Event /\ e.by = c /\ e.type = "notification" /\ e.unread = u.unread
  BY <1>1, <1>2, PublishedEvents DEF ServerInv
<1>5. PICK v \in Call : /\ call' = [call EXCEPT ![c] = v]
                        /\ Kin(call[c], v) /\ v.at \in {"answered", "done"} /\ v.ok
                        /\ v.at = "answered" <=> call[c].page
  BY <1>3, FinishMoves DEF ServerInv, CallsInv
<1>6. ~Over(c) /\ Touched(c) /\ UnderWay(c) /\ Announced(v) /\ Touch(v)
  BY <1>1, <1>3, <1>5 DEF Over, Touched, Touch, Written, UnderWay, Announced
<1>7. /\ u.kind \in TellingKinds /\ v.kind = u.kind /\ v.page = u.page /\ v.target = u.target
      /\ v.before = u.before
  BY <1>1, <1>3, <1>5 DEF Fits, Kin
<1>8. Fits(v) /\ Right(v, Count)
  BY <1>1, <1>3, <1>5, <1>7 DEF Fits, Right, TellingKinds, InboxKinds, AllCallKinds
<1>9. /\ \A m \in Sent(wire)' : m \in Sent(wire) \/ m = e
      /\ Sent(wire) \subseteq Sent(wire)'
      /\ subscribed => e \in Sent(wire)'
  BY <1>3, <1>4, SentSteps
<1>10. Count' = Count
  BY <1>3, SameCount
<1>11. /\ KindsInv' /\ BeforeInv' /\ SentInv' /\ (Serial' => Serial)
       /\ call'[c] = v /\ \A d \in Calls : d # c => call'[d] = call[d]
  BY <1>1, <1>4, <1>5, <1>6, <1>7, <1>8, <1>9, ServerKeeps DEF ServerInv, CallsInv
<1>12. Serial => e.unread = Count
  BY <1>1, <1>3, <1>4 DEF ServerInv, CountInv, Right
<1>13. CountInv'
  BY <1>8, <1>9, <1>10, <1>11, <1>12, CountStands DEF ServerInv
<1>14. subscribed => Owed'
  BY <1>4, <1>9 DEF Owed
<1>15. QED BY <1>3, <1>6, <1>10, <1>11, <1>13, <1>14 DEF ServerBadge, Brought

\* Everything, or one notification, is marked read.
LEMMA WriteReadBadge ==
  ASSUME ServerInv, NEW c \in Calls, WriteRead(c) PROVE ServerBadge(c)
<1>1. PICK u \in Call : u = call[c] /\ Fits(u) /\ CallInv(c, u)
  BY DEF ServerInv, KindsInv, CallsInv, RowsOK
<1>2. /\ u.at = "write" /\ u.kind \in {"readAll", "readOne"} /\ ~u.ok
      /\ UNCHANGED <<wire, mix>>
  BY <1>1 DEF WriteRead, At, CallInv, Hand, rest, fanout
<1>3. u.page
  BY <1>1, <1>2 DEF Fits, InboxKinds
<1>4. PICK v \in Call : /\ call' = [call EXCEPT ![c] = v] /\ Kin(call[c], v)
                        /\ \/ u.kind = "readAll" /\ v.at = "answered" /\ v.ok
                           \/ u.kind = "readOne" /\ v.at = "find" /\ v.ok = call[c].ok
  <2>1. CASE u.kind = "readAll"
    <3>1. Finish(c)
      BY <1>1, <2>1 DEF WriteRead
    <3>2. PICK v \in Call : /\ call' = [call EXCEPT ![c] = v]
                            /\ Kin(call[c], v) /\ v.at \in {"answered", "done"} /\ v.ok
                            /\ v.at = "answered" <=> call[c].page
      BY <3>1, FinishMoves DEF ServerInv, CallsInv
    <3>3. QED BY <1>1, <1>3, <2>1, <3>2
  <2>2. CASE u.kind = "readOne"
    <3>1. Goto(c, "find")
      BY <1>1, <2>2 DEF WriteRead
    <3>2. QED BY <2>2, <3>1, GotoMoves DEF CallSteps, ServerInv, CallsInv
  <2>3. QED BY <1>2, <2>1, <2>2
<1>5. /\ v.kind = u.kind /\ v.page = u.page /\ v.before = u.before
  BY <1>1, <1>4 DEF Kin
<1>6. /\ ~Over(c) /\ ~Touched(c) /\ ~Announced(u) /\ UnderWay(c)
  BY <1>1, <1>2 DEF Over, Touched, Touch, Written, Announced, UnderWay
<1>7. Touch(v) /\ Bringing(v)
  BY <1>2, <1>4, <1>5 DEF Touch, Written, Bringing
<1>8. Fits(v)
  BY <1>1, <1>2, <1>3, <1>4, <1>5 DEF Fits, InboxKinds, AllCallKinds
<1>9. u.kind = "readAll" => Count' = 0
  <2> SUFFICES ASSUME u.kind = "readAll" PROVE Count' = 0
    OBVIOUS
  <2>1. \A n \in Note : [n EXCEPT !.read = TRUE].read = TRUE
    BY DEF Note
  <2>2. inbox' = {IF n.to = Me THEN [n EXCEPT !.read = TRUE] ELSE n : n \in inbox}
    BY <1>1 DEF WriteRead
  <2>3. inbox \subseteq Note
    BY DEF ServerInv, CallsInv, RowsOK
  <2>4. Unread(Me)' = {}
    BY <2>1, <2>2, <2>3 DEF Unread
  <2>5. QED BY <2>4, FS_EmptySet DEF Count
<1>10. Right(v, Count')
  BY <1>4, <1>5, <1>9 DEF Right
<1>11. Sent(wire)' = Sent(wire)
  BY <1>2 DEF Sent
<1>12. /\ KindsInv' /\ BeforeInv' /\ SentInv' /\ (Serial' => Serial)
       /\ call'[c] = v /\ \A d \in Calls : d # c => call'[d] = call[d]
  BY <1>1, <1>4, <1>5, <1>6, <1>8, <1>11, ServerKeeps DEF ServerInv, CallsInv
<1>13. CountInv'
  BY <1>1, <1>2, <1>5, <1>6, <1>7, <1>10, <1>12, CountChanges DEF ServerInv, Touched
<1>14. Owed'
  BY <1>7, <1>12 DEF Owed
<1>15. QED BY <1>2, <1>6, <1>12, <1>13, <1>14 DEF ServerBadge, Brought

LEMMA ReadPanelBadge ==
  ASSUME ServerInv, NEW c \in Calls, ReadPanel(c) PROVE ServerBadge(c)
<1>1. PICK u \in Call : u = call[c] /\ Fits(u) /\ CallInv(c, u)
  BY DEF ServerInv, KindsInv, CallsInv, RowsOK
<1>2. /\ u.at = "find" /\ u.kind \in {"panel", "readOne"} /\ ~u.ok
      /\ UNCHANGED <<inbox, wire, mix>>
  BY <1>1 DEF ReadPanel, At, CallInv, Hand, Reads, rows, rest, fanout
<1>3. PICK n \in Nat : n = Count
  BY NotesAreFinite DEF Count, ServerInv, CallsInv
<1>4. call' = [call EXCEPT ![c].at = "answered", ![c].ok = TRUE, ![c].unread = n]
  BY <1>3 DEF ReadPanel, Count
<1>5. PICK v \in Call : /\ call' = [call EXCEPT ![c] = v]
                        /\ Kin(call[c], v) /\ v.at = "answered" /\ v.ok
                        /\ v.unread = n
  BY <1>4, PanelMoves DEF ServerInv, CallsInv
<1>6. /\ v.kind = u.kind /\ v.page = u.page /\ v.before = u.before /\ u.page
  BY <1>1, <1>2, <1>5 DEF Kin, Fits, InboxKinds
<1>7. /\ ~Over(c) /\ Touch(v) /\ Announced(v) /\ (Bringing(u) => Bringing(v))
  BY <1>1, <1>2, <1>5, <1>6 DEF Over, Touch, Written, Announced, Bringing
<1>8. Fits(v) /\ Right(v, Count)
  BY <1>1, <1>2, <1>3, <1>5, <1>6 DEF Fits, Right, InboxKinds, AllCallKinds
<1>9. Sent(wire)' = Sent(wire) /\ Count' = Count
  BY <1>2, SameCount DEF Sent
<1>10. /\ KindsInv' /\ BeforeInv' /\ SentInv' /\ (Serial' => Serial)
       /\ call'[c] = v /\ \A d \in Calls : d # c => call'[d] = call[d]
  BY <1>1, <1>5, <1>6, <1>7, <1>8, <1>9, ServerKeeps DEF ServerInv, CallsInv
<1>11. CountInv'
  BY <1>8, <1>9, <1>10, CountStands DEF ServerInv
<1>12. Owed => Owed'
  BY <1>1, <1>7, <1>9, <1>10, OwedStays
<1>13. QED BY <1>2, <1>9, <1>10, <1>11, <1>12 DEF ServerBadge, Brought

LEMMA CallStepBadge ==
  ASSUME ServerInv, FanInv, NEW c \in Calls, CallStep(c) PROVE ServerBadge(c)
<1>1. Works(c) \/ TellStep(c) \/ WriteRead(c) \/ ReadPanel(c)
  BY CallStepWorks DEF ServerInv
<1>2. QED
  BY <1>1, WorksBadge, RecordBadge, AnnounceBadge, CountUnreadBadge, TellBadge,
     WriteReadBadge, ReadPanelBadge
  DEF TellStep

-----------------------------------------------------------------------------
(* The badge: the steps of the page.                                        *)

LEMMA ThreadIsShown ==
  ASSUME RowsOK PROVE Thread \in SUBSET Shown /\ Cardinality(LiveComments) \in Nat
<1>1. ASSUME NEW k \in Comments PROVE comments[k].body \in Calls \cup {None}
  BY DEF RowsOK, Comment
<1>2. LiveComments \in SUBSET Comments
  BY DEF LiveComments
<1>3. Thread \in SUBSET Shown
  BY <1>1, <1>2 DEF Thread, Shown
<1>4. IsFiniteSet(Comments)
  BY FinitenessAssumption, FS_Union DEF Comments
<1>5. Cardinality(LiveComments) \in Nat
  BY <1>2, <1>4, FS_Subset, FS_CardinalityType
<1>6. QED BY <1>3, <1>5

LEMMA ReadBadgePage ==
  ASSUME PageOK, RowsOK, ReadBadge
  PROVE  PageOK' /\ page'.at = "counted" /\ page'.count = Count
<1>1. PICK p \in Page : p = page
  BY DEF PageOK
<1>2. PICK n \in Nat : n = Count
  BY NotesAreFinite DEF Count
<1>3. PICK q : q = [p EXCEPT !.at = "counted", !.count = n]
  OBVIOUS
<1>4. q \in Page /\ q.at = "counted" /\ q.count = n
  BY <1>3 DEF Page
<1>5. page' = q
  BY <1>1, <1>2, <1>3, Zenon DEF ReadBadge, Count
<1>6. QED BY <1>2, <1>4, <1>5 DEF PageOK, ReadBadge

LEMMA ShowBadgePage ==
  ASSUME PageOK, ShowBadge
  PROVE  PageOK' /\ page'.at = "opening" /\ page'.badge = page.count
<1>1. PICK p \in Page : p = page
  BY DEF PageOK
<1>2. PICK q : q = [p EXCEPT !.at = "opening", !.badge = p.count, !.count = 0]
  OBVIOUS
<1>3. q \in Page /\ q.at = "opening" /\ q.badge = p.count
  BY <1>2 DEF Page
<1>4. page' = q
  BY <1>1, <1>2, Zenon DEF ShowBadge, ReadAtConnect
<1>5. QED BY <1>1, <1>3, <1>4 DEF PageOK, ShowBadge

LEMMA OpenStreamPage ==
  ASSUME PageOK, OpenStream
  PROVE  PageOK' /\ page.at = "opening" /\ page'.at = "open" /\ page'.badge = page.badge
<1>1. PICK p \in Page : p = page
  BY DEF PageOK
<1>2. PICK s \in Streams : page' = [page EXCEPT !.at = "open", !.stream = s]
  BY DEF OpenStream
<1>3. PICK q : q = [p EXCEPT !.at = "open", !.stream = s]
  OBVIOUS
<1>4. q \in Page /\ q.at = "open" /\ q.badge = p.badge
  BY <1>3 DEF Page
<1>5. page' = q
  BY <1>1, <1>2, <1>3
<1>6. QED BY <1>1, <1>4, <1>5 DEF PageOK, OpenStream

LEMMA LoseStreamPage ==
  ASSUME PageOK, LoseStream PROVE PageOK' /\ page'.at = "counting"
<1>1. PICK p \in Page : p = page
  BY DEF PageOK
<1>2. PICK q : q = [p EXCEPT !.at = "counting", !.stream = None]
  OBVIOUS
<1>3. q \in Page /\ q.at = "counting"
  BY <1>2 DEF Page
<1>4. page' = q
  BY <1>1, <1>2, Zenon DEF LoseStream
<1>5. QED BY <1>3, <1>4 DEF PageOK, LoseStream

LEMMA FetchPage ==
  ASSUME PageOK, RowsOK, FetchRows \/ FetchTotal PROVE PageOK'
<1>1. PICK f \in Fetch : f = fetch
  BY DEF PageOK
<1>2. CASE FetchRows
  <2>1. PICK g : g = [f EXCEPT !.got = @ \cup {"rows"}, !.shown = Thread]
    OBVIOUS
  <2>2. g \in Fetch
    BY <2>1, ThreadIsShown DEF Fetch
  <2>3. fetch' = g
    BY <1>1, <1>2, <2>1 DEF FetchRows
  <2>4. QED BY <1>2, <2>2, <2>3 DEF PageOK, FetchRows
<1>3. CASE FetchTotal
  <2>1. PICK g : g = [f EXCEPT !.got = @ \cup {"total"}, !.total = Cardinality(LiveComments)]
    OBVIOUS
  <2>2. g \in Fetch
    BY <2>1, ThreadIsShown DEF Fetch
  <2>3. fetch' = g
    BY <1>1, <1>3, <2>1 DEF FetchTotal
  <2>4. QED BY <1>3, <2>2, <2>3 DEF PageOK, FetchTotal
<1>4. QED BY <1>2, <1>3

\* The thread is shown anew, the badge and the connection stay.
LEMMA ThreadPut ==
  ASSUME PageOK, NEW shown \in SUBSET Shown, NEW total \in Nat,
         page' = [page EXCEPT !.shown = shown, !.total = total]
  PROVE  /\ page' \in Page /\ page'.shown = shown /\ page'.total = total
         /\ page'.at = page.at /\ page'.stream = page.stream
         /\ page'.count = page.count /\ page'.badge = page.badge
<1>1. PICK p \in Page : p = page
  BY DEF PageOK
<1>2. PICK q : q = [p EXCEPT !.shown = shown, !.total = total]
  OBVIOUS
<1>3. /\ q \in Page /\ q.shown = shown /\ q.total = total
      /\ q.at = p.at /\ q.stream = p.stream /\ q.count = p.count /\ q.badge = p.badge
  BY <1>2 DEF Page
<1>4. page' = q
  BY <1>1, <1>2
<1>5. QED BY <1>1, <1>3, <1>4

LEMMA BadgePut ==
  ASSUME PageOK, NEW n \in Nat, page' = [page EXCEPT !.badge = n]
  PROVE  /\ page' \in Page /\ page'.badge = n
         /\ page'.shown = page.shown /\ page'.total = page.total
         /\ page'.at = page.at /\ page'.stream = page.stream /\ page'.count = page.count
<1>1. PICK p \in Page : p = page
  BY DEF PageOK
<1>2. PICK q : q = [p EXCEPT !.badge = n]
  OBVIOUS
<1>3. /\ q \in Page /\ q.badge = n /\ q.shown = p.shown /\ q.total = p.total
      /\ q.at = p.at /\ q.stream = p.stream /\ q.count = p.count
  BY <1>2 DEF Page
<1>4. page' = q
  BY <1>1, <1>2
<1>5. QED BY <1>1, <1>3, <1>4

LEMMA NoFetchIsFetch == NoFetch \in Fetch /\ Reload \in Fetch
BY DEF NoFetch, Reload, Fetch

LEMMA ShowThreadPage ==
  ASSUME PageOK, ShowThread
  PROVE  /\ PageOK'
         /\ page'.at = page.at /\ page'.count = page.count /\ page'.badge = page.badge
<1>1. PICK f \in Fetch : f = fetch
  BY DEF PageOK
<1>2. f.shown \in SUBSET Shown /\ f.total \in Nat
  BY DEF Fetch
<1>3. page' = [page EXCEPT !.shown = f.shown, !.total = f.total]
  BY <1>1 DEF ShowThread
<1>4. QED BY <1>2, <1>3, ThreadPut, NoFetchIsFetch DEF PageOK, ShowThread

LEMMA ReadEventPage ==
  ASSUME PageOK, FanInv, ReadEvent
  PROVE  /\ PageOK' /\ page'.at = page.at /\ page'.count = page.count
         /\ \/ /\ page.stream \in Listening /\ Head(wire).type = "notification"
               /\ page'.badge = Head(wire).unread
            \/ /\ page.stream \notin Listening \/ Head(wire).type # "notification"
               /\ page'.badge = page.badge
<1>1. wire \in Seq(Message) /\ wire # <<>>
  BY DEF FanInv, QueuesInv, ReadEvent
<1>2. PICK e \in Message : e = Head(wire)
  BY <1>1
<1>3. e \in Event
  BY <1>2 DEF ReadEvent, Message, Reply
<1>4. CASE page.stream \notin Listening
  <2>1. UNCHANGED <<page, mine, fetch>>
    BY <1>4 DEF ReadEvent
  <2>2. QED BY <1>4, <2>1 DEF PageOK
<1>5. CASE page.stream \in Listening
  <2>1. Hears(e)
    BY <1>2, <1>5 DEF ReadEvent
  <2>2. CASE e.type = "notification"
    <3>1. e.unread \in Nat
      BY <1>3, <2>2 DEF Event
    <3>2. page' = [page EXCEPT !.badge = e.unread] /\ UNCHANGED <<mine, fetch>>
      BY <2>1, <2>2 DEF Hears
    <3>3. QED BY <1>2, <1>5, <2>2, <3>1, <3>2, BadgePut DEF PageOK
  <2>3. CASE e.type # "notification"
    <3>1. CASE e.type = "comment" /\ e.about \in mine
      <4>1. UNCHANGED <<page, fetch>> /\ mine' \subseteq mine
        BY <2>1, <3>1 DEF Hears, Forgotten
      <4>2. QED BY <1>2, <2>3, <4>1 DEF PageOK
    <3>2. CASE e.type = "comment" /\ e.about \notin mine
      <4>1. UNCHANGED <<page, mine>> /\ fetch' = Reload
        BY <2>1, <3>2 DEF Hears
      <4>2. QED BY <1>2, <2>3, <4>1, NoFetchIsFetch DEF PageOK
    <3>3. CASE e.type # "comment"
      <4>1. UNCHANGED <<page, mine, fetch>>
        BY <2>1, <2>3, <3>3 DEF Hears
      <4>2. QED BY <1>2, <2>3, <4>1 DEF PageOK
    <3>4. QED BY <3>1, <3>2, <3>3
  <2>4. QED BY <2>2, <2>3
<1>6. QED BY <1>4, <1>5

LEMMA AnswerPage ==
  ASSUME PageOK, RowsOK, KindsInv, NEW c \in Calls, Answer(c)
  PROVE  /\ PageOK' /\ page'.at = page.at /\ page'.count = page.count
         /\ page'.badge = IF call[c].kind = "readAll" THEN 0
                          ELSE IF call[c].kind \in {"readOne", "panel"} THEN call[c].unread
                          ELSE page.badge
<1>1. PICK u \in Call : u = call[c] /\ Fits(u)
  BY DEF RowsOK, KindsInv
<1>2. u.at = "answered" /\ u.kind \in {"create", "update", "remove"} \cup InboxKinds
  BY <1>1 DEF Answer, Fits
<1>3. PICK p \in Page : p = page
  BY DEF PageOK
<1>4. UNCHANGED fetch
  BY DEF Answer
<1>5. CASE u.kind = "create"
  <2>1. PICK shown, total : shown = p.shown \cup {<<c, c>>} /\ total = p.total + 1
    OBVIOUS
  <2>2. shown \in SUBSET Shown /\ total \in Nat
    BY <2>1 DEF Page, Shown, Comments
  <2>3. page' = [page EXCEPT !.shown = shown, !.total = total] /\ mine' = mine \cup {c}
    BY <1>1, <1>3, <1>5, <2>1 DEF Answer
  <2>4. mine' \subseteq Comments
    BY <2>3 DEF PageOK, Comments
  <2>5. QED BY <1>1, <1>4, <1>5, <2>2, <2>3, <2>4, ThreadPut DEF PageOK
<1>6. CASE u.kind = "update"
  <2>1. u.target \in Comments
    BY <1>1, <1>2, <1>6 DEF Fits
  <2>2. PICK shown : shown = IF Without(u.target) = page.shown THEN page.shown
                             ELSE Without(u.target) \cup {<<u.target, c>>}
    OBVIOUS
  <2>3. Without(u.target) \subseteq page.shown
    BY DEF Without
  <2>4. shown \in SUBSET Shown /\ p.total \in Nat
    BY <1>3, <2>1, <2>2, <2>3 DEF Page, Shown
  <2>5. page' = [page EXCEPT !.shown = shown, !.total = p.total] /\ mine' = mine \cup {u.target}
    BY <1>1, <1>3, <1>6, <2>2 DEF Answer
  <2>6. mine' \subseteq Comments
    BY <2>1, <2>5 DEF PageOK
  <2>7. QED BY <1>1, <1>4, <1>6, <2>4, <2>5, <2>6, ThreadPut DEF PageOK
<1>7. CASE u.kind = "remove"
  <2>1. u.target \in Comments
    BY <1>1, <1>2, <1>7 DEF Fits
  <2>2. PICK shown, total : shown = Without(u.target)
                            /\ total = IF p.total = 0 THEN 0 ELSE p.total - 1
    OBVIOUS
  <2>3. Without(u.target) \subseteq page.shown
    BY DEF Without
  <2>4. shown \in SUBSET Shown
    BY <1>3, <2>2, <2>3 DEF Page
  <2>5. total \in Nat
    BY <2>2 DEF Page
  <2>6. page' = [page EXCEPT !.shown = shown, !.total = total] /\ mine' = mine \cup {u.target}
    BY <1>1, <1>3, <1>7, <2>2 DEF Answer
  <2>7. mine' \subseteq Comments
    BY <2>1, <2>6 DEF PageOK
  <2>8. QED BY <1>1, <1>4, <1>7, <2>4, <2>5, <2>6, <2>7, ThreadPut DEF PageOK
<1>8. CASE u.kind \in InboxKinds
  <2>1. PICK n \in Nat : n = IF u.kind = "readAll" THEN 0 ELSE u.unread
    BY DEF Call
  <2>2. page' = [page EXCEPT !.badge = n] /\ UNCHANGED mine
    BY <1>1, <1>8, <2>1 DEF Answer, ShowRead, InboxKinds
  <2>3. QED BY <1>1, <1>4, <1>8, <2>1, <2>2, BadgePut DEF PageOK, InboxKinds
<1>9. QED BY <1>2, <1>5, <1>6, <1>7, <1>8

-----------------------------------------------------------------------------
(* The badge: its invariant.                                                *)

\* A step of the page or of the fan-out leaves the calls as they are.
LEMMA ElsewhereBadge ==
  ASSUME ServerInv, UNCHANGED <<call, inbox>>,
         \A m \in Sent(wire)' : m \in Sent(wire) \/ m.type = "reply"
  PROVE  KindsInv' /\ BeforeInv' /\ SentInv' /\ CountInv' /\ (Serial' => Serial) /\ Count' = Count
<1>1. Count' = Count
  BY SameCount
<1>2. KindsInv'
  BY DEF ServerInv, KindsInv
<1>3. BeforeInv'
  <2>1. ASSUME NEW d \in Calls, Over(d) PROVE Over(d)'
    <3>1. ~InFlight(d)'
      BY <2>1, InFlightSent, InFlightAfter DEF Over
    <3>2. QED BY <2>1, <3>1 DEF Over
  <2>2. ASSUME NEW c \in Calls, NEW d \in call[c].before PROVE Over(d)'
    <3>1. call[c] \in Call
      BY DEF ServerInv, CallsInv, RowsOK
    <3>2. d \in Calls
      BY <3>1 DEF Call
    <3>3. QED BY <2>1, <3>2 DEF ServerInv, BeforeInv
  <2>3. QED BY <2>2 DEF BeforeInv
<1>4. SentInv'
  BY DEF ServerInv, SentInv
<1>5. Serial' <=> Serial
  BY DEF Serial, Touched, Overlap
<1>6. CountInv'
  BY <1>1, <1>5 DEF ServerInv, CountInv
<1>7. QED BY <1>1, <1>2, <1>3, <1>4, <1>5, <1>6

LEMMA SameOwed ==
  ASSUME UNCHANGED call, \A m \in Sent(wire) : m.type = "notification" => m \in Sent(wire)'
  PROVE  Owed => Owed'
BY DEF Owed

\* The steps that leave the calls and what is sent as they are, or nearly.
QuietPage == ReadBadge \/ ShowBadge \/ OpenStream \/ LoseStream \/ OthersStream
             \/ FetchRows \/ FetchTotal \/ ShowThread

LEMMA ElsewhereSent ==
  ASSUME FanInv, QuietPage \/ ReadEvent \/ Trash \/ (FanoutStep /\ UNCHANGED server)
  PROVE  /\ UNCHANGED <<call, inbox, mix>>
         /\ \A m \in Sent(wire)' : m \in Sent(wire) \/ m.type = "reply"
         /\ \A m \in Sent(wire) : m.type = "notification" =>
              m \in Sent(wire)' \/ (ReadEvent /\ m = Head(wire))
<1>1. CASE QuietPage
  <2>1. UNCHANGED <<call, inbox, mix, wire>>
    BY <1>1 DEF QuietPage, ReadBadge, ShowBadge, OpenStream, LoseStream, OthersStream, FetchRows,
                FetchTotal, ShowThread, Attach, Detach, server, rows, rest, fanout
  <2>2. QED BY <2>1 DEF Sent
<1>2. CASE Trash
  <2>1. UNCHANGED <<call, inbox, mix, wire>>
    BY <1>2 DEF Trash, fanout
  <2>2. QED BY <2>1 DEF Sent
<1>3. CASE ReadEvent
  <2>1. UNCHANGED <<call, inbox, mix>>
    BY <1>3 DEF ReadEvent, server, rows, rest
  <2>2. QED BY <1>3, <2>1, SentSteps
<1>4. CASE FanoutStep /\ UNCHANGED server
  <2>1. UNCHANGED <<call, inbox, mix>>
    BY <1>4 DEF server, rows, rest
  <2>2. CASE RedisObeys
    <3>1. \/ Sent(wire)' = Sent(wire)
          \/ \E s \in Streams : Sent(wire)' = Sent(wire) \cup {Reply(s)}
      BY <2>2, SentSteps
    <3>2. \A s \in Streams : Reply(s).type = "reply"
      BY DEF Reply
    <3>3. QED BY <2>1, <3>1, <3>2
  <2>3. CASE ReadReply
    <3>1. Sent(wire) = Sent(wire)' \cup {Head(wire)} /\ Head(wire).type = "reply"
      BY <2>3, SentSteps DEF ReadReply
    <3>2. QED BY <2>1, <3>1
  <2>4. CASE \E s \in Streams : Resume(s)
    <3>1. UNCHANGED wire
      BY <2>4 DEF Resume
    <3>2. QED BY <2>1, <3>1 DEF Sent
  <2>5. QED BY <1>4, <2>2, <2>3, <2>4 DEF FanoutStep
<1>5. QED BY <1>1, <1>2, <1>3, <1>4

\* The answer reaches the page.
LEMMA AnswerBadge ==
  ASSUME ServerInv, NEW c \in Calls, Answer(c)
  PROVE  /\ KindsInv' /\ BeforeInv' /\ SentInv' /\ CountInv' /\ (Serial' => Serial)
         /\ Count' = Count /\ UNCHANGED mix
         /\ call[c].kind \notin {"readOne", "readAll"} => (Owed => Owed')
<1>1. PICK u \in Call : u = call[c] /\ Fits(u) /\ CallInv(c, u)
  BY DEF ServerInv, KindsInv, CallsInv, RowsOK
<1>2. u.at = "answered" /\ u.ok /\ UNCHANGED <<inbox, wire, mix>> /\ Goto(c, "done")
  BY <1>1 DEF Answer, Fits, rows, rest, fanout
<1>3. PICK v \in Call : /\ call' = [call EXCEPT ![c] = v]
                        /\ Kin(call[c], v) /\ v.at = "done" /\ v.ok = call[c].ok
  BY <1>2, GotoMoves DEF CallSteps, ServerInv, CallsInv
<1>4. ~Over(c) /\ Touch(v) /\ Announced(v) /\ v.before = u.before /\ v.kind = u.kind
  BY <1>1, <1>2, <1>3 DEF Over, Touch, Written, Announced, Kin
<1>5. Fits(v) /\ Right(v, Count)
  BY <1>1, <1>2, <1>3 DEF Fits, Right, Kin
<1>6. Sent(wire)' = Sent(wire) /\ Count' = Count
  BY <1>2, SameCount DEF Sent
<1>7. /\ KindsInv' /\ BeforeInv' /\ SentInv' /\ (Serial' => Serial)
      /\ call'[c] = v /\ \A d \in Calls : d # c => call'[d] = call[d]
  BY <1>1, <1>3, <1>4, <1>5, <1>6, ServerKeeps DEF ServerInv, CallsInv
<1>8. CountInv'
  BY <1>5, <1>6, <1>7, CountStands DEF ServerInv
<1>9. u.kind \notin {"readOne", "readAll"} => ~Bringing(u)
  BY <1>2 DEF Bringing
<1>10. u.kind \notin {"readOne", "readAll"} => (Owed => Owed')
  BY <1>1, <1>6, <1>7, <1>9, OwedStays
<1>11. QED BY <1>1, <1>2, <1>6, <1>7, <1>8, <1>10

\* Nothing was under way unheard, so what is under way is heard.
LEMMA NothingUnheard ==
  ASSUME UnheardInv, Watch, page.at # "counting", unheard' = {}
  PROVE  unheard = {} /\ \A c \in Calls : UnderWay(c) \/ InFlight(c) => Hearing
<1>1. Uses({"streams"}) /\ WatchCalls
  BY DEF UnheardInv, Watch
<1>2. unheard = {}
  BY <1>1 DEF WatchCalls
<1>3. ~Hearing => AtWork = {}
  BY <1>1, <1>2 DEF UnheardInv
<1>4. QED BY <1>2, <1>3 DEF AtWork

LEMMA UnheardStep ==
  ASSUME UnheardInv, Watch, UNCHANGED mix,
         page'.at # "counting" => page.at # "counting" \/ Uses({"streams"})
  PROVE  UnheardInv'
<1>1. Uses({"streams"})' <=> Uses({"streams"})
  BY DEF Uses
<1>2. Uses({"streams"}) => (~Hearing' => AtWork' \subseteq unheard')
  BY DEF Watch, WatchCalls
<1>3. QED BY <1>1, <1>2 DEF UnheardInv

LEMMA QuietPageBadge ==
  ASSUME BadgeInv, CallsInv, FanInv, Watch, QuietPage PROVE BadgeInv'
<1>1. ServerInv /\ RowsOK
  BY DEF BadgeInv, ServerInv, CallsInv
<1>2. /\ UNCHANGED <<call, inbox, mix>>
      /\ \A m \in Sent(wire)' : m \in Sent(wire) \/ m.type = "reply"
      /\ \A m \in Sent(wire) : m.type = "notification" => m \in Sent(wire)'
  <2>1. UNCHANGED <<call, inbox, mix, wire>>
    BY DEF QuietPage, ReadBadge, ShowBadge, OpenStream, LoseStream, OthersStream, FetchRows,
           FetchTotal, ShowThread, Attach, Detach, server, rows, rest, fanout
  <2>2. QED BY <2>1 DEF Sent
<1>3. KindsInv' /\ BeforeInv' /\ SentInv' /\ CountInv' /\ (Serial' => Serial) /\ Count' = Count
  BY <1>1, <1>2, ElsewhereBadge
<1>4. Owed => Owed'
  BY <1>2, SameOwed
<1>5. PageOK'
  <2>1. PageOK
    BY DEF BadgeInv
  <2>2. CASE OthersStream
    BY <2>1, <2>2 DEF OthersStream, PageOK
  <2>3. QED
    BY <1>1, <2>1, <2>2, ReadBadgePage, ShowBadgePage, OpenStreamPage, LoseStreamPage, FetchPage,
       ShowThreadPage DEF QuietPage
<1>6. /\ \/ ReadBadge
         \/ ShowBadge /\ page.at = "counted" /\ page'.at = "opening" /\ page'.badge = page.count
         \/ /\ page.at = "opening" /\ page'.at = "open" /\ page'.badge = page.badge
         \/ page'.at = "counting"
         \/ page'.at = page.at /\ page'.count = page.count /\ page'.badge = page.badge
  BY <1>1, ShowBadgePage, OpenStreamPage, LoseStreamPage, ShowThreadPage
  DEF QuietPage, BadgeInv, OthersStream, FetchRows, FetchTotal, ShowBadge
<1>7. UnheardInv'
  BY <1>2, <1>6, UnheardStep DEF BadgeInv, ReadBadge
<1>8. ShownCount'
  <2> SUFFICES ASSUME Serial', unheard' = {}
               PROVE  /\ page'.at = "counted" => page'.count = Count
                      /\ page'.at \in {"opening", "open"} => page'.badge = Count \/ Owed'
    BY <1>3 DEF ShownCount
  <2>1. CASE ReadBadge
    BY <1>1, <2>1, ReadBadgePage DEF BadgeInv
  <2>2. CASE page'.at = "counting"
    BY <2>2
  <2>3. CASE page'.at # "counting" /\ ~ReadBadge
    <3>1. page.at # "counting"
      BY <1>6, <2>3
    <3>2. unheard = {}
      BY <3>1, NothingUnheard DEF BadgeInv
    <3>3. /\ page.at = "counted" => page.count = Count
          /\ page.at \in {"opening", "open"} => page.badge = Count \/ Owed
      BY <1>3, <3>2 DEF BadgeInv, ShownCount
    <3>4. QED BY <1>4, <1>6, <2>3, <3>3
  <2>4. QED BY <2>1, <2>2, <2>3
<1>9. QED BY <1>3, <1>5, <1>7, <1>8 DEF BadgeInv

LEMMA ReadEventBadge ==
  ASSUME BadgeInv, CallsInv, FanInv, Watch, ReadEvent PROVE BadgeInv'
<1>1. ServerInv
  BY DEF BadgeInv, ServerInv
<1>2. /\ UNCHANGED <<call, inbox, mix>>
      /\ \A m \in Sent(wire)' : m \in Sent(wire) \/ m.type = "reply"
      /\ \A m \in Sent(wire) : m.type = "notification" => m \in Sent(wire)' \/ m = Head(wire)
  BY ElsewhereSent
<1>3. KindsInv' /\ BeforeInv' /\ SentInv' /\ CountInv' /\ (Serial' => Serial) /\ Count' = Count
  BY <1>1, <1>2, ElsewhereBadge
<1>4. /\ PageOK' /\ page'.at = page.at /\ page'.count = page.count
      /\ \/ /\ page.stream \in Listening /\ Head(wire).type = "notification"
            /\ page'.badge = Head(wire).unread
         \/ /\ page.stream \notin Listening \/ Head(wire).type # "notification"
            /\ page'.badge = page.badge
  BY ReadEventPage DEF BadgeInv
<1>5. Head(wire) \in Sent(wire) /\ Head(wire).type # "reply"
  BY SentSteps DEF ReadEvent
<1>6. UnheardInv'
  BY <1>2, <1>4, UnheardStep DEF BadgeInv
<1>7. ShownCount'
  <2> SUFFICES ASSUME Serial', unheard' = {}
               PROVE  /\ page'.at = "counted" => page'.count = Count
                      /\ page'.at \in {"opening", "open"} => page'.badge = Count \/ Owed'
    BY <1>3 DEF ShownCount
  <2> SUFFICES ASSUME page.at # "counting"
               PROVE  /\ page.at = "counted" => page.count = Count
                      /\ page.at \in {"opening", "open"} => page'.badge = Count \/ Owed'
    BY <1>4
  <2>1. unheard = {} /\ \A c \in Calls : UnderWay(c) \/ InFlight(c) => Hearing
    BY NothingUnheard DEF BadgeInv
  <2>2. /\ page.at = "counted" => page.count = Count
        /\ page.at \in {"opening", "open"} => page.badge = Count \/ Owed
    BY <1>3, <2>1 DEF BadgeInv, ShownCount
  <2>3. Hearing
    <3>1. Head(wire).by \in Calls
      BY <1>5 DEF BadgeInv, SentInv
    <3>2. InFlight(Head(wire).by)
      BY <1>5, <3>1, InFlightSent
    <3>3. QED BY <2>1, <3>1, <3>2
  <2>4. CASE Head(wire).type = "notification"
    <3>1. Head(wire).unread = Count
      BY <1>3, <1>5, <2>4 DEF BadgeInv, CountInv
    <3>2. page'.badge = Count
      BY <1>4, <2>3, <2>4, <3>1 DEF Hearing
    <3>3. QED BY <2>2, <3>2
  <2>5. CASE Head(wire).type # "notification"
    <3>1. Owed => Owed'
      BY <1>2, <2>5, SameOwed
    <3>2. QED BY <1>4, <2>2, <2>5, <3>1
  <2>6. QED BY <2>4, <2>5
<1>8. QED BY <1>3, <1>4, <1>6, <1>7 DEF BadgeInv

LEMMA AnswersBadge ==
  ASSUME BadgeInv, CallsInv, FanInv, Watch, NEW c \in Calls, Answer(c) PROVE BadgeInv'
<1>1. ServerInv /\ RowsOK
  BY DEF BadgeInv, ServerInv, CallsInv
<1>2. /\ KindsInv' /\ BeforeInv' /\ SentInv' /\ CountInv' /\ (Serial' => Serial)
      /\ Count' = Count /\ UNCHANGED mix
      /\ call[c].kind \notin {"readOne", "readAll"} => (Owed => Owed')
  BY <1>1, AnswerBadge
<1>3. /\ PageOK' /\ page'.at = page.at /\ page'.count = page.count
      /\ page'.badge = IF call[c].kind = "readAll" THEN 0
                       ELSE IF call[c].kind \in {"readOne", "panel"} THEN call[c].unread
                       ELSE page.badge
  BY <1>1, AnswerPage DEF BadgeInv
<1>4. UnheardInv'
  BY <1>2, <1>3, UnheardStep DEF BadgeInv
<1>5. ShownCount'
  <2> SUFFICES ASSUME Serial', unheard' = {}
               PROVE  /\ page'.at = "counted" => page'.count = Count
                      /\ page'.at \in {"opening", "open"} => page'.badge = Count \/ Owed'
    BY <1>2 DEF ShownCount
  <2> SUFFICES ASSUME page.at # "counting"
               PROVE  /\ page.at = "counted" => page.count = Count
                      /\ page.at \in {"opening", "open"} => page'.badge = Count \/ Owed'
    BY <1>3
  <2>1. unheard = {}
    BY NothingUnheard DEF BadgeInv
  <2>2. /\ page.at = "counted" => page.count = Count
        /\ page.at \in {"opening", "open"} => page.badge = Count \/ Owed
    BY <1>2, <2>1 DEF BadgeInv, ShownCount
  <2>3. Right(call[c], Count) /\ call[c].at = "answered"
    BY <1>2 DEF BadgeInv, CountInv, Answer
  <2>4. CASE call[c].kind \in InboxKinds
    <3>1. page'.badge = Count
      BY <1>3, <2>3, <2>4 DEF Right, InboxKinds
    <3>2. QED BY <2>2, <3>1
  <2>5. CASE call[c].kind \notin InboxKinds
    BY <1>2, <1>3, <2>2, <2>5 DEF InboxKinds
  <2>6. QED BY <2>4, <2>5
<1>6. QED BY <1>2, <1>3, <1>4, <1>5 DEF BadgeInv

LEMMA ServerStepBadge ==
  ASSUME BadgeInv, CallsInv, FanInv, Watch, ServerStep PROVE BadgeInv'
<1>1. ServerInv /\ PageOK' /\ UNCHANGED page
  BY DEF BadgeInv, ServerInv, ServerStep, PageOK
<1>2. CASE Trash \/ (FanoutStep /\ UNCHANGED server)
  <2>1. /\ UNCHANGED <<call, inbox, mix>>
        /\ \A m \in Sent(wire)' : m \in Sent(wire) \/ m.type = "reply"
        /\ \A m \in Sent(wire) : m.type = "notification" =>
             m \in Sent(wire)' \/ (ReadEvent /\ m = Head(wire))
    BY <1>2, ElsewhereSent
  <2>2. KindsInv' /\ BeforeInv' /\ SentInv' /\ CountInv' /\ (Serial' => Serial) /\ Count' = Count
    BY <1>1, <2>1, ElsewhereBadge
  <2>3. Owed => Owed'
    <3>1. \A m \in Sent(wire) : m.type = "notification" => m \in Sent(wire)'
      <4>1. CASE Trash
        BY <4>1 DEF Trash, fanout, Sent
      <4>2. CASE RedisObeys
        BY <4>2, SentSteps
      <4>3. CASE ReadReply
        <5>1. Sent(wire) = Sent(wire)' \cup {Head(wire)} /\ Head(wire).type = "reply"
          BY <4>3, SentSteps DEF ReadReply
        <5>2. QED BY <5>1
      <4>4. CASE \E s \in Streams : Resume(s)
        BY <4>4 DEF Resume, Sent
      <4>5. QED BY <1>2, <4>1, <4>2, <4>3, <4>4 DEF FanoutStep
    <3>2. QED BY <2>1, <3>1, SameOwed
  <2>4. UnheardInv'
    BY <1>1, <2>1, UnheardStep DEF BadgeInv
  <2>5. ShownCount'
    <3> SUFFICES ASSUME Serial', unheard' = {}, page.at # "counting"
                 PROVE  /\ page.at = "counted" => page.count = Count
                        /\ page.at \in {"opening", "open"} => page.badge = Count \/ Owed'
      BY <1>1, <2>2 DEF ShownCount
    <3>1. unheard = {}
      BY NothingUnheard DEF BadgeInv
    <3>2. QED BY <2>2, <2>3, <3>1 DEF BadgeInv, ShownCount
  <2>6. QED BY <1>1, <2>2, <2>4, <2>5 DEF BadgeInv
<1>3. ASSUME NEW c \in Calls, CallStep(c) PROVE BadgeInv'
  <2>1. ServerBadge(c)
    BY <1>1, <1>3, CallStepBadge
  <2>2. UnheardInv'
    BY <1>1, <2>1, UnheardStep DEF BadgeInv, ServerBadge
  <2>3. ShownCount'
    <3> SUFFICES ASSUME Serial', unheard' = {}, page.at # "counting"
                 PROVE  /\ page.at = "counted" => page.count = Count'
                        /\ page.at \in {"opening", "open"} => page.badge = Count' \/ Owed'
      BY <1>1 DEF ShownCount
    <3>1. unheard = {} /\ (UnderWay(c) => Hearing)
      BY NothingUnheard DEF BadgeInv
    <3>2. Serial
      BY <2>1 DEF ServerBadge
    <3>3. /\ page.at = "counted" => page.count = Count
          /\ page.at \in {"opening", "open"} => page.badge = Count \/ Owed
      BY <3>1, <3>2 DEF BadgeInv, ShownCount
    <3>4. CASE page.at = "counted"
      <4>1. ~UnderWay(c)
        BY <3>1, <3>4 DEF Hearing
      <4>2. QED BY <2>1, <3>3, <3>4, <4>1 DEF ServerBadge, Brought
    <3>5. CASE page.at # "counted"
      <4>1. UnderWay(c) => subscribed
        BY <3>1 DEF Hearing
      <4>2. QED BY <2>1, <3>2, <3>3, <3>5, <4>1 DEF ServerBadge, Brought
    <3>6. QED BY <3>4, <3>5
  <2>4. QED BY <1>1, <2>1, <2>2, <2>3 DEF BadgeInv, ServerBadge
<1>4. QED BY <1>2, <1>3 DEF ServerStep

LEMMA BadgeInvariant ==
  ASSUME BadgeInv, CallsInv, FanInv, [Next]_vars PROVE BadgeInv'
<1>1. CASE Next
  BY <1>1, QuietPageBadge, ReadEventBadge, AnswersBadge, ServerStepBadge
  DEF Next, PageStep, QuietPage
<1>2. CASE UNCHANGED vars
  <2>1. /\ UNCHANGED <<call, inbox, mix, wire, page, mine, fetch, unheard>>
        /\ UNCHANGED <<streams, registered, members, subscribed>>
    BY <1>2 DEF vars, server, rows, rest, fanout, ghosts
  <2>2. Sent(wire)' = Sent(wire) /\ ServerInv
    BY <2>1 DEF Sent, BadgeInv, ServerInv
  <2>3. KindsInv' /\ BeforeInv' /\ SentInv' /\ CountInv' /\ (Serial' => Serial) /\ Count' = Count
    BY <2>1, <2>2, ElsewhereBadge
  <2>4. Owed => Owed'
    BY <2>1, <2>2, SameOwed
  <2>5. (Hearing' <=> Hearing) /\ AtWork' = AtWork /\ (Uses({"streams"})' <=> Uses({"streams"}))
    BY <2>1 DEF Hearing, Listening, AtWork, UnderWay, InFlight, Uses
  <2>6. QED BY <2>1, <2>3, <2>4, <2>5 DEF BadgeInv, PageOK, UnheardInv, ShownCount
<1>3. QED BY <1>1, <1>2

LEMMA InitBadge == Init => BadgeInv
<1> SUFFICES ASSUME Init PROVE BadgeInv
  OBVIOUS
<1>1. CallsInv
  BY InitCalls
<1>2. \A c \in Calls : call[c] = NoCall
  BY DEF Init, CollaborationInit
<1>3. /\ NoCall.kind = "none" /\ NoCall.at = "idle" /\ ~NoCall.ok /\ NoCall.before = {}
      /\ ~NoCall.page
  BY DEF NoCall
<1>4. Sent(wire) = {}
  BY DEF Sent, Init, FanoutInit
<1>5. KindsInv /\ BeforeInv /\ SentInv
  BY <1>2, <1>3, <1>4 DEF KindsInv, Fits, InboxKinds, BeforeInv, SentInv
<1>6. CountInv
  BY <1>2, <1>3, <1>4 DEF CountInv, Right
<1>7. /\ page.at = "counting" /\ page \in Page
  <2>1. PICK shown, total : shown = Thread /\ total = Cardinality(LiveComments)
    OBVIOUS
  <2>2. shown \in SUBSET Shown /\ total \in Nat
    BY <1>1, <2>1, ThreadIsShown DEF CallsInv
  <2>3. page = [at |-> "counting", stream |-> None, count |-> 0, badge |-> 0,
                shown |-> shown, total |-> total]
    BY <2>1, Zenon DEF Init
  <2>4. QED BY <2>2, <2>3 DEF Page
<1>8. PageOK
  BY <1>7, NoFetchIsFetch DEF Init, PageOK
<1>9. AtWork = {}
  BY <1>2, <1>3, <1>4, InFlightSent DEF AtWork, UnderWay
<1>10. UnheardInv /\ ShownCount
  BY <1>7, <1>9 DEF UnheardInv, ShownCount
<1>11. QED BY <1>5, <1>6, <1>8, <1>10 DEF BadgeInv

\* When nothing is under way any more, nobody owes the page the count.
LEMMA BadgeInvCurrent == ASSUME BadgeInv, CallsInv PROVE BadgeCurrent
<1> SUFFICES ASSUME Quiet, unheard = {}, ~Crossing(AllCallKinds)
             PROVE  page.badge = Cardinality(Unread(Me))
  BY DEF BadgeCurrent
<1>1. \A c \in Calls : call[c].at \in {"idle", "done"}
  BY DEF Quiet
<1>2. Sent(wire) = {}
  BY DEF Quiet, Sent
<1>3. Serial
  <2>1. ASSUME NEW c \in Calls, Touched(c) PROVE Answered(c, AllCallKinds)
    <3>1. call[c].ok
      BY <1>1, <2>1 DEF Touched, Touch, Written
    <3>2. Fits(call[c])
      BY DEF BadgeInv, KindsInv
    <3>3. QED BY <3>1, <3>2 DEF Fits, Answered
  <2>2. QED BY <2>1 DEF Serial, Crossing
<1>4. ~Owed
  BY <1>1, <1>2 DEF Owed, Bringing
<1>5. page.at = "open"
  BY DEF Quiet, Hearing
<1>6. QED BY <1>3, <1>4, <1>5 DEF BadgeInv, ShownCount, Count

-----------------------------------------------------------------------------
(* The thread: what its invariant says.                                     *)

\* A call on the thread that has written, by what its record v says.
ToldOf(v) == v.kind \in ThreadKinds /\ Written(v)
Told(c) == ToldOf(call[c])

\* The calls on the thread came one after the other.
InTurn == \A c, d \in Calls : Told(c) /\ Told(d) => ~Overlap(c, d)

\* Everything was heard, and nothing of the page's own met a refetch.
Heard == Uses({"streams"}) /\ missed = {} /\ crossed = {} /\ InTurn

MissedInv == Uses({"streams"}) /\ ~Hearing => AtWork \subseteq missed
CrossedInv == Uses({"streams"}) /\ fetch.asked => OwnAtWork \subseteq crossed
GotInv == fetch.got # {} => fetch.asked

\* Who was under way when a comment was deleted was so together with the call
\* that deleted it.
LateInv ==
  \A k \in Comments : comments[k].deleted # None =>
    /\ comments[k].deleted \in Calls
    /\ Told(comments[k].deleted)
    /\ \A c \in late[k] : call[c].at # "idle"
    /\ \A c \in late[k] : c = comments[k].deleted \/ Overlap(c, comments[k].deleted)

\* A call of the page that has written and is not over for the page.
Active(c) == Told(c) /\ call[c].page /\ call[c].at # "done"

\* The event of what the page wrote is not read before the answer, and what it
\* keeps to pass over is on its way.
OwnSentInv ==
  Heard => \A c \in Calls :
    Active(c) /\ call[c].at \in {"count", "tell", "answered"} => Changed(c) \in Sent(wire)

MineInv ==
  Heard => \A k \in mine : \E c \in Calls :
    /\ Told(c) /\ call[c].page /\ call[c].at = "done" /\ About(c) = k
    /\ Changed(c) \in Sent(wire)

\* Somebody else has written, and the page is going to hear of it.
Pending ==
  \E d \in Calls : /\ Told(d) /\ ~call[d].page
                   /\ call[d].at \in {"record", "announce"} \/ Changed(d) \in Sent(wire)

Live == Cardinality(LiveComments)

\* What the thread is short of, by a call of the page that is not answered.
Owes(v, c) ==
  /\ v.kind = "create" => Thread = page.shown \cup {<<c, c>>} /\ Live = page.total + 1
  /\ v.kind = "update" => /\ Thread = Without(v.target) \cup {<<v.target, c>>}
                          /\ Without(v.target) # page.shown /\ Live = page.total
  /\ v.kind = "remove" => Thread = Without(v.target) /\ page.total = Live + 1

Current == page.shown = Thread /\ page.total = Live

Fetching == /\ fetch.asked
            /\ "rows" \in fetch.got => fetch.shown = Thread
            /\ "total" \in fetch.got => fetch.total = Live

OwesInv == Heard => \A c \in Calls : Active(c) => ~fetch.asked /\ Owes(call[c], c)

ShownInv ==
  Heard /\ (\A c \in Calls : ~Active(c)) =>
    Pending \/ Fetching \/ (~fetch.asked /\ Current)

ThreadInv == /\ MissedInv /\ CrossedInv /\ GotInv /\ LateInv
             /\ OwnSentInv /\ MineInv /\ OwesInv /\ ShownInv

-----------------------------------------------------------------------------
(* The thread: how a call moves.                                            *)

\* Any call takes a step.
Moved(c) ==
  /\ call' \in [Calls -> Call]
  /\ \A d \in Calls : d # c => call'[d] = call[d]
  /\ ~Over(c)
  /\ call'[c].at # "idle"
  /\ \A d \in call'[c].before : d \in call[c].before \/ (call[c].at = "idle" /\ Over(d))
  /\ Past(c) => Past(c)' /\ Kin(call[c], call'[c])
  /\ Sent(wire) \subseteq Sent(wire)'

\* A step that says nothing new of the thread, but perhaps sends the event.
Keeping(c, u, v) ==
  /\ ToldOf(v) <=> ToldOf(u)
  /\ ToldOf(u) => Kin(u, v)
  /\ ToldOf(u) /\ u.page => (v.at = "done" <=> u.at = "done")
  /\ ToldOf(u) /\ u.at \in {"record", "announce"} /\ v.at \notin {"record", "announce"} =>
       (subscribed => Changed(c) \in Sent(wire)')
  /\ ToldOf(u) /\ u.at \notin {"record", "announce"} => v.at \notin {"record", "announce"}

LEMMA TellMoves ==
  ASSUME CallsInv, NEW c \in Calls, TellStep(c)
  PROVE  \E v \in Call :
           /\ call' = [call EXCEPT ![c] = v]
           /\ Kin(call[c], v)
           /\ \/ Record(c) /\ v.at = "announce"
              \/ CountUnread(c) /\ v.at = "tell"
              \/ Announce(c) /\ v.at = "count"
              \/ /\ Announce(c) \/ Tell(c)
                 /\ v.at \in {"answered", "done"} /\ v.ok
                 /\ v.at = "answered" <=> call[c].page
<1>1. CASE Record(c)
  <2>1. \E v \in Call : /\ call' = [call EXCEPT ![c] = v]
                        /\ Kin(call[c], v) /\ v.at = "announce" /\ v.ok = call[c].ok
                        /\ v.told = call[c].told
    BY <1>1, GotoMoves DEF Record, CallSteps, CallsInv
  <2>2. QED BY <1>1, <2>1
<1>2. CASE CountUnread(c)
  <2>1. PICK n \in Nat : n = Cardinality(Unread(Me))
    BY NotesAreFinite DEF CallsInv
  <2>2. Counting(c, "tell", n)
    BY <1>2, <2>1 DEF CountUnread, Counting
  <2>3. PICK v \in Call : /\ call' = [call EXCEPT ![c] = v]
                          /\ Kin(call[c], v) /\ v.at = "tell" /\ v.ok = call[c].ok
                          /\ v.unread = n
    BY <2>2, UnreadMoves DEF CallSteps, CallsInv
  <2>4. QED BY <1>2, <2>3
<1>3. CASE (Announce(c) \/ Tell(c)) /\ Finish(c)
  <2>1. PICK v \in Call : /\ call' = [call EXCEPT ![c] = v]
                          /\ Kin(call[c], v) /\ v.at \in {"answered", "done"} /\ v.ok
                          /\ v.at = "answered" <=> call[c].page
    BY <1>3, FinishMoves DEF CallsInv
  <2>2. QED BY <1>3, <2>1
<1>4. CASE Announce(c) /\ Goto(c, "count")
  <2>1. PICK v \in Call : /\ call' = [call EXCEPT ![c] = v]
                          /\ Kin(call[c], v) /\ v.at = "count" /\ v.ok = call[c].ok
                          /\ v.told = call[c].told
    BY <1>4, GotoMoves DEF CallSteps, CallsInv
  <2>2. QED BY <1>4, <2>1
<1>5. QED BY <1>1, <1>2, <1>3, <1>4 DEF TellStep, Announce, Tell

LEMMA InboxMoves ==
  ASSUME CallsInv, NEW c \in Calls, WriteRead(c) \/ ReadPanel(c)
  PROVE  \E v \in Call : /\ call' = [call EXCEPT ![c] = v]
                         /\ Kin(call[c], v) /\ v.at \in {"find", "answered", "done"}
<1>1. CASE WriteRead(c) /\ Finish(c)
  <2>1. PICK v \in Call : /\ call' = [call EXCEPT ![c] = v]
                          /\ Kin(call[c], v) /\ v.at \in {"answered", "done"} /\ v.ok
                          /\ v.at = "answered" <=> call[c].page
    BY <1>1, FinishMoves DEF CallsInv
  <2>2. QED BY <2>1
<1>2. CASE WriteRead(c) /\ Goto(c, "find")
  <2>1. PICK v \in Call : /\ call' = [call EXCEPT ![c] = v]
                          /\ Kin(call[c], v) /\ v.at = "find" /\ v.ok = call[c].ok
                          /\ v.told = call[c].told
    BY <1>2, GotoMoves DEF CallSteps, CallsInv
  <2>2. QED BY <2>1
<1>3. CASE ReadPanel(c)
  <2>1. PICK n \in Nat : n = Cardinality(Unread(Me))
    BY NotesAreFinite DEF CallsInv
  <2>2. call' = [call EXCEPT ![c].at = "answered", ![c].ok = TRUE, ![c].unread = n]
    BY <1>3, <2>1 DEF ReadPanel
  <2>3. PICK v \in Call : /\ call' = [call EXCEPT ![c] = v]
                          /\ Kin(call[c], v) /\ v.at = "answered" /\ v.ok
                          /\ v.unread = n
    BY <2>2, PanelMoves DEF CallsInv
  <2>4. QED BY <2>3
<1>4. QED BY <1>1, <1>2, <1>3 DEF WriteRead

LEMMA CallStepKeeps ==
  ASSUME CallsInv, KindsInv, FanInv, NEW c \in Calls, CallStep(c)
  PROVE  /\ Moved(c)
         /\ \/ UNCHANGED <<comments, late>> /\ Keeping(c, call[c], call'[c])
            \/ /\ ThreadWrite(c) /\ UNCHANGED fanout
               /\ ~Past(c) /\ Kin(call[c], call'[c]) /\ call'[c].at = "record"
<1>1. PICK u \in Call : u = call[c] /\ Fits(u) /\ CallInv(c, u)
  BY DEF CallsInv, RowsOK, KindsInv
<1>2. CASE Works(c)
  <2>1. PICK v \in Call :
          /\ call' = [call EXCEPT ![c] = v]
          /\ Working(call[c], v)
          /\ \/ UNCHANGED <<comments, late>> /\ (v.kind \in ThreadKinds => ~Written(v))
             \/ ThreadWrite(c) /\ Kin(call[c], v) /\ v.at = "record"
    BY <1>2 DEF Works
  <2>2. UNCHANGED fanout /\ Sent(wire)' = Sent(wire)
    BY <1>2 DEF Works, fanout, Sent
  <2>3. /\ call' \in [Calls -> Call] /\ call'[c] = v
        /\ \A d \in Calls : d # c => call'[d] = call[d]
    BY <2>1, CallPut DEF CallsInv
  <2>4. ~Past(c) /\ ~Over(c)
    BY <2>1 DEF Working, Touch, Past, Written, Over
  <2>5. Moved(c)
    BY <2>1, <2>2, <2>3, <2>4 DEF Moved, Working
  <2>6. CASE UNCHANGED <<comments, late>> /\ (v.kind \in ThreadKinds => ~Written(v))
    <3>1. ~ToldOf(u) /\ ~ToldOf(v)
      BY <1>1, <2>4, <2>6 DEF ToldOf, Past
    <3>2. Keeping(c, u, v)
      BY <3>1 DEF Keeping
    <3>3. QED BY <1>1, <2>3, <2>5, <2>6, <3>2
  <2>7. CASE ThreadWrite(c) /\ Kin(call[c], v) /\ v.at = "record"
    BY <2>2, <2>3, <2>4, <2>5, <2>7
  <2>8. QED BY <2>1, <2>6, <2>7
<1>3. CASE TellStep(c)
  <2>1. PICK v \in Call :
          /\ call' = [call EXCEPT ![c] = v]
          /\ Kin(call[c], v)
          /\ \/ Record(c) /\ v.at = "announce"
             \/ CountUnread(c) /\ v.at = "tell"
             \/ Announce(c) /\ v.at = "count"
             \/ /\ Announce(c) \/ Tell(c)
                /\ v.at \in {"answered", "done"} /\ v.ok
                /\ v.at = "answered" <=> call[c].page
    BY <1>3, TellMoves
  <2>2. /\ call' \in [Calls -> Call] /\ call'[c] = v
        /\ \A d \in Calls : d # c => call'[d] = call[d]
    BY <2>1, CallPut DEF CallsInv
  <2>3. u.at \in {"record", "announce", "count", "tell"} /\ ~u.ok
    BY <1>1, <1>3 DEF TellStep, Record, Announce, CountUnread, Tell, CallInv, Hand
  <2>4. Written(u) /\ Written(v) /\ v.at # "idle" /\ v.before = u.before /\ v.kind = u.kind
        /\ (u.page => v.at # "done")
    BY <1>1, <2>1, <2>3 DEF Written, Kin
  <2>5. /\ UNCHANGED <<comments, late>>
        /\ Sent(wire) \subseteq Sent(wire)'
        /\ Announce(c) => (subscribed => Changed(c) \in Sent(wire)')
    <3>1. Changed(c) \in Event
          /\ [type |-> "notification", unread |-> call[c].unread, by |-> c] \in Event
      BY PublishedEvents
    <3>2. CASE Record(c) \/ CountUnread(c)
      <4>1. UNCHANGED <<wire, comments, late>>
        BY <3>2 DEF Record, CountUnread, Reads, rows, rest, fanout
      <4>2. ~Announce(c)
        BY <3>2 DEF Record, CountUnread, Announce
      <4>3. QED BY <4>1, <4>2 DEF Sent
    <3>3. CASE Announce(c)
      <4>1. Publish(Changed(c)) /\ UNCHANGED <<comments, late>>
        BY <3>3 DEF Announce, rows, rest
      <4>2. QED BY <3>1, <4>1, SentSteps
    <3>4. CASE Tell(c)
      <4>1. /\ Publish([type |-> "notification", unread |-> call[c].unread, by |-> c])
            /\ UNCHANGED <<comments, late>>
        BY <3>4 DEF Tell, rows, rest
      <4>2. ~Announce(c)
        BY <3>4 DEF Tell, Announce
      <4>3. QED BY <3>1, <4>1, <4>2, SentSteps
    <3>5. QED BY <1>3, <3>2, <3>3, <3>4 DEF TellStep
  <2>6. ~Over(c)
    BY <1>1, <2>3 DEF Over
  <2>7. Moved(c)
    BY <1>1, <2>1, <2>2, <2>4, <2>5, <2>6 DEF Moved, Past
  <2>8. u.at \in {"record", "announce"} /\ v.at \notin {"record", "announce"} => Announce(c)
    BY <1>1, <2>1 DEF Record, CountUnread, Tell
  <2>9. u.at \notin {"record", "announce"} => v.at \notin {"record", "announce"}
    BY <1>1, <2>1 DEF Record, CountUnread, Tell
  <2>10. Keeping(c, u, v)
    BY <1>1, <2>1, <2>3, <2>4, <2>5, <2>8, <2>9 DEF Keeping, ToldOf
  <2>11. QED BY <1>1, <2>2, <2>5, <2>7, <2>10
<1>4. CASE WriteRead(c) \/ ReadPanel(c)
  <2>1. PICK v \in Call : /\ call' = [call EXCEPT ![c] = v]
                          /\ Kin(call[c], v) /\ v.at \in {"find", "answered", "done"}
    BY <1>4, InboxMoves
  <2>2. /\ call' \in [Calls -> Call] /\ call'[c] = v
        /\ \A d \in Calls : d # c => call'[d] = call[d]
    BY <2>1, CallPut DEF CallsInv
  <2>3. u.at \in {"write", "find"} /\ u.kind \in InboxKinds /\ ~u.ok
    BY <1>1, <1>4 DEF WriteRead, ReadPanel, At, InboxKinds, CallInv, Hand
  <2>4. ~Past(c) /\ ~Over(c) /\ v.before = u.before /\ v.kind = u.kind
    BY <1>1, <2>1, <2>3 DEF Past, Written, Over, Kin
  <2>5. UNCHANGED <<comments, late>> /\ Sent(wire)' = Sent(wire)
    BY <1>4 DEF WriteRead, ReadPanel, Reads, rows, rest, fanout, Sent
  <2>6. Moved(c)
    BY <1>1, <2>1, <2>2, <2>4, <2>5 DEF Moved
  <2>7. ~ToldOf(u) /\ ~ToldOf(v)
    BY <2>3, <2>4 DEF ToldOf, InboxKinds, ThreadKinds
  <2>8. Keeping(c, u, v)
    BY <2>7 DEF Keeping
  <2>9. QED BY <1>1, <2>2, <2>5, <2>6, <2>8
<1>5. QED BY <1>2, <1>3, <1>4, CallStepWorks

-----------------------------------------------------------------------------
(* The thread: what stands when a call moves.                               *)

\* Whatever the next state does not know to have gone by unheard had not gone by
\* unheard before.
LEMMA HeardBefore ==
  ASSUME MissedInv, CrossedInv, UNCHANGED mix, missed \subseteq missed', crossed \subseteq crossed',
         \A d \in Calls : Told(d) => Told(d)' /\ call'[d].before = call[d].before,
         Heard'
  PROVE  /\ Heard
         /\ \A d \in Calls : UnderWay(d) \/ InFlight(d) => Hearing
         /\ fetch.asked => OwnAtWork = {}
<1>1. Uses({"streams"})
  BY DEF Uses, Heard
<1>2. missed = {} /\ crossed = {}
  BY DEF Heard
<1>3. InTurn
  <2>1. InTurn'
    BY DEF Heard
  <2>2. QED BY <2>1 DEF InTurn, Overlap
<1>4. \A d \in Calls : UnderWay(d) \/ InFlight(d) => Hearing
  BY <1>1, <1>2 DEF MissedInv, AtWork
<1>5. fetch.asked => OwnAtWork = {}
  BY <1>1, <1>2 DEF CrossedInv
<1>6. QED BY <1>1, <1>2, <1>3, <1>4, <1>5 DEF Heard

LEMMA WatchGrows ==
  ASSUME Watch, UNCHANGED mix
  PROVE  missed \subseteq missed' /\ crossed \subseteq crossed' /\ MissedInv' /\ CrossedInv'
<1>1. Uses({"streams"})' <=> Uses({"streams"})
  BY DEF Uses
<1>2. CASE Uses({"streams"})
  <2>1. WatchCalls
    BY <1>2 DEF Watch
  <2>2. /\ missed' = missed \cup (IF Hearing' THEN {} ELSE AtWork')
        /\ crossed' = crossed \cup (IF fetch'.asked THEN OwnAtWork' ELSE {})
    BY <2>1 DEF WatchCalls
  <2>3. QED BY <2>2 DEF MissedInv, CrossedInv
<1>3. CASE ~Uses({"streams"})
  BY <1>1, <1>3 DEF Watch, ghosts, MissedInv, CrossedInv
<1>4. QED BY <1>2, <1>3

\* Of the calls that have written no two are at work.
LEMMA OneAtWork ==
  ASSUME BeforeInv, InTurn, NEW c \in Calls, NEW d \in Calls,
         Told(c), Told(d), ~Over(c), ~Over(d)
  PROVE  c = d
<1>1. c \notin call[d].before /\ d \notin call[c].before
  BY DEF BeforeInv
<1>2. ~Overlap(c, d)
  BY DEF InTurn
<1>3. QED BY <1>1, <1>2 DEF Overlap

LEMMA ToldChanges ==
  ASSUME NEW c \in Calls, Told(c)
  PROVE  Changed(c).type = "comment" /\ Changed(c).about = About(c) /\ Changed(c).by = c
BY DEF Told, ToldOf, ThreadKinds, Changed

LEMMA ChangedStays ==
  ASSUME NEW c \in Calls, Kin(call[c], call'[c])
  PROVE  Changed(c)' = Changed(c) /\ About(c)' = About(c)
BY DEF Kin, Changed, About

\* What was said is on its way: the call is not over.
LEMMA SaidNotOver ==
  ASSUME NEW c \in Calls, Told(c), Changed(c) \in Sent(wire)
  PROVE  ~Over(c)
<1>1. InFlight(c)
  BY ToldChanges, InFlightSent
<1>2. QED BY <1>1 DEF Over

\* Where a call that has written can be.
LEMMA ToldIsAt ==
  ASSUME CallsInv, NEW c \in Calls, Told(c)
  PROVE  /\ call[c].at \in {"record", "announce", "count", "tell", "answered", "done"}
         /\ call[c].at \in {"answered", "done"} => call[c].ok
BY DEF CallsInv, CallInv, Hand, Told, ToldOf, Written

\* Nothing new is written, shown or fetched, and no event is read.
LEMMA ThreadStays ==
  ASSUME CallsInv, ThreadInv, Heard' => Heard /\ \A d \in Calls : UnderWay(d) => Hearing,
         UNCHANGED <<comments, mine, fetch>>, page'.shown = page.shown, page'.total = page.total,
         \A d \in Calls : Keeping(d, call[d], call'[d]),
         \A m \in Sent(wire) : m.type = "comment" => m \in Sent(wire)'
  PROVE  OwnSentInv' /\ MineInv' /\ OwesInv' /\ ShownInv'
<1> SUFFICES ASSUME Heard' PROVE OwnSentInv' /\ MineInv' /\ OwesInv' /\ ShownInv'
  BY DEF OwnSentInv, MineInv, OwesInv, ShownInv
<1>1. Heard /\ \A d \in Calls : UnderWay(d) => Hearing
  OBVIOUS
<1>2. ASSUME NEW d \in Calls, Told(d)
      PROVE  /\ Told(d)' /\ Kin(call[d], call'[d]) /\ Changed(d)' = Changed(d)
             /\ About(d)' = About(d)
             /\ Changed(d) \in Sent(wire) => Changed(d) \in Sent(wire)'
  <2>1. Told(d)' /\ Kin(call[d], call'[d])
    BY <1>2 DEF Keeping, Told
  <2>2. QED BY <1>2, <2>1, ToldChanges, ChangedStays
<1>3. \A d \in Calls : Told(d)' => Told(d)
  BY DEF Keeping, Told
<1>4. ASSUME NEW d \in Calls, Told(d), call[d].at \in {"record", "announce"},
             call'[d].at \notin {"record", "announce"}
      PROVE  Changed(d) \in Sent(wire)'
  <2>1. UnderWay(d)
    BY <1>4 DEF UnderWay
  <2>2. subscribed
    BY <1>1, <2>1 DEF Hearing
  <2>3. QED BY <1>4, <2>2 DEF Keeping, Told
<1>5. \A d \in Calls : Active(d)' <=> Active(d)
  BY <1>2, <1>3 DEF Active, Kin, Keeping, Told
<1>6. Thread' = Thread /\ Live' = Live
  BY DEF Thread, Live, LiveComments
<1>7. OwnSentInv'
  <2> SUFFICES ASSUME NEW d \in Calls, Active(d)', call'[d].at \in {"count", "tell", "answered"}
               PROVE  Changed(d)' \in Sent(wire)'
    BY DEF OwnSentInv
  <2>1. Active(d) /\ Told(d)
    BY <1>5 DEF Active
  <2>2. CASE call[d].at \in {"record", "announce"}
    BY <1>2, <1>4, <2>1, <2>2
  <2>3. CASE call[d].at \notin {"record", "announce"}
    <3>1. call[d].at \in {"count", "tell", "answered"}
      BY <2>1, <2>3, ToldIsAt DEF Active
    <3>2. Changed(d) \in Sent(wire)
      BY <1>1, <2>1, <3>1 DEF ThreadInv, OwnSentInv
    <3>3. QED BY <1>2, <2>1, <3>2
  <2>4. QED BY <2>2, <2>3
<1>8. MineInv'
  <2> SUFFICES ASSUME NEW k \in mine
               PROVE  \E d \in Calls : /\ Told(d)' /\ call'[d].page /\ call'[d].at = "done"
                                       /\ About(d)' = k /\ Changed(d)' \in Sent(wire)'
    BY DEF MineInv
  <2>1. PICK d \in Calls : /\ Told(d) /\ call[d].page /\ call[d].at = "done" /\ About(d) = k
                           /\ Changed(d) \in Sent(wire)
    BY <1>1 DEF ThreadInv, MineInv
  <2>2. call'[d].at = "done" /\ call'[d].page
    BY <1>2, <2>1 DEF Keeping, Told, Kin
  <2>3. QED BY <1>2, <2>1, <2>2
<1>9. OwesInv'
  <2> SUFFICES ASSUME NEW d \in Calls, Active(d)' PROVE ~fetch.asked /\ Owes(call[d], d)'
    BY DEF OwesInv
  <2>1. Active(d) /\ Told(d)
    BY <1>5 DEF Active
  <2>2. ~fetch.asked /\ Owes(call[d], d)
    BY <1>1, <2>1 DEF ThreadInv, OwesInv
  <2>3. call'[d].kind = call[d].kind /\ call'[d].target = call[d].target
    BY <1>2, <2>1 DEF Kin
  <2>4. QED BY <1>6, <2>2, <2>3 DEF Owes, Without
<1>10. ShownInv'
  <2> SUFFICES ASSUME \A d \in Calls : ~Active(d)'
               PROVE  Pending' \/ Fetching' \/ (~fetch.asked /\ Current')
    BY DEF ShownInv
  <2>1. Pending \/ Fetching \/ (~fetch.asked /\ Current)
    BY <1>1, <1>5 DEF ThreadInv, ShownInv
  <2>2. ASSUME Pending PROVE Pending'
    <3>1. PICK d \in Calls : /\ Told(d) /\ ~call[d].page
                             /\ call[d].at \in {"record", "announce"} \/ Changed(d) \in Sent(wire)
      BY <2>2 DEF Pending
    <3>2. Told(d)' /\ ~call'[d].page
      BY <1>2, <3>1 DEF Kin
    <3>3. call'[d].at \in {"record", "announce"} \/ Changed(d)' \in Sent(wire)'
      BY <1>2, <1>4, <3>1
    <3>4. QED BY <3>2, <3>3 DEF Pending
  <2>3. Fetching => Fetching'
    BY <1>6 DEF Fetching
  <2>4. Current => Current'
    BY <1>6 DEF Current
  <2>5. QED BY <2>1, <2>2, <2>3, <2>4
<1>11. QED BY <1>7, <1>8, <1>9, <1>10

\* No comment is deleted.
LEMMA LateStays ==
  ASSUME CallsInv, LateInv,
         \A k \in Comments : comments'[k].deleted # None =>
           comments'[k].deleted = comments[k].deleted /\ late'[k] = late[k],
         \A d \in Calls : Told(d) => Told(d)',
         \A d \in Calls : call[d].at # "idle" =>
           call'[d].at # "idle" /\ \A e \in call'[d].before : e \in call[d].before
  PROVE  LateInv'
<1> SUFFICES ASSUME NEW k \in Comments, comments'[k].deleted # None
             PROVE  /\ comments'[k].deleted \in Calls
                    /\ Told(comments[k].deleted)'
                    /\ \A c \in late'[k] : call'[c].at # "idle"
                    /\ \A c \in late'[k] : c = comments'[k].deleted \/ Overlap(c, comments[k].deleted)'
  BY DEF LateInv
<1>1. PICK e : e = comments[k].deleted /\ e = comments'[k].deleted
  OBVIOUS
<1>2. /\ e \in Calls /\ Told(e)
      /\ \A c \in late[k] : call[c].at # "idle" /\ (c = e \/ Overlap(c, e))
  BY <1>1 DEF LateInv
<1>3. late'[k] = late[k] /\ late[k] \subseteq Calls
  BY DEF CallsInv, RowsOK
<1>4. call[e].at # "idle"
  BY <1>2, ToldIsAt
<1>5. ASSUME NEW c \in late[k] PROVE call'[c].at # "idle" /\ (c = e \/ Overlap(c, e)')
  <2>1. c \in Calls /\ call[c].at # "idle"
    BY <1>2, <1>3
  <2>2. Overlap(c, e) => Overlap(c, e)'
    BY <1>2, <1>4, <2>1 DEF Overlap
  <2>3. QED BY <1>2, <2>1, <2>2
<1>6. comments'[k].deleted \in Calls /\ Told(comments[k].deleted)'
  BY <1>1, <1>2 DEF Told
<1>7. \A c \in late'[k] : c = comments'[k].deleted \/ Overlap(c, comments[k].deleted)'
  BY <1>1, <1>3, <1>5 DEF Overlap
<1>8. QED BY <1>3, <1>5, <1>6, <1>7

-----------------------------------------------------------------------------
(* The thread: a call writes.                                               *)

LEMMA LiveIsFinite == IsFiniteSet(LiveComments) /\ Live \in Nat
<1>1. IsFiniteSet(Comments) /\ LiveComments \subseteq Comments
  BY FinitenessAssumption, FS_Union DEF Comments, LiveComments
<1>2. QED BY <1>1, FS_Subset, FS_CardinalityType DEF Live

LEMMA CreateWrites ==
  ASSUME CallsInv, NEW c \in Calls, InsertComment(c)
  PROVE  /\ Thread' = Thread \cup {<<c, c>>} /\ Live' = Live + 1
         /\ \A k \in Comments : comments'[k].deleted # None =>
              comments'[k].deleted = comments[k].deleted
<1>1. PICK u \in Call : u = call[c] /\ CallInv(c, u)
  BY DEF CallsInv, RowsOK
<1>2. u.at = "insert" /\ u.kind = "create"
  BY <1>1 DEF InsertComment, At
<1>3. u.who \in People /\ u.who # None /\ c \in Comments
  BY <1>1, <1>2, PeopleAssumption DEF CallInv, Hand, Comments
<1>4. comments[c].author = None
  <2>1. ~Past(c)
    BY <1>1, <1>2 DEF CallInv, Hand, Past, Written
  <2>2. QED BY <2>1 DEF CallsInv, MadeInv
<1>5. PICK r : r = [NoComment EXCEPT !.author = u.who, !.body = c]
  OBVIOUS
<1>6. r.author # None /\ r.body = c /\ r.deleted = None
  BY <1>3, <1>5 DEF NoComment
<1>7. comments' = [comments EXCEPT ![c] = r]
  BY <1>1, <1>5 DEF InsertComment
<1>8. comments'[c] = r /\ \A k \in Comments : k # c => comments'[k] = comments[k]
  BY <1>3, <1>7 DEF CallsInv, RowsOK
<1>9. LiveComments' = LiveComments \cup {c} /\ c \notin LiveComments
  BY <1>3, <1>4, <1>6, <1>8 DEF LiveComments
<1>10. Live' = Live + 1
  BY <1>9, LiveIsFinite, FS_AddElement DEF Live
<1>11. Thread' = Thread \cup {<<c, c>>}
  <2>1. \A k \in LiveComments : comments'[k] = comments[k]
    BY <1>8, <1>9 DEF LiveComments
  <2>2. QED BY <1>6, <1>8, <1>9, <2>1 DEF Thread
<1>12. QED BY <1>6, <1>8, <1>10, <1>11

LEMMA UpdateWrites ==
  ASSUME CallsInv, NEW c \in Calls, WriteBody(c), NEW k, k = call[c].target, k \in LiveComments
  PROVE  /\ Thread' = {x \in Thread : x[1] # k} \cup {<<k, c>>} /\ Live' = Live
         /\ <<k, comments[k].body>> \in Thread
<1>1. k \in Comments /\ comments[k] \in Comment
  BY DEF LiveComments, CallsInv, RowsOK
<1>2. PICK r \in Comment : r = comments[k]
  BY <1>1
<1>3. PICK s : s = [r EXCEPT !.body = c]
  OBVIOUS
<1>4. s.author = r.author /\ s.body = c /\ s.deleted = r.deleted
  BY <1>3 DEF Comment
<1>5. comments' = [comments EXCEPT ![k] = s]
  BY <1>2, <1>3 DEF WriteBody
<1>6. comments'[k] = s /\ \A j \in Comments : j # k => comments'[j] = comments[j]
  BY <1>1, <1>5 DEF CallsInv, RowsOK
<1>7. LiveComments' = LiveComments
  BY <1>1, <1>2, <1>4, <1>6 DEF LiveComments
<1>8. \A j \in LiveComments : comments'[j].body = IF j = k THEN c ELSE comments[j].body
  BY <1>4, <1>6 DEF LiveComments
<1>9. Thread' = {x \in Thread : x[1] # k} \cup {<<k, c>>}
  BY <1>7, <1>8 DEF Thread
<1>10. QED BY <1>7, <1>9 DEF Thread, Live

LEMMA RemoveWrites ==
  ASSUME CallsInv, NEW c \in Calls, WriteDeleted(c), NEW k, k = call[c].target, k \in LiveComments
  PROVE  Thread' = {x \in Thread : x[1] # k} /\ Live = Live' + 1
<1>1. k \in Comments /\ comments[k] \in Comment /\ NotDeleted(k)
  BY DEF LiveComments, CallsInv, RowsOK, NotDeleted
<1>2. PICK r \in Comment : r = comments[k]
  BY <1>1
<1>3. PICK s : s = [r EXCEPT !.deleted = c]
  OBVIOUS
<1>4. s.deleted = c /\ c # None
  BY <1>3, PeopleAssumption DEF Comment, Comments
<1>5. comments' = [comments EXCEPT ![k] = s]
  BY <1>1, <1>2, <1>3 DEF WriteDeleted
<1>6. comments'[k] = s /\ \A j \in Comments : j # k => comments'[j] = comments[j]
  BY <1>1, <1>5 DEF CallsInv, RowsOK
<1>7. LiveComments' = LiveComments \ {k}
  BY <1>1, <1>4, <1>6 DEF LiveComments
<1>8. \A j \in LiveComments \ {k} : comments'[j].body = comments[j].body
  BY <1>6 DEF LiveComments
<1>9. Thread' = {x \in Thread : x[1] # k}
  BY <1>7, <1>8 DEF Thread
<1>10. Live = Live' + 1
  <2>1. Live' = Live - 1
    BY <1>7, LiveIsFinite, FS_RemoveElement DEF Live
  <2>2. QED BY <2>1, LiveIsFinite
<1>11. QED BY <1>9, <1>10

\* A call that moves leaves what the others have said, and begins but once.
LEMMA MovedStays ==
  ASSUME CallsInv, NEW c \in Calls, Moved(c), Told(c) => Told(c)'
  PROVE  /\ \A d \in Calls : Told(d) => Told(d)' /\ call'[d].before = call[d].before
         /\ \A d \in Calls : call[d].at # "idle" =>
              call'[d].at # "idle" /\ \A e \in call'[d].before : e \in call[d].before
<1>1. Told(c) => call'[c].before = call[c].before
  BY DEF Moved, Told, ToldOf, Past, Kin
<1>2. \A d \in Calls : d # c => call'[d] = call[d]
  BY DEF Moved
<1>3. call'[c].at # "idle"
      /\ (call[c].at # "idle" => \A e \in call'[c].before : e \in call[c].before)
  BY DEF Moved
<1>4. \A d \in Calls : Told(d) => Told(d)' /\ call'[d].before = call[d].before
  BY <1>1, <1>2 DEF Told
<1>5. QED BY <1>2, <1>3, <1>4

LEMMA LateWrites ==
  ASSUME CallsInv, KindsInv, BeforeInv, LateInv, NEW c \in Calls, ThreadWrite(c),
         Moved(c), ~Past(c), Kin(call[c], call'[c]), call'[c].at = "record"
  PROVE  LateInv'
<1>1. ~Told(c)
  BY DEF Told, ToldOf, Past
<1>2. CASE InsertComment(c)
  <2>1. \A k \in Comments : comments'[k].deleted # None =>
          comments'[k].deleted = comments[k].deleted /\ late'[k] = late[k]
    BY <1>2, CreateWrites DEF InsertComment, rest
  <2>2. QED BY <1>1, <2>1, MovedStays, LateStays
<1>3. CASE WriteBody(c)
  <2>1. ASSUME NEW k \in Comments
        PROVE  comments'[k].deleted = comments[k].deleted /\ late'[k] = late[k]
    <3>1. PICK r \in Comment : r = comments[k]
      BY DEF CallsInv, RowsOK
    <3>2. [r EXCEPT !.body = c].deleted = r.deleted
      BY DEF Comment
    <3>3. comments'[k] = comments[k] \/ comments'[k] = [r EXCEPT !.body = c]
      BY <1>3, <3>1 DEF WriteBody, CallsInv, RowsOK
    <3>4. QED BY <1>3, <3>1, <3>2, <3>3 DEF WriteBody, rest
  <2>2. QED BY <1>1, <2>1, MovedStays, LateStays
<1>4. CASE WriteDeleted(c) /\ ~NotDeleted(call[c].target)
  <2>1. UNCHANGED <<comments, late>>
    BY <1>4 DEF WriteDeleted
  <2>2. QED BY <1>1, <2>1, MovedStays, LateStays
<1>5. CASE WriteDeleted(c) /\ NotDeleted(call[c].target)
  <2>1. PICK j : j = call[c].target
    OBVIOUS
  <2>2. /\ comments' = [comments EXCEPT ![j].deleted = c]
        /\ late' = [late EXCEPT ![j] = {d \in Calls : UnderWay(d)}]
        /\ call[c].kind = "remove" /\ call[c].at = "write"
    BY <1>5, <2>1 DEF WriteDeleted, At
  <2>3. j \in Comments
    BY <2>1, <2>2 DEF CallsInv, CallInv, Hand
  <2>4. PICK r \in Comment : r = comments[j]
    BY <2>3 DEF CallsInv, RowsOK
  <2>5. [r EXCEPT !.deleted = c].deleted = c
    BY DEF Comment
  <2>6. comments'[j].deleted = c /\ late'[j] = {d \in Calls : UnderWay(d)}
    BY <2>2, <2>3, <2>4, <2>5 DEF CallsInv, RowsOK
  <2>7. \A k \in Comments : k # j => comments'[k] = comments[k] /\ late'[k] = late[k]
    BY <2>2 DEF CallsInv, RowsOK
  <2>8. Told(c)'
    BY <2>2 DEF Told, ToldOf, Written, Kin, ThreadKinds
  <2>9. ASSUME NEW d \in Calls, UnderWay(d) PROVE call'[d].at # "idle" /\ (d = c \/ Overlap(d, c)')
    <3>1. ~Over(d) /\ ~Over(c) /\ call[d].at # "idle"
      BY <2>2, <2>9 DEF Over, UnderWay
    <3>2. d \notin call[c].before /\ c \notin call[d].before
      BY <3>1 DEF BeforeInv
    <3>3. call'[d].at # "idle" /\ call'[c].before = call[c].before
          /\ (d # c => call'[d].before = call[d].before)
      BY <3>1 DEF Moved, Kin
    <3>4. QED BY <3>2, <3>3 DEF Overlap
  <2>10. ASSUME NEW k \in Comments, k # j, comments'[k].deleted # None
         PROVE  /\ comments'[k].deleted \in Calls
                /\ Told(comments[k].deleted)'
                /\ \A d \in late'[k] : call'[d].at # "idle"
                /\ \A d \in late'[k] : d = comments'[k].deleted \/ Overlap(d, comments[k].deleted)'
    <3>1. PICK e : e = comments[k].deleted /\ e = comments'[k].deleted /\ e # None
      BY <2>7, <2>10
    <3>2. e \in Calls /\ Told(e) /\ \A d \in late[k] : call[d].at # "idle" /\ (d = e \/ Overlap(d, e))
      BY <3>1 DEF LateInv
    <3>3. late'[k] = late[k] /\ late[k] \subseteq Calls
      BY <2>7, <2>10 DEF CallsInv, RowsOK
    <3>4. Told(e)' /\ call[e].at # "idle"
      BY <1>1, <3>2, MovedStays, ToldIsAt
    <3>5. ASSUME NEW d \in late[k] PROVE call'[d].at # "idle" /\ (d = e \/ Overlap(d, e)')
      <4>1. d \in Calls /\ call[d].at # "idle" /\ (d = e \/ Overlap(d, e))
        BY <3>2, <3>3
      <4>2. /\ call'[d].at # "idle" /\ \A b \in call'[d].before : b \in call[d].before
            /\ \A b \in call'[e].before : b \in call[e].before
        BY <1>1, <3>2, <3>4, <4>1, MovedStays
      <4>3. QED BY <4>1, <4>2 DEF Overlap
    <3>6. Told(comments[k].deleted)'
      BY <3>1, <3>4 DEF Told
    <3>7. \A d \in late'[k] : d = comments'[k].deleted \/ Overlap(d, comments[k].deleted)'
      BY <3>1, <3>3, <3>5 DEF Overlap
    <3>8. QED BY <3>1, <3>2, <3>3, <3>5, <3>6, <3>7
  <2>11. /\ comments'[j].deleted \in Calls
         /\ Told(comments[j].deleted)'
         /\ \A d \in late'[j] : call'[d].at # "idle"
         /\ \A d \in late'[j] : d = comments'[j].deleted \/ Overlap(d, comments[j].deleted)'
    <3>1. Told(comments[j].deleted)'
      BY <2>6, <2>8 DEF Told
    <3>2. \A d \in late'[j] : d = comments'[j].deleted \/ Overlap(d, comments[j].deleted)'
      BY <2>6, <2>9 DEF Overlap
    <3>3. QED BY <2>6, <2>9, <3>1, <3>2
  <2>12. QED BY <2>10, <2>11 DEF LateInv
<1>6. QED BY <1>2, <1>3, <1>4, <1>5 DEF ThreadWrite

\* The calls on the thread that wrote before one does are over.
LEMMA OthersAreOver ==
  ASSUME CallsInv, BeforeInv, InTurn', NEW c \in Calls, Moved(c), ~Past(c), Told(c)',
         Kin(call[c], call'[c]), NEW d \in Calls, Told(d)
  PROVE  d \in call[c].before /\ Over(d)
<1>1. ~Told(c) /\ d # c
  BY DEF Told, ToldOf, Past
<1>2. call'[d] = call[d] /\ Told(d)'
  BY <1>1 DEF Moved, Told
<1>3. ~Overlap(c, d)'
  BY <1>2 DEF InTurn
<1>4. c \in call[d].before \/ d \in call[c].before
  BY <1>1, <1>2, <1>3 DEF Overlap, Kin
<1>5. c \notin call[d].before
  BY DEF BeforeInv, Moved
<1>6. QED BY <1>4, <1>5 DEF BeforeInv

\* What a call is about to change or delete is there.
LEMMA TargetIsLive ==
  ASSUME CallsInv, LateInv, NEW c \in Calls, ~Past(c), WriteBody(c) \/ WriteDeleted(c),
         \A d \in Calls : Told(d) => d \in call[c].before
  PROVE  call[c].target \in LiveComments
<1>1. PICK u \in Call : u = call[c] /\ CallInv(c, u)
  BY DEF CallsInv, RowsOK
<1>2. u.kind \in {"update", "remove"} /\ u.at = "write"
  BY <1>1 DEF WriteBody, WriteDeleted, At
<1>3. u.target \in Comments /\ comments[u.target].author # None
  BY <1>1, <1>2 DEF CallInv, Hand
<1>4. comments[u.target].deleted = None \/ c \in late[u.target]
  BY <1>1, <1>2 DEF CallInv, Gone
<1>5. ASSUME comments[u.target].deleted # None PROVE FALSE
  <2>1. PICK e : e = comments[u.target].deleted
    OBVIOUS
  <2>2. e \in Calls /\ Told(e) /\ (c = e \/ Overlap(c, e))
    BY <1>3, <1>4, <1>5, <2>1 DEF LateInv
  <2>3. c # e
    BY <2>2 DEF Told, ToldOf, Past
  <2>4. e \notin call[c].before
    BY <2>2, <2>3 DEF Overlap
  <2>5. QED BY <2>2, <2>4
<1>6. QED BY <1>1, <1>3, <1>5 DEF LiveComments

\* If the page shows the thread, a call of its own that writes is what it owes.
LEMMA WritesOwe ==
  ASSUME CallsInv, LateInv, NEW c \in Calls, ~Past(c), ThreadWrite(c), Current,
         \A d \in Calls : Told(d) => d \in call[c].before,
         Kin(call[c], call'[c]), page'.shown = page.shown, page'.total = page.total
  PROVE  Owes(call[c], c)'
<1>1. Thread = page.shown /\ Live = page.total
  BY DEF Current
<1>2. CASE InsertComment(c)
  <2>1. call'[c].kind = "create"
    BY <1>2 DEF InsertComment, At, Kin
  <2>2. Thread' = Thread \cup {<<c, c>>} /\ Live' = Live + 1
    BY <1>2, CreateWrites
  <2>3. QED BY <1>1, <2>1, <2>2 DEF Owes
<1>3. CASE WriteBody(c)
  <2>1. PICK k : k = call[c].target
    OBVIOUS
  <2>2. k \in LiveComments
    BY <1>3, <2>1, TargetIsLive
  <2>3. call'[c].kind = "update" /\ call'[c].target = k
    BY <1>3, <2>1 DEF WriteBody, At, Kin
  <2>4. /\ Thread' = {x \in Thread : x[1] # k} \cup {<<k, c>>} /\ Live' = Live
        /\ <<k, comments[k].body>> \in Thread
    BY <1>3, <2>1, <2>2, UpdateWrites
  <2>5. Without(k)' = {x \in page.shown : x[1] # k} /\ <<k, comments[k].body>> \notin Without(k)'
    BY DEF Without
  <2>6. QED BY <1>1, <2>3, <2>4, <2>5 DEF Owes
<1>4. CASE WriteDeleted(c)
  <2>1. PICK k : k = call[c].target
    OBVIOUS
  <2>2. k \in LiveComments
    BY <1>4, <2>1, TargetIsLive
  <2>3. call'[c].kind = "remove" /\ call'[c].target = k
    BY <1>4, <2>1 DEF WriteDeleted, At, Kin
  <2>4. Thread' = {x \in Thread : x[1] # k} /\ Live = Live' + 1
    BY <1>4, <2>1, <2>2, RemoveWrites
  <2>5. Without(k)' = {x \in page.shown : x[1] # k}
    BY DEF Without
  <2>6. QED BY <1>1, <2>3, <2>4, <2>5 DEF Owes
<1>5. QED BY <1>2, <1>3, <1>4 DEF ThreadWrite

LEMMA WriteThread ==
  ASSUME CallsInv, KindsInv, BeforeInv, ThreadInv, NEW c \in Calls, ThreadWrite(c),
         Moved(c), ~Past(c), Kin(call[c], call'[c]), call'[c].at = "record",
         UNCHANGED <<fanout, mix, page, mine, fetch>>,
         missed \subseteq missed', crossed \subseteq crossed'
  PROVE  OwnSentInv' /\ MineInv' /\ OwesInv' /\ ShownInv'
<1> SUFFICES ASSUME Heard' PROVE OwnSentInv' /\ MineInv' /\ OwesInv' /\ ShownInv'
  BY DEF OwnSentInv, MineInv, OwesInv, ShownInv
<1>1. ~Told(c)
  BY DEF Told, ToldOf, Past
<1>2. \A d \in Calls : Told(d) => Told(d)' /\ call'[d].before = call[d].before
  BY <1>1, MovedStays
<1>3. Heard /\ (fetch.asked => OwnAtWork = {})
  BY <1>2, HeardBefore DEF ThreadInv
<1>4. call[c].kind \in ThreadKinds /\ call[c].at \in {"insert", "write"}
  BY DEF ThreadWrite, InsertComment, WriteBody, WriteDeleted, At, ThreadKinds
<1>5. Told(c)'
  BY <1>4 DEF Told, ToldOf, Written, Kin
<1>6. \A d \in Calls : Told(d) => d \in call[c].before /\ Over(d)
  BY <1>5, OthersAreOver DEF Heard
<1>7. \A d \in Calls : Told(d)' => d = c \/ Over(d)
  BY <1>6 DEF Moved, Told
<1>8. mine = {}
  BY <1>3, <1>6, SaidNotOver DEF ThreadInv, MineInv
<1>9. ~Pending
  BY <1>6, SaidNotOver DEF Pending, Over
<1>10. \A d \in Calls : ~Active(d)
  BY <1>6 DEF Active, Over
<1>11. \A d \in Calls : Active(d)' => d = c
  BY <1>7 DEF Active, Over, Moved
<1>12. Fetching \/ (~fetch.asked /\ Current)
  BY <1>3, <1>9, <1>10 DEF ThreadInv, ShownInv
<1>13. OwnSentInv'
  <2>1. \A d \in Calls : Active(d)' => call'[d].at = "record"
    BY <1>11
  <2>2. QED BY <2>1 DEF OwnSentInv
<1>14. MineInv'
  BY <1>8 DEF MineInv
<1>15. CASE call[c].page
  <2>1. c \in OwnAtWork
    BY <1>4, <1>15 DEF OwnAtWork, ThreadKinds
  <2>2. ~fetch.asked
    BY <1>3, <2>1
  <2>3. Owes(call[c], c)'
    BY <1>6, <1>12, <2>2, WritesOwe DEF Fetching, ThreadInv
  <2>4. OwesInv'
    BY <1>11, <2>2, <2>3 DEF OwesInv
  <2>5. Active(c)'
    BY <1>5, <1>15 DEF Active, Kin
  <2>6. QED BY <1>13, <1>14, <2>4, <2>5 DEF ShownInv
<1>16. CASE ~call[c].page
  <2>1. Pending'
    BY <1>5, <1>16 DEF Pending, Kin
  <2>2. \A d \in Calls : ~Active(d)'
    BY <1>11, <1>16 DEF Active, Kin
  <2>3. QED BY <1>13, <1>14, <2>1, <2>2 DEF OwesInv, ShownInv
<1>17. QED BY <1>15, <1>16

-----------------------------------------------------------------------------
(* The thread: the steps of the page.                                       *)

\* A step that leaves the calls and the rows.
LEMMA SameTold ==
  ASSUME UNCHANGED <<call, comments>>
  PROVE  /\ Thread' = Thread /\ Live' = Live
         /\ \A c \in Calls : /\ Told(c)' <=> Told(c)
                             /\ Active(c)' <=> Active(c)
                             /\ Changed(c)' = Changed(c) /\ About(c)' = About(c)
                             /\ Keeping(c, call[c], call'[c])
BY DEF Thread, Live, LiveComments, Told, Active, Changed, About, Keeping, Kin

\* While the page refetches the thread, no call of its own is at work.
LEMMA FetchThread ==
  ASSUME PageOK, ThreadInv, FetchRows \/ FetchTotal, Heard' => Heard
  PROVE  OwnSentInv' /\ MineInv' /\ OwesInv' /\ ShownInv'
<1> SUFFICES ASSUME Heard' PROVE OwnSentInv' /\ MineInv' /\ OwesInv' /\ ShownInv'
  BY DEF OwnSentInv, MineInv, OwesInv, ShownInv
<1>1. /\ UNCHANGED <<call, comments, wire, page, mine>> /\ fetch.asked
  BY DEF FetchRows, FetchTotal, server, rows, fanout
<1>2. Sent(wire)' = Sent(wire)
  BY <1>1 DEF Sent
<1>3. \A c \in Calls : ~Active(c)
  BY <1>1 DEF ThreadInv, OwesInv
<1>4. /\ Thread' = Thread /\ Live' = Live
      /\ \A c \in Calls : /\ Told(c)' <=> Told(c)
                          /\ Active(c)' <=> Active(c)
                          /\ Changed(c)' = Changed(c) /\ About(c)' = About(c)
  BY <1>1, SameTold
<1>5. MineInv'
  BY <1>1, <1>2, <1>4 DEF ThreadInv, MineInv
<1>6. Pending \/ Fetching
  BY <1>1, <1>3 DEF ThreadInv, ShownInv
<1>7. Pending => Pending'
  BY <1>1, <1>2, <1>4 DEF Pending
<1>8. Fetching => Fetching'
  <2>1. PICK f \in Fetch : f = fetch
    BY DEF PageOK
  <2>2. CASE FetchRows
    <3>1. PICK t : t = Thread
      OBVIOUS
    <3>2. PICK g : g = [f EXCEPT !.got = @ \cup {"rows"}, !.shown = t]
      OBVIOUS
    <3>3. /\ g.asked = f.asked /\ g.shown = t /\ g.total = f.total
          /\ g.got = f.got \cup {"rows"}
      BY <3>2 DEF Fetch
    <3>4. fetch' = g
      BY <2>1, <2>2, <3>1, <3>2 DEF FetchRows
    <3>5. QED BY <1>4, <2>1, <3>1, <3>3, <3>4 DEF Fetching
  <2>3. CASE FetchTotal
    <3>1. PICK n : n = Live
      OBVIOUS
    <3>2. PICK g : g = [f EXCEPT !.got = @ \cup {"total"}, !.total = n]
      OBVIOUS
    <3>3. /\ g.asked = f.asked /\ g.shown = f.shown /\ g.total = n
          /\ g.got = f.got \cup {"total"}
      BY <3>2 DEF Fetch
    <3>4. fetch' = g
      BY <2>1, <2>3, <3>1, <3>2 DEF FetchTotal, Live
    <3>5. QED BY <1>4, <2>1, <3>1, <3>3, <3>4 DEF Fetching
  <2>4. QED BY <2>2, <2>3
<1>9. OwnSentInv' /\ OwesInv'
  BY <1>3, <1>4 DEF OwnSentInv, OwesInv
<1>10. QED BY <1>5, <1>6, <1>7, <1>8, <1>9 DEF ShownInv

LEMMA ShowsThread ==
  ASSUME PageOK, ThreadInv, ShowThread, Heard' => Heard
  PROVE  OwnSentInv' /\ MineInv' /\ OwesInv' /\ ShownInv'
<1> SUFFICES ASSUME Heard' PROVE OwnSentInv' /\ MineInv' /\ OwesInv' /\ ShownInv'
  BY DEF OwnSentInv, MineInv, OwesInv, ShownInv
<1>1. /\ UNCHANGED <<call, comments, wire, mine>> /\ fetch.got = {"rows", "total"}
      /\ fetch' = NoFetch
  BY DEF ShowThread, server, rows, fanout
<1>2. fetch.asked /\ Sent(wire)' = Sent(wire)
  BY <1>1 DEF ThreadInv, GotInv, Sent
<1>3. \A c \in Calls : ~Active(c)
  BY <1>2 DEF ThreadInv, OwesInv
<1>4. /\ Thread' = Thread /\ Live' = Live
      /\ \A c \in Calls : /\ Told(c)' <=> Told(c)
                          /\ Active(c)' <=> Active(c)
                          /\ Changed(c)' = Changed(c) /\ About(c)' = About(c)
  BY <1>1, SameTold
<1>5. MineInv'
  BY <1>1, <1>2, <1>4 DEF ThreadInv, MineInv
<1>6. Pending \/ Fetching
  BY <1>2, <1>3 DEF ThreadInv, ShownInv
<1>7. Pending => Pending'
  BY <1>1, <1>2, <1>4 DEF Pending
<1>8. Fetching => ~fetch'.asked /\ Current'
  <2>1. PICK f \in Fetch : f = fetch
    BY DEF PageOK
  <2>2. f.shown \in SUBSET Shown /\ f.total \in Nat
    BY DEF Fetch
  <2>3. page' = [page EXCEPT !.shown = f.shown, !.total = f.total]
    BY <2>1 DEF ShowThread
  <2>4. page'.shown = f.shown /\ page'.total = f.total
    BY <2>2, <2>3, ThreadPut
  <2>5. Fetching => f.shown = Thread /\ f.total = Live
    BY <1>1, <2>1 DEF Fetching
  <2>6. ~fetch'.asked
    BY <1>1 DEF NoFetch
  <2>7. QED BY <1>4, <2>4, <2>5, <2>6 DEF Current
<1>9. OwnSentInv' /\ OwesInv'
  BY <1>3, <1>4 DEF OwnSentInv, OwesInv
<1>10. QED BY <1>5, <1>6, <1>7, <1>8, <1>9 DEF ShownInv

\* An event starts a refetch, or is the page's own and was waited for.
LEMMA ReadEventThread ==
  ASSUME CallsInv, FanInv, BadgeInv, ThreadInv, Watch, ReadEvent
  PROVE  OwnSentInv' /\ MineInv' /\ OwesInv' /\ ShownInv'
<1> SUFFICES ASSUME Heard' PROVE OwnSentInv' /\ MineInv' /\ OwesInv' /\ ShownInv'
  BY DEF OwnSentInv, MineInv, OwesInv, ShownInv
<1>1. UNCHANGED <<call, comments, mix>>
  BY DEF ReadEvent, server, rows, rest
<1>2. missed \subseteq missed' /\ crossed \subseteq crossed'
  BY <1>1, WatchGrows
<1>3. Heard /\ \A d \in Calls : UnderWay(d) \/ InFlight(d) => Hearing
  <2>1. \A d \in Calls : Told(d) => Told(d)' /\ call'[d].before = call[d].before
    BY <1>1, SameTold
  <2>2. QED BY <1>1, <1>2, <2>1, HeardBefore DEF ThreadInv
<1>4. wire \in Seq(Message) /\ wire # <<>>
  BY DEF FanInv, QueuesInv, ReadEvent
<1>5. PICK e \in Message : e = Head(wire)
  BY <1>4
<1>6. e \in Event /\ e.type # "reply"
  BY <1>5 DEF ReadEvent, Message, Reply
<1>7. Sent(wire) = Sent(wire)' \cup {e}
  BY <1>5, SentSteps
<1>8. page.stream \in Listening
  <2>1. e.by \in Calls
    BY <1>6, <1>7 DEF BadgeInv, SentInv
  <2>2. InFlight(e.by)
    BY <1>6, <1>7, <2>1, InFlightSent
  <2>3. QED BY <1>3, <2>1, <2>2 DEF Hearing
<1>9. Hears(e)
  BY <1>5, <1>8 DEF ReadEvent
<1>10. /\ Thread' = Thread /\ Live' = Live
       /\ \A c \in Calls : /\ Told(c)' <=> Told(c)
                           /\ Active(c)' <=> Active(c)
                           /\ Changed(c)' = Changed(c) /\ About(c)' = About(c)
                           /\ Keeping(c, call[c], call'[c])
  BY <1>1, SameTold
<1>11. CASE e.type # "comment"
  <2>1. UNCHANGED <<mine, fetch>> /\ page'.shown = page.shown /\ page'.total = page.total
    <3>1. CASE e.type = "notification"
      <4>1. e.unread \in Nat
        BY <1>6, <3>1 DEF Event
      <4>2. page' = [page EXCEPT !.badge = e.unread] /\ UNCHANGED <<mine, fetch>>
        BY <1>9, <3>1 DEF Hears
      <4>3. QED BY <4>1, <4>2, BadgePut DEF BadgeInv
    <3>2. CASE e.type # "notification"
      BY <1>9, <1>11, <3>2 DEF Hears
    <3>3. QED BY <3>1, <3>2
  <2>2. \A m \in Sent(wire) : m.type = "comment" => m \in Sent(wire)'
    BY <1>7, <1>11
  <2>3. QED BY <1>1, <1>3, <1>10, <2>1, <2>2, ThreadStays
<1>12. CASE e.type = "comment" /\ e.about \in mine
  <2>1. UNCHANGED <<page, fetch>> /\ mine' = mine \ {e.about}
    BY <1>9, <1>12 DEF Hears, Forgotten
  <2>2. PICK c \in Calls : /\ Told(c) /\ call[c].page /\ call[c].at = "done"
                           /\ About(c) = e.about /\ Changed(c) \in Sent(wire)
    BY <1>3, <1>12 DEF ThreadInv, MineInv
  <2>3. ASSUME NEW d \in Calls, Told(d), ~Over(d) PROVE d = c
    BY <1>3, <2>2, <2>3, SaidNotOver, OneAtWork DEF BadgeInv, Heard
  <2>4. mine' = {}
    <3>1. ASSUME NEW k \in mine, k # e.about PROVE FALSE
      <4>1. PICK d \in Calls : Told(d) /\ About(d) = k /\ Changed(d) \in Sent(wire)
        BY <1>3, <3>1 DEF ThreadInv, MineInv
      <4>2. d = c
        BY <2>3, <4>1, SaidNotOver
      <4>3. QED BY <2>2, <3>1, <4>1, <4>2
    <3>2. QED BY <2>1, <3>1
  <2>5. \A d \in Calls : ~Active(d)
    BY <2>2, <2>3 DEF Active, Over
  <2>6. ~Pending
    <3>1. ASSUME NEW d \in Calls, Told(d), ~call[d].page,
                 call[d].at \in {"record", "announce"} \/ Changed(d) \in Sent(wire)
          PROVE  FALSE
      <4>1. ~Over(d)
        BY <3>1, SaidNotOver DEF Over
      <4>2. QED BY <2>2, <2>3, <3>1, <4>1
    <3>2. QED BY <3>1 DEF Pending
  <2>7. Fetching \/ (~fetch.asked /\ Current)
    BY <1>3, <2>5, <2>6 DEF ThreadInv, ShownInv
  <2>8. Fetching' \/ (~fetch'.asked /\ Current')
    BY <1>10, <2>1, <2>7 DEF Fetching, Current
  <2>9. QED BY <1>10, <2>4, <2>5, <2>8 DEF OwnSentInv, MineInv, OwesInv, ShownInv
<1>13. CASE e.type = "comment" /\ e.about \notin mine
  <2>1. UNCHANGED <<page, mine>> /\ fetch' = Reload
    BY <1>9, <1>13 DEF Hears
  <2>2. fetch'.asked /\ fetch'.got = {}
    BY <2>1 DEF Reload, NoFetch
  <2>3. \A c \in Calls : ~Active(c)'
    <3>1. OwnAtWork' = {}
      <4>1. CrossedInv' /\ Uses({"streams"})' /\ crossed' = {}
        BY <1>1, WatchGrows DEF Heard
      <4>2. QED BY <2>2, <4>1 DEF CrossedInv
    <3>2. ASSUME NEW c \in Calls, Active(c)' PROVE c \in OwnAtWork'
      BY <3>2 DEF Active, Told, ToldOf, ThreadKinds, OwnAtWork
    <3>3. QED BY <3>1, <3>2
  <2>4. MineInv'
    <3> SUFFICES ASSUME NEW k \in mine
                 PROVE  \E c \in Calls : /\ Told(c)' /\ call'[c].page /\ call'[c].at = "done"
                                         /\ About(c)' = k /\ Changed(c)' \in Sent(wire)'
      BY <2>1 DEF MineInv
    <3>1. PICK c \in Calls : /\ Told(c) /\ call[c].page /\ call[c].at = "done" /\ About(c) = k
                             /\ Changed(c) \in Sent(wire)
      BY <1>3 DEF ThreadInv, MineInv
    <3>2. Changed(c) # e
      BY <1>13, <3>1, ToldChanges
    <3>3. QED BY <1>1, <1>7, <1>10, <3>1, <3>2
  <2>5. Fetching'
    BY <2>2 DEF Fetching
  <2>6. QED BY <2>3, <2>4, <2>5 DEF OwnSentInv, OwesInv, ShownInv
<1>14. QED BY <1>11, <1>12, <1>13

\* The page carries out what it was owed.
LEMMA AnswerThread ==
  ASSUME CallsInv, BadgeInv, ThreadInv, NEW c \in Calls, Answer(c), UNCHANGED mix,
         missed \subseteq missed', crossed \subseteq crossed'
  PROVE  OwnSentInv' /\ MineInv' /\ OwesInv' /\ ShownInv' /\ LateInv'
<1>1. PICK u \in Call : u = call[c] /\ Fits(u) /\ CallInv(c, u)
  BY DEF BadgeInv, KindsInv, CallsInv, RowsOK
<1>2. /\ u.at = "answered" /\ u.ok /\ UNCHANGED <<comments, late, wire, fetch>> /\ Goto(c, "done")
      /\ u.page
  BY <1>1 DEF Answer, Fits, rows, rest, fanout
<1>3. PICK v \in Call : /\ call' = [call EXCEPT ![c] = v]
                        /\ Kin(call[c], v) /\ v.at = "done" /\ v.ok = call[c].ok
  BY <1>2, GotoMoves DEF CallSteps, CallsInv
<1>4. /\ call'[c] = v
      /\ \A d \in Calls : d # c => call'[d] = call[d]
  BY <1>3, CallPut DEF CallsInv
<1>5. /\ Sent(wire)' = Sent(wire) /\ Thread' = Thread /\ Live' = Live
  BY <1>2 DEF Sent, Thread, Live, LiveComments
<1>6. \A d \in Calls : /\ Told(d)' <=> Told(d)
                       /\ Kin(call[d], call'[d])
                       /\ Changed(d)' = Changed(d) /\ About(d)' = About(d)
  <2>1. Told(c)' <=> Told(c)
    BY <1>1, <1>2, <1>3, <1>4 DEF Told, ToldOf, Written, Kin
  <2>2. \A d \in Calls : d # c => (Told(d)' <=> Told(d))
    BY <1>4 DEF Told
  <2>3. \A d \in Calls : Kin(call[d], call'[d])
    BY <1>3, <1>4 DEF Kin
  <2>4. QED BY <2>1, <2>2, <2>3, ChangedStays
<1>7. LateInv'
  <2>1. \A d \in Calls : call[d].at # "idle" =>
          call'[d].at # "idle" /\ \A e \in call'[d].before : e \in call[d].before
    BY <1>3, <1>4, <1>6 DEF Kin
  <2>2. QED BY <1>2, <1>6, <2>1, LateStays DEF ThreadInv
<1>8. ASSUME Heard'
      PROVE  Heard /\ \A d \in Calls : UnderWay(d) => Hearing
  <2>1. \A d \in Calls : Told(d) => Told(d)' /\ call'[d].before = call[d].before
    BY <1>6 DEF Kin
  <2>2. QED BY <1>8, <2>1, HeardBefore DEF ThreadInv
<1>9. CASE u.kind \in InboxKinds
  <2>1. PICK n \in Nat : n = IF u.kind = "readAll" THEN 0 ELSE u.unread
    BY DEF Call
  <2>2. page' = [page EXCEPT !.badge = n] /\ UNCHANGED mine
    BY <1>1, <1>9, <2>1 DEF Answer, ShowRead, InboxKinds
  <2>3. page'.shown = page.shown /\ page'.total = page.total
    BY <2>2, BadgePut DEF BadgeInv
  <2>4. ~ToldOf(u) /\ ~ToldOf(v)
    BY <1>1, <1>3, <1>9 DEF ToldOf, ThreadKinds, InboxKinds, Kin
  <2>5. \A d \in Calls : Keeping(d, call[d], call'[d])
    BY <1>1, <1>4, <2>4 DEF Keeping, Kin
  <2>6. \A m \in Sent(wire) : m \in Sent(wire)'
    BY <1>5
  <2>7. QED BY <1>2, <1>7, <1>8, <2>2, <2>3, <2>5, <2>6, ThreadStays
<1>10. CASE u.kind \in ThreadKinds /\ Heard'
  <2>1. Told(c) /\ Active(c)
    BY <1>1, <1>2, <1>10 DEF Told, ToldOf, Written, Active
  <2>2. ASSUME NEW d \in Calls, Active(d) PROVE d = c
    <3>1. ~Over(c) /\ ~Over(d) /\ Told(d)
      BY <1>1, <1>2, <2>2 DEF Over, Active
    <3>2. QED BY <1>8, <1>10, <2>1, <3>1, OneAtWork DEF BadgeInv, Heard
  <2>3. \A d \in Calls : ~Active(d)'
    BY <1>3, <1>4, <1>6, <2>2 DEF Active
  <2>4. ~fetch.asked /\ Owes(u, c) /\ Changed(c) \in Sent(wire)
    BY <1>1, <1>2, <1>8, <1>10, <2>1 DEF ThreadInv, OwesInv, OwnSentInv
  <2>5. page'.shown = Thread /\ page'.total = Live /\ mine' = mine \cup {About(c)}
    <3>1. PICK p \in Page : p = page
      BY DEF BadgeInv, PageOK
    <3>2. Live \in Nat /\ p.shown \in SUBSET Shown /\ p.total \in Nat
      BY LiveIsFinite DEF Page
    <3>3. PICK t, n : t = Thread /\ n = Live
      OBVIOUS
    <3>4. t \in SUBSET Shown
      BY <3>3, ThreadIsShown DEF CallsInv
    <3>5. page' = [page EXCEPT !.shown = t, !.total = n] /\ mine' = mine \cup {About(c)}
      <4>1. CASE u.kind = "create"
        <5>1. Thread = page.shown \cup {<<c, c>>} /\ Live = page.total + 1
          BY <2>4, <4>1 DEF Owes
        <5>2. QED BY <1>1, <3>3, <4>1, <5>1 DEF Answer, About
      <4>2. CASE u.kind = "update"
        <5>1. /\ Thread = Without(u.target) \cup {<<u.target, c>>}
              /\ Without(u.target) # page.shown /\ Live = page.total
          BY <2>4, <4>2 DEF Owes
        <5>2. QED BY <1>1, <3>3, <4>2, <5>1 DEF Answer, About
      <4>3. CASE u.kind = "remove"
        <5>1. Thread = Without(u.target) /\ page.total = Live + 1
          BY <2>4, <4>3 DEF Owes
        <5>2. n = IF page.total = 0 THEN 0 ELSE page.total - 1
          BY <3>2, <3>3, <5>1
        <5>3. QED BY <1>1, <3>3, <4>3, <5>1, <5>2 DEF Answer, About
      <4>4. QED BY <1>10, <4>1, <4>2, <4>3 DEF ThreadKinds
    <3>6. QED BY <3>2, <3>3, <3>4, <3>5, ThreadPut DEF BadgeInv
  <2>6. MineInv'
    <3>1. ASSUME NEW k \in mine
          PROVE  \E d \in Calls : /\ Told(d)' /\ call'[d].page /\ call'[d].at = "done"
                                  /\ About(d)' = k /\ Changed(d)' \in Sent(wire)'
      <4>1. PICK d \in Calls : /\ Told(d) /\ call[d].page /\ call[d].at = "done" /\ About(d) = k
                               /\ Changed(d) \in Sent(wire)
        BY <1>8, <1>10 DEF ThreadInv, MineInv
      <4>2. d # c
        BY <1>1, <1>2, <4>1
      <4>3. QED BY <1>4, <1>5, <1>6, <4>1, <4>2
    <3>2. /\ Told(c)' /\ call'[c].page /\ call'[c].at = "done"
          /\ About(c)' = About(c) /\ Changed(c)' \in Sent(wire)'
      BY <1>1, <1>2, <1>3, <1>4, <1>5, <1>6, <2>1, <2>4 DEF Kin
    <3>3. QED BY <2>5, <3>1, <3>2 DEF MineInv
  <2>7. ~fetch'.asked /\ Current'
    BY <1>2, <1>5, <2>4, <2>5 DEF Current
  <2>8. QED BY <1>7, <2>3, <2>6, <2>7 DEF OwnSentInv, OwesInv, ShownInv
<1>11. CASE ~Heard'
  BY <1>7, <1>11 DEF OwnSentInv, MineInv, OwesInv, ShownInv
<1>12. u.kind \in ThreadKinds \cup InboxKinds
  BY <1>1, <1>2 DEF Fits, ThreadKinds
<1>13. QED BY <1>9, <1>10, <1>11, <1>12

-----------------------------------------------------------------------------
(* The thread: its invariant.                                               *)

LEMMA GotStep ==
  ASSUME PageOK, GotInv, [Next]_vars PROVE GotInv'
<1>1. NoFetch.got = {} /\ Reload.got = {} /\ Reload.asked
  BY DEF NoFetch, Reload
<1>2. PICK f \in Fetch : f = fetch
  BY DEF PageOK
<1>3. CASE UNCHANGED fetch
  BY <1>3 DEF GotInv
<1>4. CASE fetch' = NoFetch \/ fetch' = Reload
  BY <1>1, <1>4 DEF GotInv
<1>5. CASE FetchRows
  <2>1. PICK t : t = Thread
    OBVIOUS
  <2>2. fetch' = [f EXCEPT !.got = @ \cup {"rows"}, !.shown = t] /\ f.asked
    BY <1>2, <1>5, <2>1 DEF FetchRows
  <2>3. fetch'.asked
    BY <2>2 DEF Fetch
  <2>4. QED BY <2>3 DEF GotInv
<1>6. CASE FetchTotal
  <2>1. PICK n : n = Cardinality(LiveComments)
    OBVIOUS
  <2>2. fetch' = [f EXCEPT !.got = @ \cup {"total"}, !.total = n] /\ f.asked
    BY <1>2, <1>6, <2>1 DEF FetchTotal
  <2>3. fetch'.asked
    BY <2>2 DEF Fetch
  <2>4. QED BY <2>3 DEF GotInv
<1>7. CASE ReadEvent
  <2>1. UNCHANGED fetch \/ fetch' = Reload
    BY <1>7 DEF ReadEvent, Hears
  <2>2. QED BY <1>3, <1>4, <2>1
<1>8. QED
  BY <1>3, <1>4, <1>5, <1>6, <1>7
  DEF Next, PageStep, ServerStep, ReadBadge, ShowBadge, OpenStream, LoseStream, OthersStream,
      ShowThread, Answer, vars

\* Nothing is said of the thread, and nothing of it is heard.
LEMMA ElsewhereThread ==
  ASSUME CallsInv, FanInv, PageOK, ThreadInv,
         missed \subseteq missed', crossed \subseteq crossed',
         ReadBadge \/ ShowBadge \/ OpenStream \/ LoseStream \/ OthersStream
         \/ ((Trash \/ (FanoutStep /\ UNCHANGED server)) /\ UNCHANGED <<page, mine, fetch>>)
         \/ UNCHANGED vars
  PROVE  OwnSentInv' /\ MineInv' /\ OwesInv' /\ ShownInv' /\ LateInv'
<1>1. UNCHANGED <<call, comments, mix, mine, fetch>>
  BY DEF ReadBadge, ShowBadge, OpenStream, LoseStream, OthersStream, Trash, vars, server, rows, rest
<1>2. page'.shown = page.shown /\ page'.total = page.total
  <2>1. PICK p \in Page : p = page
    BY DEF PageOK
  <2>2. CASE UNCHANGED page
    BY <2>2
  <2>3. CASE ReadBadge
    <3>1. PICK n : n = Cardinality(Unread(Me))
      OBVIOUS
    <3>2. page' = [p EXCEPT !.at = "counted", !.count = n]
      BY <2>1, <2>3, <3>1 DEF ReadBadge
    <3>3. QED BY <2>1, <3>2 DEF Page
  <2>4. CASE ShowBadge
    <3>1. page' = [p EXCEPT !.at = "opening", !.badge = p.count, !.count = 0]
      BY <2>1, <2>4 DEF ShowBadge, ReadAtConnect
    <3>2. QED BY <2>1, <3>1 DEF Page
  <2>5. CASE OpenStream
    <3>1. PICK s \in Streams : page' = [p EXCEPT !.at = "open", !.stream = s]
      BY <2>1, <2>5 DEF OpenStream
    <3>2. QED BY <2>1, <3>1 DEF Page
  <2>6. CASE LoseStream
    <3>1. page' = [p EXCEPT !.at = "counting", !.stream = None]
      BY <2>1, <2>6 DEF LoseStream
    <3>2. QED BY <2>1, <3>1 DEF Page
  <2>7. QED BY <2>2, <2>3, <2>4, <2>5, <2>6 DEF OthersStream, vars
<1>3. \A m \in Sent(wire) : m.type = "comment" => m \in Sent(wire)'
  <2>1. CASE UNCHANGED wire
    BY <2>1 DEF Sent
  <2>2. CASE RedisObeys
    BY <2>2, SentSteps
  <2>3. CASE ReadReply
    <3>1. Sent(wire) = Sent(wire)' \cup {Head(wire)} /\ Head(wire).type = "reply"
      BY <2>3, SentSteps DEF ReadReply
    <3>2. QED BY <3>1
  <2>4. QED
    BY <2>1, <2>2, <2>3
    DEF ReadBadge, ShowBadge, OpenStream, LoseStream, OthersStream, Attach, Detach, Trash,
        FanoutStep, Resume, fanout, vars
<1>4. \A d \in Calls : /\ Told(d)' <=> Told(d)
                       /\ Keeping(d, call[d], call'[d])
  BY <1>1, SameTold
<1>5. ASSUME Heard' PROVE Heard /\ \A d \in Calls : UnderWay(d) => Hearing
  <2>1. \A d \in Calls : Told(d) => Told(d)' /\ call'[d].before = call[d].before
    BY <1>1, <1>4
  <2>2. QED BY <1>1, <1>5, <2>1, HeardBefore DEF ThreadInv
<1>6. OwnSentInv' /\ MineInv' /\ OwesInv' /\ ShownInv'
  BY <1>1, <1>2, <1>3, <1>4, <1>5, ThreadStays
<1>7. LateInv'
  <2>1. \A k \in Comments : late'[k] = late[k]
    <3>1. CASE Trash
      <4>1. \A k \in Comments : k # "document"
        BY NamesAssumption
      <4>2. QED BY <3>1, <4>1 DEF Trash, CallsInv, RowsOK
    <3>2. CASE UNCHANGED late
      BY <3>2
    <3>3. QED
      BY <3>1, <3>2
      DEF ReadBadge, ShowBadge, OpenStream, LoseStream, OthersStream, server, rest, vars
  <2>2. \A d \in Calls : call[d].at # "idle" =>
          call'[d].at # "idle" /\ \A e \in call'[d].before : e \in call[d].before
    BY <1>1
  <2>3. QED BY <1>1, <1>4, <2>1, <2>2, LateStays DEF ThreadInv
<1>8. QED BY <1>6, <1>7

LEMMA CallStepThread ==
  ASSUME CallsInv, FanInv, BadgeInv, ThreadInv, NEW c \in Calls, CallStep(c),
         UNCHANGED <<page, mine, fetch, mix>>, missed \subseteq missed', crossed \subseteq crossed'
  PROVE  OwnSentInv' /\ MineInv' /\ OwesInv' /\ ShownInv' /\ LateInv'
<1>1. KindsInv /\ BeforeInv
  BY DEF BadgeInv
<1>2. /\ Moved(c)
      /\ \/ UNCHANGED <<comments, late>> /\ Keeping(c, call[c], call'[c])
         \/ /\ ThreadWrite(c) /\ UNCHANGED fanout
            /\ ~Past(c) /\ Kin(call[c], call'[c]) /\ call'[c].at = "record"
  BY <1>1, CallStepKeeps
<1>3. CASE UNCHANGED <<comments, late>> /\ Keeping(c, call[c], call'[c])
  <2>1. \A d \in Calls : Keeping(d, call[d], call'[d])
    BY <1>2, <1>3 DEF Moved, Keeping, Kin
  <2>2. Told(c) => Told(c)'
    BY <1>3 DEF Keeping, Told
  <2>3. \A d \in Calls : Told(d) => Told(d)' /\ call'[d].before = call[d].before
    BY <1>2, <2>2, MovedStays
  <2>4. ASSUME Heard' PROVE Heard /\ \A d \in Calls : UnderWay(d) => Hearing
    BY <2>3, <2>4, HeardBefore DEF ThreadInv
  <2>5. \A m \in Sent(wire) : m.type = "comment" => m \in Sent(wire)'
    BY <1>2 DEF Moved
  <2>6. OwnSentInv' /\ MineInv' /\ OwesInv' /\ ShownInv'
    BY <1>3, <2>1, <2>4, <2>5, ThreadStays
  <2>7. LateInv'
    BY <1>2, <1>3, <2>2, MovedStays, LateStays DEF ThreadInv
  <2>8. QED BY <2>6, <2>7
<1>4. CASE /\ ThreadWrite(c) /\ UNCHANGED fanout
           /\ ~Past(c) /\ Kin(call[c], call'[c]) /\ call'[c].at = "record"
  <2>1. OwnSentInv' /\ MineInv' /\ OwesInv' /\ ShownInv'
    BY <1>1, <1>2, <1>4, WriteThread
  <2>2. LateInv'
    BY <1>1, <1>2, <1>4, LateWrites DEF ThreadInv
  <2>3. QED BY <2>1, <2>2
<1>5. QED BY <1>2, <1>3, <1>4

LEMMA ThreadInvariant ==
  ASSUME CallsInv, FanInv, BadgeInv, ThreadInv, [Next]_vars PROVE ThreadInv'
<1>1. PageOK /\ GotInv'
  BY GotStep DEF BadgeInv, ThreadInv
<1>2. CASE UNCHANGED vars
  <2>1. missed \subseteq missed' /\ crossed \subseteq crossed'
    BY <1>2 DEF vars, ghosts
  <2>2. OwnSentInv' /\ MineInv' /\ OwesInv' /\ ShownInv' /\ LateInv'
    BY <1>1, <1>2, <2>1, ElsewhereThread
  <2>3. MissedInv' /\ CrossedInv'
    <3>1. UNCHANGED <<call, mix, page, fetch, missed, crossed, wire, streams, registered, members, subscribed>>
      BY <1>2 DEF vars, ghosts, server, rest, fanout
    <3>2. /\ Hearing' <=> Hearing
          /\ AtWork' = AtWork /\ OwnAtWork' = OwnAtWork
          /\ Uses({"streams"})' <=> Uses({"streams"})
      BY <3>1 DEF Hearing, Listening, AtWork, OwnAtWork, UnderWay, InFlight, Uses
    <3>3. QED BY <3>1, <3>2 DEF ThreadInv, MissedInv, CrossedInv
  <2>4. QED BY <1>1, <2>2, <2>3 DEF ThreadInv
<1>3. CASE Next
  <2>1. UNCHANGED mix
    <3>1. CASE \E c \in Calls : CallStep(c)
      <4>1. PICK c \in Calls : CallStep(c)
        BY <3>1
      <4>2. ServerInv
        BY DEF ServerInv, BadgeInv
      <4>3. ServerBadge(c)
        BY <4>1, <4>2, CallStepBadge
      <4>4. QED BY <4>3 DEF ServerBadge
    <3>2. QED
      BY <1>3, <3>1
      DEF Next, PageStep, ServerStep, ReadBadge, ShowBadge, OpenStream, LoseStream, OthersStream,
          ReadEvent, FetchRows, FetchTotal, ShowThread, Answer, Trash, server, rest
  <2>2. Watch
    BY <1>3 DEF Next
  <2>3. missed \subseteq missed' /\ crossed \subseteq crossed' /\ MissedInv' /\ CrossedInv'
    BY <2>1, <2>2, WatchGrows
  <2>4. OwnSentInv' /\ MineInv' /\ OwesInv' /\ ShownInv' /\ LateInv'
    <3>1. CASE ReadEvent \/ FetchRows \/ FetchTotal \/ ShowThread
      <4>1. UNCHANGED <<call, comments, late>>
        BY <3>1 DEF ReadEvent, FetchRows, FetchTotal, ShowThread, server, rows, rest
      <4>2. LateInv'
        <5>1. \A d \in Calls : Told(d) => Told(d)'
          BY <4>1, SameTold
        <5>2. QED BY <4>1, <5>1, LateStays DEF ThreadInv
      <4>3. \A d \in Calls : Told(d) => Told(d)' /\ call'[d].before = call[d].before
        BY <4>1, SameTold
      <4>4. Heard' => Heard
        BY <2>1, <2>3, <4>3, HeardBefore DEF ThreadInv
      <4>5. QED BY <1>1, <2>2, <3>1, <4>2, <4>4, ReadEventThread, FetchThread, ShowsThread
    <3>2. CASE \E c \in Calls : Answer(c)
      BY <2>1, <2>3, <3>2, AnswerThread
    <3>3. CASE (\E c \in Calls : CallStep(c)) /\ UNCHANGED <<page, mine, fetch>>
      BY <2>1, <2>3, <3>3, CallStepThread
    <3>4. CASE ReadBadge \/ ShowBadge \/ OpenStream \/ LoseStream \/ OthersStream
               \/ ((Trash \/ (FanoutStep /\ UNCHANGED server)) /\ UNCHANGED <<page, mine, fetch>>)
      BY <1>1, <2>3, <3>4, ElsewhereThread
    <3>5. QED BY <1>3, <3>1, <3>2, <3>3, <3>4 DEF Next, PageStep, ServerStep
  <2>5. QED BY <1>1, <2>3, <2>4 DEF ThreadInv
<1>4. QED BY <1>2, <1>3

LEMMA InitThread == Init => ThreadInv
<1> SUFFICES ASSUME Init PROVE ThreadInv
  OBVIOUS
<1>1. CallsInv
  BY InitCalls
<1>2. \A c \in Calls : call[c] = NoCall
  BY DEF Init, CollaborationInit
<1>3. NoCall.kind = "none" /\ NoCall.at = "idle" /\ ~NoCall.ok /\ ~NoCall.page
  BY DEF NoCall
<1>4. Sent(wire) = {}
  BY DEF Sent, Init, FanoutInit
<1>5. \A c \in Calls : ~Told(c) /\ ~UnderWay(c) /\ ~InFlight(c)
  BY <1>2, <1>3, <1>4, InFlightSent DEF Told, ToldOf, ThreadKinds, UnderWay
<1>6. fetch = NoFetch /\ ~NoFetch.asked /\ NoFetch.got = {} /\ mine = {}
  BY DEF Init, NoFetch
<1>7. \A k \in Comments : comments[k].deleted = None
  <2>1. PICK author \in [Said -> People] :
          comments = [k \in Comments |->
            IF k \in Said /\ Uses({"create", "update", "remove"})
            THEN [NoComment EXCEPT !.author = author[k]] ELSE NoComment]
    BY DEF Init, CollaborationInit
  <2>2. /\ NoComment.deleted = None
        /\ \A who \in People : [NoComment EXCEPT !.author = who].deleted = None
    BY DEF NoComment
  <2>3. QED BY <2>1, <2>2
<1>8. MissedInv /\ CrossedInv /\ GotInv /\ LateInv
  BY <1>5, <1>6, <1>7 DEF MissedInv, CrossedInv, GotInv, LateInv, AtWork
<1>9. Current
  <2>1. PICK shown, total : shown = Thread /\ total = Cardinality(LiveComments)
    OBVIOUS
  <2>2. page = [at |-> "counting", stream |-> None, count |-> 0, badge |-> 0,
                shown |-> shown, total |-> total]
    BY <2>1, Zenon DEF Init
  <2>3. page.shown = shown /\ page.total = total
    BY <2>2
  <2>4. QED BY <2>1, <2>3 DEF Current, Live
<1>10. QED
  BY <1>5, <1>6, <1>8, <1>9
  DEF ThreadInv, OwnSentInv, MineInv, OwesInv, ShownInv, Active

\* When nothing is under way any more, nothing is owed or on its way.
LEMMA ThreadInvCurrent == ASSUME BadgeInv, CallsInv, ThreadInv PROVE ThreadCurrent
<1> SUFFICES ASSUME Quiet, missed = {}, crossed = {}, ~Crossing({"create", "update", "remove"})
             PROVE  page.shown = Thread /\ page.total = Cardinality(LiveComments)
  BY DEF ThreadCurrent
<1>1. \A c \in Calls : call[c].at \in {"idle", "done"}
  BY DEF Quiet
<1>2. Sent(wire) = {} /\ ~fetch.asked
  BY DEF Quiet, Sent
<1>3. \A c \in Calls : Told(c) => call[c].at = "done" /\ Answered(c, {"create", "update", "remove"})
  BY <1>1, ToldIsAt DEF Told, ToldOf, Answered, ThreadKinds
<1>4. InTurn
  BY <1>3 DEF InTurn, Crossing
<1>5. Uses({"streams"})
  BY DEF Quiet, Hearing, BadgeInv, UnheardInv
<1>6. Heard
  BY <1>4, <1>5 DEF Heard
<1>7. (\A c \in Calls : ~Active(c)) /\ ~Pending
  BY <1>2, <1>3 DEF Active, Pending
<1>8. QED BY <1>2, <1>6, <1>7 DEF ThreadInv, ShownInv, Fetching, Current, Live

-----------------------------------------------------------------------------
(* The theorems.                                                            *)

THEOREM CallsInvCorrect == Spec => []CallsInv
BY InitCalls, CallsInvariant, PTL DEF Spec

\* Whoever is attached hears of the company's events once Redis has done what it
\* was told, but for the two races in the await of the first attach
\* (EventsService.attach, detach).
THEOREM AttachedStreamsHear == Spec => []ListenersHear
<1>1. Init => FanInv
  BY InitFanout DEF Init
<1>2. CallsInv /\ FanInv /\ [Next]_vars => FanInv'
  BY FanInvariant
<1>3. FanInv => ListenersHear
  BY FanInvHears
<1>4. QED BY <1>1, <1>2, <1>3, CallsInvCorrect, PTL DEF Spec

\* What was answered about an approval request stands
\* (ApprovalsService.decide and cancel).
THEOREM DecisionsStand == Spec => []AnswersStand
BY CallsInvCorrect, CallsInvAnswers, PTL

\* What is in the trash and what was deleted is left alone, but by whoever was
\* under way when it went (mustFindDocument, CommentsService).
THEOREM TheGoneAreLeftAlone == Spec => GoneIsLeftAlone
<1>1. CallsInv /\ [Next]_vars => [TrashLeftAlone /\ RemovedLeftAlone]_<<approvals, comments, stars>>
  <2> SUFFICES ASSUME CallsInv, [Next]_vars,
                      <<approvals, comments, stars>>' # <<approvals, comments, stars>>
               PROVE  TrashLeftAlone /\ RemovedLeftAlone
    OBVIOUS
  <2>1. TrashLeftAlone
    BY TrashStep DEF TrashLeftAlone
  <2>2. RemovedLeftAlone
    BY RemovedStep DEF RemovedLeftAlone
  <2>3. QED BY <2>1, <2>2
<1>2. QED BY <1>1, CallsInvCorrect, PTL DEF Spec, GoneIsLeftAlone

\* When nothing is under way, the badge shows the number of unread
\* notifications, but for the two races it names (LiveProvider.connect,
\* announce, NotificationBell).
THEOREM TheBadgeIsCurrent == Spec => []BadgeCurrent
<1>1. Init => FanInv /\ BadgeInv
  BY InitFanout, InitBadge DEF Init
<1>2. CallsInv /\ FanInv /\ [Next]_vars => FanInv'
  BY FanInvariant
<1>3. CallsInv /\ FanInv /\ BadgeInv /\ [Next]_vars => BadgeInv'
  BY BadgeInvariant
<1>4. CallsInv /\ BadgeInv => BadgeCurrent
  BY BadgeInvCurrent
<1>5. QED BY <1>1, <1>2, <1>3, <1>4, CallsInvCorrect, PTL DEF Spec

\* When nothing is under way, the thread shows the comments there are and their
\* number, but for what the page did not hear of, calls on the thread that were
\* under way together, and those of its own that met a refetch (CommentThread).
THEOREM TheThreadIsCurrent == Spec => []ThreadCurrent
<1>1. Init => FanInv /\ BadgeInv /\ ThreadInv
  BY InitFanout, InitBadge, InitThread DEF Init
<1>2. CallsInv /\ FanInv /\ [Next]_vars => FanInv'
  BY FanInvariant
<1>3. CallsInv /\ FanInv /\ BadgeInv /\ [Next]_vars => BadgeInv'
  BY BadgeInvariant
<1>4. CallsInv /\ FanInv /\ BadgeInv /\ ThreadInv /\ [Next]_vars => ThreadInv'
  BY ThreadInvariant
<1>5. CallsInv /\ BadgeInv /\ ThreadInv => ThreadCurrent
  BY ThreadInvCurrent
<1>6. QED BY <1>1, <1>2, <1>3, <1>4, <1>5, CallsInvCorrect, PTL DEF Spec

=============================================================================
