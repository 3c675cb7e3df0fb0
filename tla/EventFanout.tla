---------------------------- MODULE EventFanout ----------------------------
(***************************************************************************)
(* The live events of one company on one API instance: the streams its     *)
(* browsers hold open (EventsService), and the Redis channel behind them.  *)
(*                                                                         *)
(* The instance keeps a Map of listeners while somebody listens.  A Map is *)
(* named by the stream whose attach made it, because attach holds on to it *)
(* across an await: it may be the registered one no more when it goes on.  *)
(*                                                                         *)
(* Redis is modelled from how the code uses it: commands are taken in the  *)
(* order they were sent, and replies and messages come back in the order   *)
(* they were produced, over the one subscriber connection.                 *)
(***************************************************************************)
EXTENDS Naturals, Sequences, FiniteSets

CONSTANTS
  Streams,  \* the SSE streams opened over the behaviour
  None

ASSUME NoneAssumption == None \notin Streams

VARIABLES
  streams,     \* the attach of each stream, and whether it was closed
  registered,  \* the Map that listeners holds for the company, if any
  members,     \* what each Map holds
  orders,      \* commands on their way to Redis
  subscribed,  \* whether Redis has the subscription
  wire         \* what Redis has sent and the instance has not read yet

fanout == <<streams, registered, members, orders, subscribed, wire>>

-----------------------------------------------------------------------------

AttachSteps == {"off", "waiting", "answered", "attached"}

\* visitors, for the properties only: the streams closed while this one waited.
Stream == [at : AttachSteps, map : Streams \cup {None}, closed : BOOLEAN,
           visitors : SUBSET Streams]

NoStream == [at |-> "off", map |-> None, closed |-> FALSE, visitors |-> {}]

Command == {"subscribe", "unsubscribe"} \X Streams

\* What Redis sends of its own: the answer to a subscribe.
Reply(s) == [type |-> "reply", stream |-> s]

FanoutTypeOK ==
  /\ streams \in [Streams -> Stream]
  /\ registered \in Streams \cup {None}
  /\ members \in [Streams -> SUBSET Streams]
  /\ orders \in Seq(Command)
  /\ subscribed \in BOOLEAN

FanoutInit ==
  /\ streams = [s \in Streams |-> NoStream]
  /\ registered = None
  /\ members = [s \in Streams |-> {}]
  /\ orders = <<>>
  /\ subscribed = FALSE
  /\ wire = <<>>

Opened(s) == streams[s].at # "off" /\ ~streams[s].closed
Waiting(s) == streams[s].at \in {"waiting", "answered"}

\* A request for the stream arrives.  Only the first one of a company waits.
Attach(s) ==
  /\ streams[s].at = "off"
  /\ IF registered = None
     THEN /\ streams' = [streams EXCEPT ![s].at = "waiting", ![s].map = s]
          /\ registered' = s
          /\ orders' = Append(orders, <<"subscribe", s>>)
          /\ UNCHANGED members
     ELSE /\ streams' = [streams EXCEPT ![s].at = "attached", ![s].map = registered]
          /\ members' = [members EXCEPT ![registered] = @ \cup {s}]
          /\ UNCHANGED <<registered, orders>>
  /\ UNCHANGED <<subscribed, wire>>

\* The first attach goes on, in the Map it made.
Resume(s) ==
  /\ streams[s].at = "answered"
  /\ streams' = [streams EXCEPT ![s].at = "attached"]
  /\ members' = [members EXCEPT ![streams[s].map] = @ \cup {s}]
  /\ UNCHANGED <<registered, orders, subscribed, wire>>

\* Mutant: the first to leave takes the subscription along.
Anyone(left) == TRUE

NobodyLeft(left) == left = {}

\* The connection of a stream closes: its listener leaves the registered Map.
Detach(s) ==
  LET left == members[registered] \ {s}
  IN  /\ Opened(s)
      /\ streams' = [t \in Streams |->
                       [streams[t] EXCEPT !.closed = @ \/ t = s,
                                          !.visitors = IF Waiting(t) THEN @ \cup {s} ELSE @]]
      /\ IF registered = None
         THEN UNCHANGED <<registered, members, orders>>
         ELSE /\ members' = [members EXCEPT ![registered] = left]
              /\ IF NobodyLeft(left)
                 THEN /\ registered' = None
                      /\ orders' = Append(orders, <<"unsubscribe", s>>)
                 ELSE UNCHANGED <<registered, orders>>
      /\ UNCHANGED <<subscribed, wire>>

RedisObeys ==
  /\ orders # <<>>
  /\ orders' = Tail(orders)
  /\ subscribed' = (Head(orders)[1] = "subscribe")
  /\ wire' = IF Head(orders)[1] = "subscribe" THEN Append(wire, Reply(Head(orders)[2]))
             ELSE wire
  /\ UNCHANGED <<streams, registered, members>>

ReadReply ==
  /\ wire # <<>>
  /\ Head(wire).type = "reply"
  /\ wire' = Tail(wire)
  /\ streams' = [streams EXCEPT ![Head(wire).stream].at = "answered"]
  /\ UNCHANGED <<registered, members, orders, subscribed>>

\* PUBLISH: a message nobody is subscribed for is gone.
Publish(event) ==
  /\ wire' = IF subscribed THEN Append(wire, event) ELSE wire
  /\ UNCHANGED <<streams, registered, members, orders, subscribed>>

\* dispatch: the streams that get the next message, if it is an event.
Listening == IF registered = None THEN {}
             ELSE {s \in members[registered] : ~streams[s].closed}

FanoutStep == RedisObeys \/ ReadReply \/ \E s \in Streams : Resume(s)

-----------------------------------------------------------------------------
(* Properties.                                                              *)

\* Whoever has been attached and has not left hears the company's events, and
\* nobody else is listened for, once Redis has done what it was told: "a
\* company's channel is subscribed when its first listener connects and dropped
\* when its last one leaves".  Two races are left, both in the await of the
\* first attach: a stream that came and left meanwhile takes the Map and the
\* subscription along, and a first stream that itself left meanwhile is added
\* to the Map afterwards (EventsService.attach and detach).
ListenersHear ==
  /\ \A s \in Streams :
       Opened(s) /\ streams[s].at = "attached" =>
          \/ s \in Listening /\ (orders = <<>> => subscribed)
          \/ streams[streams[s].map].visitors # {}
  /\ registered # None =>
       \A s \in members[registered] : streams[s].closed => s \in streams[s].visitors

=============================================================================
