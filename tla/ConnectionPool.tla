---------------------------- MODULE ConnectionPool ----------------------------
(***************************************************************************)
(* The connection pool (util/connection_pool.rs): get_or_connect sends a   *)
(* request to the pool actor, which hands it to the connection actor of    *)
(* the node, starting one if there is none; the connection actor connects, *)
(* hands out references, and tells the pool when it is idle or its         *)
(* connection is gone.                                                     *)
(*                                                                         *)
(* All connection actors run inside the pool actor's own task: they make   *)
(* progress only while the pool actor waits for messages, not while it     *)
(* waits for room in a connection actor's queue.  Callers and holders of   *)
(* references are other tasks.                                             *)
(***************************************************************************)
EXTENDS Integers, Sequences, FiniteSets, Functions

CONSTANTS Node, Call,
          Target,          \* the node each call asks for
          MaxConnections,  \* Options::max_connections
          InboxCap,        \* messages the pool actor's channel holds (100)
          QueueCap,        \* requests a connection actor's channel holds (100)
          MaxActors,       \* bound: connection actors ever started
          MaxCloses        \* bound: times a user or a peer closes a connection

ASSUME PoolAssumption ==
  /\ Target \in [Call -> Node] /\ IsFiniteSet(Call) /\ MaxCloses \in Nat
  /\ {MaxConnections, InboxCap, QueueCap, MaxActors} \subseteq Nat \ {0}

VARIABLES inbox,       \* ActorMessages on their way to the pool actor
          connections, \* node -> its connection actor
          idle,        \* the idle nodes, oldest first
          held,        \* the request the pool actor is stuck with, if any
          actor,       \* every connection actor started so far
          call,        \* the state of every call
          ref,         \* the connection actor whose reference a call holds
          closes       \* times a connection was closed from outside

vars == <<inbox, connections, idle, held, actor, call, ref, closes>>

Started == DOMAIN actor

Actor ==
  [node      : Node,
   phase     : {"connecting", "serving", "done"},
   ok        : BOOLEAN,    \* state: connected, or the connect error
   queue     : Seq(Call),  \* its channel
   open      : BOOLEAN,    \* the pool still has the sender
   count     : Nat,        \* ConnectionCounter
   listening : BOOLEAN,    \* the idle stream waits for a notification
   notified  : BOOLEAN,    \* and got it
   timer     : BOOLEAN,    \* the idle timer runs
   closed    : BOOLEAN]    \* the connection was closed and nobody told the pool

Message == [kind : {"request"}, node : Node, call : Call]
             \cup [kind : {"idle", "shutdown"}, node : Node]

TypeOK ==
  /\ inbox \in Seq(Message) /\ Len(inbox) <= InboxCap
  /\ DOMAIN connections \subseteq Node /\ Range(connections) \subseteq Started
  /\ Range(idle) \subseteq Node
  /\ held \in SUBSET (Call \X Started) /\ Cardinality(held) <= 1
  /\ actor \in Seq(Actor) /\ Len(actor) <= MaxActors
  /\ call \in [Call -> {"new", "sent", "ref", "error", "done"}]
  /\ ref \in [Call -> 0..MaxActors]
  /\ closes \in 0..MaxCloses

Init ==
  /\ inbox = <<>>
  /\ connections = <<>>
  /\ idle = <<>>
  /\ held = {}
  /\ actor = <<>>
  /\ call = [c \in Call |-> "new"]
  /\ ref = [c \in Call |-> 0]
  /\ closes = 0

-------------------------------------------------------------------------------
(* Callers *)

\* get_or_connect sends its request once there is room.
GetOrConnect(c) ==
  /\ call[c] = "new" /\ Len(inbox) < InboxCap
  /\ inbox' = Append(inbox, [kind |-> "request", node |-> Target[c], call |-> c])
  /\ call' = [call EXCEPT ![c] = "sent"]
  /\ UNCHANGED <<connections, idle, held, actor, ref, closes>>

\* OneConnection::drop: the last reference notifies whoever listens.
DropRef(c) ==
  /\ call[c] = "ref"
  /\ call' = [call EXCEPT ![c] = "done"]
  /\ LET a == ref[c] IN
     actor' = [actor EXCEPT ![a].count = @ - 1,
                            ![a].notified = @ \/ (actor[a].count = 1 /\ actor[a].listening)]
  /\ UNCHANGED <<inbox, connections, idle, held, ref, closes>>

\* ConnectionPool::close, called by a user.
UserClose(n) ==
  /\ closes < MaxCloses /\ n \in DOMAIN connections /\ Len(inbox) < InboxCap
  /\ closes' = closes + 1
  /\ inbox' = Append(inbox, [kind |-> "shutdown", node |-> n])
  /\ UNCHANGED <<connections, idle, held, actor, call, ref>>

\* The other side closes the connection.
PeerClose(a) ==
  /\ closes < MaxCloses /\ closes' = closes + 1
  /\ actor[a].phase = "serving" /\ actor[a].ok /\ ~actor[a].closed
  /\ actor' = [actor EXCEPT ![a].closed = TRUE]
  /\ UNCHANGED <<inbox, connections, idle, held, call, ref>>

-------------------------------------------------------------------------------
(* The pool actor *)

Without(n) == SelectSeq(idle, LAMBDA m : m # n)

\* Dropping the sender closes the actor's channel; what is queued stays.
CloseChannel(a) == [actor EXCEPT ![a].open = FALSE]

NewActor(n, c) ==
  [node |-> n, phase |-> "connecting", ok |-> FALSE, queue |-> <<c>>,
   open |-> TRUE, count |-> 0, listening |-> FALSE, notified |-> FALSE,
   timer |-> FALSE, closed |-> FALSE]

\* RequestRef for a node with a connection actor: to its queue, or wait for
\* room.  The wait has no end: room comes from the connection actor taking a
\* request, and that runs only when the pool actor is back at its select.
HandToActor(n, c) ==
  LET a == connections[n] IN
  /\ IF Len(actor[a].queue) < QueueCap
       THEN /\ actor' = [actor EXCEPT ![a].queue = Append(@, c)]
            /\ held' = held
       ELSE /\ held' = {<<c, a>>}
            /\ actor' = actor
  /\ idle' = Without(n)
  /\ UNCHANGED <<connections, call, ref, closes>>

\* RequestRef for another node: start an actor, if need be in place of the
\* one that has been idle the longest.
StartActor(n, c) ==
  LET full == Cardinality(DOMAIN connections) >= MaxConnections
      others == Without(n)
      evict == IF full /\ others # <<>> THEN {Head(others)} ELSE {}
      kept == Restrict(connections, DOMAIN connections \ evict)
      gone == {connections[m] : m \in evict \cap DOMAIN connections}
      started == [a \in Started |-> [actor[a] EXCEPT !.open = @ /\ a \notin gone]]
  IN
  /\ idle' = IF evict = {} THEN others ELSE Tail(others)
  /\ IF full /\ evict = {}
       THEN /\ call' = [call EXCEPT ![c] = "error"]
            /\ UNCHANGED <<connections, actor>>
       ELSE /\ Len(actor) < MaxActors
            /\ actor' = Append(started, NewActor(n, c))
            /\ connections' = [m \in DOMAIN kept \cup {n} |->
                                 IF m = n THEN Len(actor) + 1 ELSE kept[m]]
            /\ call' = call
  /\ UNCHANGED <<held, ref, closes>>

\* RequestRef.  A sender whose actor has ended is removed first.
HandleRequest ==
  /\ held = {} /\ inbox # <<>> /\ Head(inbox).kind = "request"
  /\ LET n == Head(inbox).node
         c == Head(inbox).call
     IN IF n \in DOMAIN connections /\ actor[connections[n]].phase # "done"
          THEN HandToActor(n, c)
          ELSE StartActor(n, c)
  /\ inbox' = Tail(inbox)

\* ConnectionIdle: to the end of the idle list.
HandleIdle ==
  /\ held = {} /\ inbox # <<>> /\ Head(inbox).kind = "idle"
  /\ idle' = Append(Without(Head(inbox).node), Head(inbox).node)
  /\ inbox' = Tail(inbox)
  /\ UNCHANGED <<connections, held, actor, call, ref, closes>>

\* Faulty HandleShutdown: the sender is kept somewhere, the channel stays open.
FaultyLeavesOpen ==
  /\ held = {} /\ inbox # <<>> /\ Head(inbox).kind = "shutdown"
  /\ connections' = Restrict(connections, DOMAIN connections \ {Head(inbox).node})
  /\ idle' = Without(Head(inbox).node)
  /\ inbox' = Tail(inbox)
  /\ UNCHANGED <<held, actor, call, ref, closes>>

\* ConnectionShutdown: forget the node's connection, whichever it is.
HandleShutdown ==
  /\ held = {} /\ inbox # <<>> /\ Head(inbox).kind = "shutdown"
  /\ LET n == Head(inbox).node IN
     /\ connections' = Restrict(connections, DOMAIN connections \ {n})
     /\ idle' = Without(n)
     /\ actor' = IF n \in DOMAIN connections THEN CloseChannel(connections[n])
                 ELSE actor
  /\ inbox' = Tail(inbox)
  /\ UNCHANGED <<held, call, ref, closes>>

-------------------------------------------------------------------------------
(* A connection actor: steps of run_connection_actor *)

\* The actor runs while the pool actor waits for messages.
Runs(a, phase) == held = {} /\ actor[a].phase = phase

\* Tell the pool, once there is room.
Tell(kind, a) ==
  /\ Len(inbox) < InboxCap
  /\ inbox' = Append(inbox, [kind |-> kind, node |-> actor[a].node])

Connected(a) ==
  /\ Runs(a, "connecting")
  /\ actor' = [actor EXCEPT ![a].phase = "serving", ![a].ok = TRUE]
  /\ UNCHANGED <<inbox, connections, idle, held, call, ref, closes>>

\* The connect or its callback failed or took longer than connect_timeout.
ConnectFailed(a) ==
  /\ Runs(a, "connecting")
  /\ Tell("shutdown", a)
  /\ actor' = [actor EXCEPT ![a].phase = "serving"]
  /\ UNCHANGED <<connections, idle, held, call, ref, closes>>

\* Faulty Serve: an actor that could not connect puts its requests aside and
\* never answers them.
FaultyDropsRequests(a) ==
  /\ Runs(a, "serving") /\ actor[a].queue # <<>>
  /\ LET c == Head(actor[a].queue) IN
     IF actor[a].ok
       THEN /\ call' = [call EXCEPT ![c] = "ref"]
            /\ ref' = [ref EXCEPT ![c] = a]
            /\ actor' = [actor EXCEPT ![a].queue = Tail(@), ![a].count = @ + 1,
                                      ![a].timer = FALSE]
       ELSE /\ actor' = [actor EXCEPT ![a].queue = Tail(@)]
            /\ UNCHANGED <<call, ref>>
  /\ UNCHANGED <<inbox, connections, idle, held, closes>>

\* A request: a reference, which stops the idle timer, or the connect error.
Serve(a) ==
  /\ Runs(a, "serving") /\ actor[a].queue # <<>>
  /\ LET c == Head(actor[a].queue) IN
     IF actor[a].ok
       THEN /\ call' = [call EXCEPT ![c] = "ref"]
            /\ ref' = [ref EXCEPT ![c] = a]
            /\ actor' = [actor EXCEPT ![a].queue = Tail(@), ![a].count = @ + 1,
                                      ![a].timer = FALSE]
       ELSE /\ call' = [call EXCEPT ![c] = "error"]
            /\ actor' = [actor EXCEPT ![a].queue = Tail(@)]
            /\ ref' = ref
  /\ UNCHANGED <<inbox, connections, idle, held, closes>>

\* The channel is closed and drained: the actor ends and closes its connection.
ChannelClosed(a) ==
  /\ Runs(a, "serving") /\ actor[a].queue = <<>> /\ ~actor[a].open
  /\ actor' = [actor EXCEPT ![a].phase = "done"]
  /\ UNCHANGED <<inbox, connections, idle, held, call, ref, closes>>

\* No request is waiting, so the select looks at its other branches.
Waits(a) == Runs(a, "serving") /\ actor[a].queue = <<>> /\ actor[a].open

\* conn_close: the connection was closed by somebody.
CloseNoticed(a) ==
  /\ Waits(a) /\ actor[a].closed
  /\ Tell("shutdown", a)
  /\ actor' = [actor EXCEPT ![a].closed = FALSE]
  /\ UNCHANGED <<connections, idle, held, call, ref, closes>>

\* The idle stream is polled and starts to wait for a notification; one sent
\* before that is lost.
Listen(a) ==
  /\ Waits(a) /\ ~actor[a].listening
  /\ actor' = [actor EXCEPT ![a].listening = TRUE]
  /\ UNCHANGED <<inbox, connections, idle, held, call, ref, closes>>

\* The idle stream yields: tell the pool and start the timer, if still idle.
IdleNoticed(a) ==
  /\ Waits(a) /\ ~actor[a].closed /\ actor[a].notified
  /\ IF actor[a].count = 0
       THEN /\ Tell("idle", a)
            /\ actor' = [actor EXCEPT ![a].listening = FALSE,
                                      ![a].notified = FALSE, ![a].timer = TRUE]
       ELSE /\ inbox' = inbox
            /\ actor' = [actor EXCEPT ![a].listening = FALSE,
                                      ![a].notified = FALSE]
  /\ UNCHANGED <<connections, idle, held, call, ref, closes>>

\* Faulty IdleTimeout: the actor ends before the pool has closed its channel.
FaultyEndsItself(a) ==
  /\ Waits(a) /\ ~actor[a].closed /\ ~actor[a].notified /\ actor[a].timer
  /\ Tell("shutdown", a)
  /\ actor' = [actor EXCEPT ![a].timer = FALSE, ![a].phase = "done"]
  /\ UNCHANGED <<connections, idle, held, call, ref, closes>>

\* The idle timer expires: ask to be closed, and wait for the pool to do it.
IdleTimeout(a) ==
  /\ Waits(a) /\ ~actor[a].closed /\ ~actor[a].notified /\ actor[a].timer
  /\ Tell("shutdown", a)
  /\ actor' = [actor EXCEPT ![a].timer = FALSE]
  /\ UNCHANGED <<connections, idle, held, call, ref, closes>>

ActorStep(a) ==
  \/ Connected(a) \/ ConnectFailed(a) \/ Serve(a) \/ ChannelClosed(a)
  \/ CloseNoticed(a) \/ Listen(a) \/ IdleNoticed(a) \/ IdleTimeout(a)

PoolStep == HandleRequest \/ HandleIdle \/ HandleShutdown

Next ==
  \/ \E c \in Call : GetOrConnect(c) \/ DropRef(c)
  \/ \E n \in Node : UserClose(n)
  \/ HandleRequest
  \/ HandleIdle
  \/ HandleShutdown
  \/ \E a \in Started :
       \/ PeerClose(a)
       \/ Connected(a)
       \/ ConnectFailed(a)
       \/ Serve(a)
       \/ ChannelClosed(a)
       \/ CloseNoticed(a)
       \/ Listen(a)
       \/ IdleNoticed(a)
       \/ IdleTimeout(a)

Spec == Init /\ [][Next]_vars

\* The pool's task is scheduled, a connect ends or times out, a select takes
\* a branch that stays ready.  Nobody has to drop a reference.
LiveSpec ==
  /\ Spec
  /\ WF_vars(PoolStep)
  /\ \A a \in 1..MaxActors : WF_vars(a \in Started /\ ActorStep(a))

(***************************************************************************)
(* Properties                                                              *)
(***************************************************************************)

\* The actor behind a node's entry is alive and is the node's: a request
\* handed to it is not lost in a dead channel, however close, idle, timeout
\* and connect failure race (handle_msg, "Connection actor died").
MappedAlive ==
  \A n \in DOMAIN connections :
    LET a == actor[connections[n]] IN a.node = n /\ a.open /\ a.phase # "done"

\* Where the request of a call is: in the pool's channel, in the queue of a
\* connection actor, or in the hands of the pool actor.
Requested(c) == \E i \in 1..Len(inbox) : inbox[i].kind = "request" /\ inbox[i].call = c
Queued(c, a) == \E i \in 1..Len(actor[a].queue) : actor[a].queue[i] = c
Held(c) == \E a \in Started : <<c, a>> \in held

\* A call that waits has its request with somebody who will still look at it,
\* whatever evictions, closes and connect failures happen meanwhile.
RequestNotLost ==
  \A c \in Call : call[c] = "sent" =>
    \/ Requested(c)
    \/ \E a \in Started : Queued(c, a) /\ actor[a].phase # "done"
    \/ Held(c)

\* The calls that hold a reference to the actor's connection.
Users(a) == {c \in Call : call[c] = "ref" /\ ref[c] = a}

\* The ConnectionCounter of a connection is the number of references to it
\* that have not been dropped: it never goes below zero, and the connection
\* is reported idle only when nobody uses it.
CounterExact == \A a \in Started : actor[a].count = Cardinality(Users(a))

\* A connection on the idle list, which may be dropped for another, is not in
\* use.  An idle message that a request has overtaken breaks this.
IdleUnused ==
  \A n \in Range(idle) \cap DOMAIN connections : Users(connections[n]) = {}

\* get_or_connect returns: "This is guaranteed to return after approximately
\* [Options::connect_timeout] with either an error or a connection".
GetReturns == \A c \in Call : call[c] = "sent" ~> call[c] \in {"ref", "error", "done"}

\* A connection the pool has forgotten is closed: its actor ends after
\* answering what was still queued.
ForgottenEnds ==
  \A a \in 1..MaxActors :
    (a \in Started /\ ~(a \in Range(connections))) ~>
      (a \in Started /\ actor[a].phase = "done")

===============================================================================
