------------------------ MODULE ConnectionPoolProofs ------------------------
(***************************************************************************)
(* Safety of the connection pool for any nodes, calls, limits and channel  *)
(* sizes.  PInv says where every request is, that no request is in two     *)
(* places, and what the pool's map, the connection actors and their        *)
(* counters know of each other.                                            *)
(***************************************************************************)
EXTENDS ConnectionPool, FiniteSetTheorems, TLAPS

\* Some request of the channel content s is that of the call c.
Asks(s, c) == \E i \in 1..Len(s) : s[i].kind = "request" /\ s[i].call = c

\* No two requests of s are of the same call.
AskedOnce(s) ==
  \A i, j \in 1..Len(s) :
    s[i].kind = "request" /\ s[j].kind = "request" /\ s[i].call = s[j].call => i = j

\* The call c is in the queue q; no call is in q twice.
InQueue(q, c) == \E i \in 1..Len(q) : q[i] = c
Distinct(q) == \A i, j \in 1..Len(q) : q[i] = q[j] => i = j

Types ==
  /\ inbox \in Seq(Message)
  /\ actor \in Seq(Actor)
  /\ call \in [Call -> {"new", "sent", "ref", "error", "done"}]
  /\ ref \in [Call -> Nat]
  /\ held = {} \/ \E c \in Call, a \in Started : held = {<<c, a>>}
  /\ \A c \in Call : call[c] = "ref" => ref[c] \in Started

\* The nodes' entries name living actors; an actor that has ended has no
\* sender left and an empty queue.
Alive ==
  /\ \A n \in DOMAIN connections : connections[n] \in Started
  /\ MappedAlive
  /\ \A a \in Started : actor[a].phase = "done" => ~actor[a].open /\ actor[a].queue = <<>>

\* A request is in one place only, and its call waits for the answer.
Placed(c) == Asks(inbox, c) \/ Held(c) \/ \E a \in Started : InQueue(actor[a].queue, c)

PlaceOf(c) ==
  /\ Placed(c) <=> call[c] = "sent"
  /\ Asks(inbox, c) => ~Held(c) /\ \A a \in Started : ~InQueue(actor[a].queue, c)
  /\ Held(c) => \A a \in Started : ~InQueue(actor[a].queue, c)
  /\ \A a, b \in Started : InQueue(actor[a].queue, c) /\ InQueue(actor[b].queue, c) => a = b

OnePlace ==
  /\ AskedOnce(inbox)
  /\ \A a \in Started : Distinct(actor[a].queue)
  /\ \A c \in Call : PlaceOf(c)

PInv == Types /\ Alive /\ OnePlace /\ CounterExact

-----------------------------------------------------------------------------
(* Channels and queues *)

\* What an Append does to length and elements.
LEMMA AppendFacts ==
  ASSUME NEW S, NEW s \in Seq(S), NEW e \in S
  PROVE  /\ Append(s, e) \in Seq(S)
         /\ Len(s) \in Nat
         /\ Len(Append(s, e)) = Len(s) + 1
         /\ \A i \in 1..Len(s) : Append(s, e)[i] = s[i] /\ i # Len(s) + 1
         /\ Append(s, e)[Len(s) + 1] = e
         /\ Len(s) + 1 \in 1..Len(Append(s, e))
         /\ \A i \in 1..Len(s) : i \in 1..Len(Append(s, e))
         /\ \A i \in 1..Len(Append(s, e)) : i = Len(s) + 1 \/ i \in 1..Len(s)
OBVIOUS

\* What receiving the first element does to the rest.
LEMMA TailFacts ==
  ASSUME NEW S, NEW s \in Seq(S), s # <<>>
  PROVE  /\ Tail(s) \in Seq(S) /\ Head(s) \in S
         /\ Head(s) = s[1] /\ 1 \in 1..Len(s)
         /\ \A i \in 1..Len(Tail(s)) : i + 1 \in 1..Len(s) /\ Tail(s)[i] = s[i + 1] /\ i + 1 # 1
         /\ \A i, j \in 1..Len(Tail(s)) : i + 1 = j + 1 => i = j
         /\ \A i \in 1..Len(s) : i # 1 => \E j \in 1..Len(Tail(s)) : j + 1 = i
<1>1. /\ Tail(s) \in Seq(S) /\ Head(s) \in S /\ Len(s) \in Nat /\ Len(s) > 0
      /\ Head(s) = s[1] /\ Len(Tail(s)) = Len(s) - 1
      /\ \A i \in 1..Len(Tail(s)) : Tail(s)[i] = s[i + 1]
  OBVIOUS
<1>2. ASSUME NEW i \in 1..Len(s), i # 1 PROVE \E j \in 1..Len(Tail(s)) : j + 1 = i
  <2>1. i - 1 \in 1..Len(Tail(s)) /\ (i - 1) + 1 = i
    BY <1>1, <1>2
  <2> QED
    BY <2>1, Zenon
<1> QED
  BY <1>1, <1>2

\* The empty queue.
LEMMA EmptyFacts == ASSUME NEW S PROVE <<>> \in Seq(S) /\ 1..Len(<<>>) = {}
OBVIOUS

\* Sending to the pool adds the message, and with it at most one request.
LEMMA AsksAppend ==
  ASSUME NEW s \in Seq(Message), NEW m \in Message
  PROVE  /\ \A c : Asks(Append(s, m), c) <=> Asks(s, c) \/ (m.kind = "request" /\ m.call = c)
         /\ AskedOnce(s) /\ (m.kind = "request" => ~Asks(s, m.call)) => AskedOnce(Append(s, m))
<1> DEFINE t == Append(s, m)
           l == Len(s) + 1
<1>1. /\ \A i \in 1..Len(s) : t[i] = s[i] /\ i # l /\ i \in 1..Len(t)
      /\ t[l] = m /\ l \in 1..Len(t)
      /\ \A i \in 1..Len(t) : i = l \/ i \in 1..Len(s)
  BY AppendFacts
<1> HIDE DEF t, l
<1>2. ASSUME NEW c PROVE Asks(t, c) <=> Asks(s, c) \/ (m.kind = "request" /\ m.call = c)
  BY <1>1, Zenon DEF Asks
<1>3. ASSUME AskedOnce(s), m.kind = "request" => ~Asks(s, m.call) PROVE AskedOnce(t)
  <2> SUFFICES ASSUME NEW i \in 1..Len(t), NEW j \in 1..Len(t),
                      t[i].kind = "request", t[j].kind = "request", t[i].call = t[j].call
               PROVE  i = j
    BY Zenon DEF AskedOnce
  <2>1. CASE i = l /\ j \in 1..Len(s)
    BY <1>1, <1>3, <2>1, Zenon DEF Asks
  <2>2. CASE j = l /\ i \in 1..Len(s)
    BY <1>1, <1>3, <2>2, Zenon DEF Asks
  <2>3. CASE i \in 1..Len(s) /\ j \in 1..Len(s)
    BY <1>1, <1>3, <2>3, Zenon DEF AskedOnce
  <2> QED
    BY <1>1, <2>1, <2>2, <2>3, Zenon
<1> QED
  BY <1>2, <1>3, Zenon DEF t

\* The pool actor takes a message, and with it at most one request.
LEMMA AsksTail ==
  ASSUME NEW s \in Seq(Message), s # <<>>, AskedOnce(s)
  PROVE  /\ AskedOnce(Tail(s))
         /\ \A c : Asks(Tail(s), c) <=> Asks(s, c) /\ ~(Head(s).kind = "request" /\ Head(s).call = c)
<1> DEFINE t == Tail(s)
<1>1. /\ Head(s) = s[1] /\ 1 \in 1..Len(s)
      /\ \A i \in 1..Len(t) : i + 1 \in 1..Len(s) /\ t[i] = s[i + 1] /\ i + 1 # 1
      /\ \A i, j \in 1..Len(t) : i + 1 = j + 1 => i = j
      /\ \A i \in 1..Len(s) : i # 1 => \E j \in 1..Len(t) : j + 1 = i
  BY TailFacts, Zenon
<1> HIDE DEF t
<1>2. AskedOnce(t)
  <2> SUFFICES ASSUME NEW i \in 1..Len(t), NEW j \in 1..Len(t),
                      t[i].kind = "request", t[j].kind = "request", t[i].call = t[j].call
               PROVE  i = j
    BY Zenon DEF AskedOnce
  <2>1. i + 1 \in 1..Len(s) /\ j + 1 \in 1..Len(s) /\ s[i + 1] = t[i] /\ s[j + 1] = t[j]
    BY <1>1, Zenon
  <2>2. i + 1 = j + 1
    BY <2>1, Zenon DEF AskedOnce
  <2> QED
    BY <1>1, <2>2, Zenon
<1>3. ASSUME NEW c, Asks(t, c) PROVE Asks(s, c) /\ ~(Head(s).kind = "request" /\ Head(s).call = c)
  <2>1. PICK i \in 1..Len(t) : t[i].kind = "request" /\ t[i].call = c
    BY <1>3, Zenon DEF Asks
  <2>2. i + 1 \in 1..Len(s) /\ s[i + 1].kind = "request" /\ s[i + 1].call = c /\ i + 1 # 1
    BY <1>1, <2>1, Zenon
  <2> QED
    BY <1>1, <2>2, Zenon DEF Asks, AskedOnce
<1>4. ASSUME NEW c, Asks(s, c), ~(Head(s).kind = "request" /\ Head(s).call = c) PROVE Asks(t, c)
  <2>1. PICK i \in 1..Len(s) : s[i].kind = "request" /\ s[i].call = c
    BY <1>4, Zenon DEF Asks
  <2>2. PICK j \in 1..Len(t) : j + 1 = i
    BY <1>1, <1>4, <2>1, Zenon
  <2> QED
    BY <1>1, <2>1, <2>2, Zenon DEF Asks
<1> QED
  BY <1>2, <1>3, <1>4, Zenon DEF t

\* A queue with one more call.
LEMMA InQueueAppend ==
  ASSUME NEW q \in Seq(Call), NEW c \in Call
  PROVE  /\ Append(q, c) \in Seq(Call)
         /\ \A d : InQueue(Append(q, c), d) <=> InQueue(q, d) \/ d = c
         /\ Distinct(q) /\ ~InQueue(q, c) => Distinct(Append(q, c))
<1> DEFINE t == Append(q, c)
           l == Len(q) + 1
<1>1. /\ t \in Seq(Call)
      /\ \A i \in 1..Len(q) : t[i] = q[i] /\ i # l /\ i \in 1..Len(t)
      /\ t[l] = c /\ l \in 1..Len(t)
      /\ \A i \in 1..Len(t) : i = l \/ i \in 1..Len(q)
  BY AppendFacts
<1> HIDE DEF t, l
<1>2. ASSUME NEW d PROVE InQueue(t, d) <=> InQueue(q, d) \/ d = c
  BY <1>1, Zenon DEF InQueue
<1>3. ASSUME Distinct(q), ~InQueue(q, c) PROVE Distinct(t)
  BY <1>1, <1>3, Zenon DEF InQueue, Distinct
<1> QED
  BY <1>1, <1>2, <1>3, Zenon DEF t

\* A queue without its first call.
LEMMA InQueueTail ==
  ASSUME NEW q \in Seq(Call), q # <<>>, Distinct(q)
  PROVE  /\ Tail(q) \in Seq(Call) /\ Head(q) \in Call /\ InQueue(q, Head(q))
         /\ Distinct(Tail(q))
         /\ \A d : InQueue(Tail(q), d) <=> InQueue(q, d) /\ d # Head(q)
<1> DEFINE t == Tail(q)
<1>1. /\ t \in Seq(Call) /\ Head(q) \in Call /\ Head(q) = q[1] /\ 1 \in 1..Len(q)
      /\ \A i \in 1..Len(t) : i + 1 \in 1..Len(q) /\ t[i] = q[i + 1] /\ i + 1 # 1
      /\ \A i, j \in 1..Len(t) : i + 1 = j + 1 => i = j
      /\ \A i \in 1..Len(q) : i # 1 => \E j \in 1..Len(t) : j + 1 = i
  BY TailFacts, Zenon
<1> HIDE DEF t
<1>2. Distinct(t) /\ InQueue(q, Head(q))
  <2>1. InQueue(q, Head(q))
    BY <1>1, Zenon DEF InQueue
  <2>2. ASSUME NEW i \in 1..Len(t), NEW j \in 1..Len(t), t[i] = t[j] PROVE i = j
    <3>1. i + 1 = j + 1
      BY <1>1, <2>2, Zenon DEF Distinct
    <3> QED
      BY <1>1, <3>1, Zenon
  <2> QED
    BY <2>1, <2>2, Zenon DEF Distinct
<1>3. ASSUME NEW d, InQueue(t, d) PROVE InQueue(q, d) /\ d # Head(q)
  <2>1. PICK i \in 1..Len(t) : t[i] = d
    BY <1>3, Zenon DEF InQueue
  <2>2. i + 1 \in 1..Len(q) /\ q[i + 1] = d /\ i + 1 # 1
    BY <1>1, <2>1, Zenon
  <2> QED
    BY <1>1, <2>2, Zenon DEF InQueue, Distinct
<1>4. ASSUME NEW d, InQueue(q, d), d # Head(q) PROVE InQueue(t, d)
  <2>1. PICK i \in 1..Len(q) : q[i] = d
    BY <1>4, Zenon DEF InQueue
  <2>2. PICK j \in 1..Len(t) : j + 1 = i
    BY <1>1, <1>4, <2>1, Zenon
  <2> QED
    BY <1>1, <2>1, <2>2, Zenon DEF InQueue
<1> QED
  BY <1>1, <1>2, <1>3, <1>4, Zenon DEF t

\* A fresh queue.
LEMMA InQueueOne ==
  ASSUME NEW c \in Call
  PROVE  /\ <<c>> \in Seq(Call) /\ Distinct(<<c>>)
         /\ \A d : InQueue(<<c>>, d) <=> d = c
         /\ ~InQueue(<<>>, c)
BY DEF Distinct, InQueue

-----------------------------------------------------------------------------
(* What a step leaves alone *)

\* One connection actor changes; the others are as they were.
LEMMA ActorSet ==
  ASSUME actor \in Seq(Actor), NEW a \in Started, NEW r \in Actor,
         actor' = [actor EXCEPT ![a] = r]
  PROVE  /\ actor' \in Seq(Actor)
         /\ Started' = Started
         /\ actor'[a] = r
         /\ \A b \in Started : b # a => actor'[b] = actor[b]
BY DEF Started

\* A message of the pool that is not a request.
LEMMA Notice ==
  ASSUME NEW n \in Node, NEW k \in {"idle", "shutdown"}
  PROVE  [kind |-> k, node |-> n] \in Message /\ [kind |-> k, node |-> n].kind # "request"
BY Zenon DEF Message

\* Telling the pool something that is not a request moves no request.
LEMMA NoticeSent ==
  ASSUME Types, AskedOnce(inbox), NEW n \in Node, NEW k \in {"idle", "shutdown"},
         inbox' = Append(inbox, [kind |-> k, node |-> n])
  PROVE  /\ inbox' \in Seq(Message) /\ AskedOnce(inbox')
         /\ \A c : Asks(inbox', c) <=> Asks(inbox, c)
<1>1. PICK m \in Message : m.kind # "request" /\ inbox' = Append(inbox, m)
  BY Notice, Zenon
<1>2. inbox \in Seq(Message)
  BY Zenon DEF Types
<1>3. inbox' \in Seq(Message)
  BY <1>1, <1>2, AppendFacts
<1> QED
  BY <1>1, <1>2, <1>3, AsksAppend, ZenonT(60)

\* The request of a call stays in its place.
LEMMA PlaceKept ==
  ASSUME NEW c \in Call, PlaceOf(c),
         Asks(inbox', c) <=> Asks(inbox, c),
         Held(c)' <=> Held(c),
         call'[c] = "sent" <=> call[c] = "sent",
         \A a \in Started : a \in Started'
                            /\ (InQueue(actor'[a].queue, c) <=> InQueue(actor[a].queue, c)),
         \A a \in Started' : a \in Started \/ ~InQueue(actor'[a].queue, c)
  PROVE  PlaceOf(c)'
<1> DEFINE Q(a) == InQueue(actor[a].queue, c)
<1>1. \A a \in Started' : (a \in Started /\ Q(a)) \/ ~Q(a)'
  BY Zenon
<1>2. \A a \in Started : a \in Started' /\ (Q(a)' <=> Q(a))
  BY Zenon
<1>3. PlaceOf(c) <=>
        /\ (Asks(inbox, c) \/ Held(c) \/ \E a \in Started : Q(a)) <=> call[c] = "sent"
        /\ Asks(inbox, c) => ~Held(c) /\ \A a \in Started : ~Q(a)
        /\ Held(c) => \A a \in Started : ~Q(a)
        /\ \A a, b \in Started : Q(a) /\ Q(b) => a = b
  BY Zenon DEF PlaceOf, Placed
<1>4. PlaceOf(c)' <=>
        /\ (Asks(inbox, c)' \/ Held(c)' \/ \E a \in Started' : Q(a)') <=> call'[c] = "sent"
        /\ Asks(inbox, c)' => ~Held(c)' /\ \A a \in Started' : ~Q(a)'
        /\ Held(c)' => \A a \in Started' : ~Q(a)'
        /\ \A a, b \in Started' : Q(a)' /\ Q(b)' => a = b
  BY Zenon DEF PlaceOf, Placed
<1>5. Asks(inbox, c)' <=> Asks(inbox', c)
  BY Zenon DEF Asks
<1> HIDE DEF Q
<1> QED
  BY <1>1, <1>2, <1>3, <1>4, <1>5, Zenon

\* The counters stay right when no reference is given or dropped and every
\* actor keeps its counter.
LEMMA CounterKept ==
  ASSUME CounterExact, \A c \in Call : (call'[c] = "ref" <=> call[c] = "ref"), ref' = ref,
         Started' = Started, \A a \in Started : actor'[a].count = actor[a].count
  PROVE  CounterExact'
<1>1. ASSUME NEW a \in Started PROVE Users(a)' = Users(a)
  BY Zenon DEF Users
<1> QED
  BY <1>1, Zenon DEF CounterExact

\* The nodes' entries keep naming living actors when some of them are
\* forgotten and the actors of the others stay open and alive.
LEMMA AliveKept ==
  ASSUME Alive,
         DOMAIN connections' \subseteq DOMAIN connections,
         \A n \in DOMAIN connections' :
           /\ connections'[n] = connections[n]
           /\ actor'[connections[n]].open /\ actor'[connections[n]].phase # "done",
         Started' = Started,
         \A a \in Started : actor'[a].node = actor[a].node,
         \A a \in Started : actor'[a].phase = "done" => ~actor'[a].open /\ actor'[a].queue = <<>>
  PROVE  Alive'
<1>1. ASSUME NEW n \in DOMAIN connections'
      PROVE  /\ connections'[n] \in Started
             /\ actor'[connections'[n]].node = n
             /\ actor'[connections'[n]].open /\ actor'[connections'[n]].phase # "done"
  <2>1. n \in DOMAIN connections /\ connections'[n] = connections[n]
    BY Zenon
  <2>2. connections[n] \in Started /\ actor[connections[n]].node = n
    BY <2>1, Zenon DEF Alive, MappedAlive
  <2> QED
    BY <2>1, <2>2, Zenon
<1>2. MappedAlive'
  BY <1>1, Zenon DEF MappedAlive
<1> QED
  BY <1>1, <1>2, Zenon DEF Alive

\* Steps that move no request, give and take no reference, and leave the
\* pool's map alone: messages that are not requests, and a connection actor
\* that connects, fails to connect or looks at its other select branches.
LEMMA QuietStep ==
  ASSUME PInv,
         actor' \in Seq(Actor), Started' = Started,
         \A a \in Started :
           /\ actor'[a].node = actor[a].node /\ actor'[a].open = actor[a].open
           /\ actor'[a].queue = actor[a].queue /\ actor'[a].count = actor[a].count
           /\ actor'[a].phase = "done" <=> actor[a].phase = "done",
         inbox' \in Seq(Message), AskedOnce(inbox'),
         \A c : Asks(inbox', c) <=> Asks(inbox, c),
         UNCHANGED <<connections, held, call, ref>>
  PROVE  PInv'
<1> USE DEF PInv
<1>1. Types'
  BY Zenon DEF Types
<1>2. MappedAlive'
  BY ZenonT(60) DEF Alive, MappedAlive
<1>3. Alive'
  BY <1>2, Zenon DEF Alive
<1>4. ASSUME NEW c \in Call PROVE PlaceOf(c)'
  <2>1. PlaceOf(c) /\ (Held(c)' <=> Held(c)) /\ (call'[c] = "sent" <=> call[c] = "sent")
    BY Zenon DEF OnePlace, Held
  <2> QED
    BY <2>1, PlaceKept, Zenon
<1>5. AskedOnce(inbox)' /\ \A a \in Started' : Distinct(actor[a].queue)'
  <2>1. \A a \in Started : Distinct(actor[a].queue)
    BY Zenon DEF OnePlace
  <2>2. \A a \in Started' : Distinct(actor'[a].queue)
    BY <2>1, Zenon
  <2> QED
    BY <2>2, Zenon DEF AskedOnce, Distinct
<1>6. CounterExact'
  BY CounterKept, Zenon
<1> QED
  BY <1>1, <1>3, <1>4, <1>5, <1>6, Zenon DEF OnePlace

\* A connection actor changes its own business only.
LEMMA QuietActor ==
  ASSUME PInv, NEW a \in Started, NEW r \in Actor, actor' = [actor EXCEPT ![a] = r],
         r.node = actor[a].node, r.open = actor[a].open,
         r.queue = actor[a].queue, r.count = actor[a].count,
         r.phase = "done" <=> actor[a].phase = "done",
         inbox' \in Seq(Message), AskedOnce(inbox'),
         \A c : Asks(inbox', c) <=> Asks(inbox, c),
         UNCHANGED <<connections, held, call, ref>>
  PROVE  PInv'
<1>1. actor \in Seq(Actor)
  BY Zenon DEF PInv, Types
<1>2. /\ actor' \in Seq(Actor) /\ Started' = Started
      /\ \A b \in Started : (b = a /\ actor'[b] = r) \/ actor'[b] = actor[b]
  BY <1>1, ActorSet, Zenon
<1>3. \A b \in Started :
        /\ actor'[b].node = actor[b].node /\ actor'[b].open = actor[b].open
        /\ actor'[b].queue = actor[b].queue /\ actor'[b].count = actor[b].count
        /\ actor'[b].phase = "done" <=> actor[b].phase = "done"
  BY <1>2, Zenon
<1> QED
  BY <1>2, <1>3, QuietStep, Zenon

\* The steps of a connection actor that concern neither requests nor
\* references.
LEMMA QuietActions ==
  ASSUME PInv, NEW a \in Started,
         \/ PeerClose(a) \/ Connected(a) \/ ConnectFailed(a) \/ CloseNoticed(a)
         \/ Listen(a) \/ IdleNoticed(a) \/ IdleTimeout(a)
  PROVE  PInv'
<1>1. /\ actor \in Seq(Actor) /\ inbox \in Seq(Message) /\ Types /\ AskedOnce(inbox)
  BY Zenon DEF PInv, Types, OnePlace
<1>2. actor[a] \in Actor
  BY <1>1 DEF Started
<1>3. actor[a].node \in Node
  BY <1>2, Zenon DEF Actor
<1>4. inbox' \in Seq(Message) /\ AskedOnce(inbox') /\ \A c : Asks(inbox', c) <=> Asks(inbox, c)
  <2>1. CASE inbox' = inbox
    BY <1>1, <2>1, Zenon
  <2>2. ASSUME NEW k \in {"idle", "shutdown"}, Tell(k, a)
        PROVE  inbox' \in Seq(Message) /\ AskedOnce(inbox') /\ \A c : Asks(inbox', c) <=> Asks(inbox, c)
    BY <1>1, <1>3, <2>2, NoticeSent, Zenon DEF Tell
  <2>3. inbox' = inbox \/ Tell("shutdown", a) \/ Tell("idle", a)
    BY Zenon DEF PeerClose, Connected, ConnectFailed, CloseNoticed, Listen, IdleNoticed, IdleTimeout
  <2> QED
    BY <2>1, <2>2, <2>3, Zenon
<1>5. UNCHANGED <<connections, held, call, ref>>
  BY Zenon DEF PeerClose, Connected, ConnectFailed, CloseNoticed, Listen, IdleNoticed, IdleTimeout
<1> DEFINE Quiet(r) ==
             /\ r \in Actor /\ actor' = [actor EXCEPT ![a] = r]
             /\ r.node = actor[a].node /\ r.open = actor[a].open
             /\ r.queue = actor[a].queue /\ r.count = actor[a].count
             /\ r.phase = "done" <=> actor[a].phase = "done"
<1>6. \E r : Quiet(r)
  <2>1. CASE PeerClose(a)
    <3>1. Quiet([actor[a] EXCEPT !.closed = TRUE])
      BY <1>2, <2>1, Zenon DEF PeerClose, Actor
    <3> QED
      BY <3>1, Zenon
  <2>2. CASE Connected(a)
    <3>1. Quiet([actor[a] EXCEPT !.phase = "serving", !.ok = TRUE])
      BY <1>1, <1>2, <2>2, Zenon DEF Connected, Runs, Actor
    <3> QED
      BY <3>1, Zenon
  <2>3. CASE ConnectFailed(a)
    <3>1. Quiet([actor[a] EXCEPT !.phase = "serving"])
      BY <1>2, <2>3, Zenon DEF ConnectFailed, Runs, Actor
    <3> QED
      BY <3>1, Zenon
  <2>4. CASE CloseNoticed(a)
    <3>1. Quiet([actor[a] EXCEPT !.closed = FALSE])
      BY <1>2, <2>4, Zenon DEF CloseNoticed, Actor
    <3> QED
      BY <3>1, Zenon
  <2>5. CASE Listen(a)
    <3>1. Quiet([actor[a] EXCEPT !.listening = TRUE])
      BY <1>2, <2>5, Zenon DEF Listen, Actor
    <3> QED
      BY <3>1, Zenon
  <2>6. CASE IdleNoticed(a) /\ actor[a].count = 0
    <3>1. Quiet([actor[a] EXCEPT !.listening = FALSE, !.notified = FALSE, !.timer = TRUE])
      BY <1>1, <1>2, <2>6, Zenon DEF IdleNoticed, Actor
    <3> QED
      BY <3>1, Zenon
  <2>7. CASE IdleNoticed(a) /\ actor[a].count # 0
    <3>1. Quiet([actor[a] EXCEPT !.listening = FALSE, !.notified = FALSE])
      BY <1>1, <1>2, <2>7, Zenon DEF IdleNoticed, Actor
    <3> QED
      BY <3>1, Zenon
  <2>8. CASE IdleTimeout(a)
    <3>1. Quiet([actor[a] EXCEPT !.timer = FALSE])
      BY <1>2, <2>8, Zenon DEF IdleTimeout, Actor
    <3> QED
      BY <3>1, Zenon
  <2> QED
    BY <2>1, <2>2, <2>3, <2>4, <2>5, <2>6, <2>7, <2>8, Zenon
<1>7. PICK r : Quiet(r)
  BY <1>6, Zenon
<1> QED
  BY <1>4, <1>5, <1>7, QuietActor, Zenon

\* A user closes a connection; the pool takes note of an idle one.
LEMMA UserCloseStep == ASSUME PInv, NEW n \in Node, UserClose(n) PROVE PInv'
<1>1. /\ actor \in Seq(Actor) /\ Types /\ AskedOnce(inbox)
  BY Zenon DEF PInv, Types, OnePlace
<1>2. inbox' = Append(inbox, [kind |-> "shutdown", node |-> n]) /\ UNCHANGED <<connections, held, actor, call, ref>>
  BY Zenon DEF UserClose
<1>3. inbox' \in Seq(Message) /\ AskedOnce(inbox') /\ \A c : Asks(inbox', c) <=> Asks(inbox, c)
  BY <1>1, <1>2, NoticeSent, Zenon
<1>4. Started' = Started
  BY <1>2, Zenon DEF Started
<1> QED
  BY <1>1, <1>2, <1>3, <1>4, QuietStep, Zenon

LEMMA HandleIdleStep == ASSUME PInv, HandleIdle PROVE PInv'
<1>1. /\ actor \in Seq(Actor) /\ inbox \in Seq(Message) /\ AskedOnce(inbox)
  BY Zenon DEF PInv, Types, OnePlace
<1>2. /\ inbox # <<>> /\ Head(inbox).kind # "request" /\ inbox' = Tail(inbox)
      /\ UNCHANGED <<connections, held, actor, call, ref>>
  BY Zenon DEF HandleIdle
<1>3. inbox' \in Seq(Message)
  BY <1>1, <1>2, TailFacts, Zenon
<1>4. AskedOnce(inbox') /\ \A c : Asks(inbox', c) <=> Asks(inbox, c)
  BY <1>1, <1>2, AsksTail, Zenon
<1>5. Started' = Started
  BY <1>2, Zenon DEF Started
<1> QED
  BY <1>1, <1>2, <1>3, <1>4, <1>5, QuietStep, Zenon

-----------------------------------------------------------------------------
(* Callers *)

\* get_or_connect: the request of a new call goes to the pool's channel.
LEMMA GetOrConnectStep == ASSUME PInv, NEW c \in Call, GetOrConnect(c) PROVE PInv'
<1> USE DEF PInv
<1>1. /\ inbox \in Seq(Message) /\ AskedOnce(inbox)
      /\ call \in [Call -> {"new", "sent", "ref", "error", "done"}]
  BY Zenon DEF Types, OnePlace
<1>2. PICK m \in Message : /\ m.kind = "request" /\ m.call = c
                           /\ inbox' = Append(inbox, m)
  <2>1. Target[c] \in Node
    BY PoolAssumption, Zenon
  <2>2. [kind |-> "request", node |-> Target[c], call |-> c] \in Message
    BY <2>1, Zenon DEF Message
  <2> QED
    BY <2>2, Zenon DEF GetOrConnect
<1>3. /\ call[c] = "new" /\ UNCHANGED <<connections, held, actor, ref>>
      /\ Started' = Started
      /\ call' = [call EXCEPT ![c] = "sent"]
  BY Zenon DEF GetOrConnect, Started
<1>4. /\ call' \in [Call -> {"new", "sent", "ref", "error", "done"}]
      /\ call'[c] = "sent" /\ \A d \in Call : d # c => call'[d] = call[d]
  BY <1>1, <1>3, Zenon
<1>5. PlaceOf(c)
  BY Zenon DEF OnePlace
<1>6. ~Placed(c) /\ call[c] # "sent"
  <2>1. call[c] # "sent"
    BY <1>3, Zenon
  <2> QED
    BY <1>5, <2>1, Zenon DEF PlaceOf
<1>7. ~Asks(inbox, c) /\ ~Held(c) /\ \A a \in Started : ~InQueue(actor[a].queue, c)
  BY <1>6, Zenon DEF Placed
<1>8. AskedOnce(inbox') /\ \A d : Asks(inbox', d) <=> Asks(inbox, d) \/ d = c
  BY <1>1, <1>2, <1>7, AsksAppend, Zenon
<1>9. inbox' \in Seq(Message)
  BY <1>1, <1>2, AppendFacts, Zenon
<1>10. \A d \in Call : (call'[d] = "ref" <=> call[d] = "ref") /\ (Held(d)' <=> Held(d))
  BY <1>3, <1>4, Zenon DEF Held
<1>11. Types'
  BY <1>3, <1>4, <1>9, <1>10, Zenon DEF Types
<1>12. Alive'
  BY <1>3, Zenon DEF Alive, MappedAlive
<1>13. ASSUME NEW d \in Call PROVE PlaceOf(d)'
  <2>1. CASE d = c
    <3>1. Asks(inbox, c)' <=> TRUE
      BY <1>8, Zenon DEF Asks
    <3>2. ~Held(c)' /\ \A a \in Started' : ~InQueue(actor[a].queue, c)'
      BY <1>3, <1>7, <1>10, Zenon DEF InQueue
    <3> QED
      BY <1>4, <2>1, <3>1, <3>2, Zenon DEF PlaceOf, Placed
  <2>2. CASE d # c
    BY <1>3, <1>4, <1>8, <1>10, <2>2, PlaceKept, Zenon DEF OnePlace
  <2> QED
    BY <2>1, <2>2, Zenon
<1>14. AskedOnce(inbox)' /\ \A a \in Started' : Distinct(actor[a].queue)'
  BY <1>3, <1>8, ZenonT(60) DEF OnePlace, AskedOnce, Distinct
<1>15. CounterExact'
  BY <1>3, <1>10, CounterKept, Zenon
<1> QED
  BY <1>11, <1>12, <1>13, <1>14, <1>15, Zenon DEF OnePlace

\* The references to a connection, one dropped or one more.
LEMMA UsersFinite ==
  ASSUME NEW a
  PROVE  IsFiniteSet(Users(a)) /\ Cardinality(Users(a)) \in Nat
<1>1. Users(a) \subseteq Call /\ IsFiniteSet(Call)
  BY PoolAssumption, Zenon DEF Users
<1>2. IsFiniteSet(Users(a))
  BY <1>1, FS_Subset, Zenon
<1> QED
  BY <1>2, FS_CardinalityType, Zenon

\* The last reference notifies; every reference counts down by one.
LEMMA DropRefStep == ASSUME PInv, NEW c \in Call, DropRef(c) PROVE PInv'
<1> USE DEF PInv
<1>1. /\ actor \in Seq(Actor) /\ call \in [Call -> {"new", "sent", "ref", "error", "done"}]
      /\ call[c] = "ref" /\ ref[c] \in Started
  BY Zenon DEF Types, DropRef
<1>0. PICK a \in Started : a = ref[c]
  BY <1>1, Zenon
<1>2. actor[a] \in Actor
  BY <1>1 DEF Started
<1>3. c \in Users(a) /\ actor[a].count = Cardinality(Users(a))
  BY <1>0, <1>1, Zenon DEF Users, CounterExact
<1>4. /\ IsFiniteSet(Users(a) \ {c}) /\ Cardinality(Users(a) \ {c}) \in Nat
      /\ Cardinality(Users(a) \ {c}) = actor[a].count - 1
  <2>1. IsFiniteSet(Users(a))
    BY UsersFinite, Zenon
  <2>2. IsFiniteSet(Users(a) \ {c}) /\ Cardinality(Users(a) \ {c}) = actor[a].count - 1
    BY <1>3, <2>1, FS_RemoveElement, Zenon
  <2> QED
    BY <2>2, FS_CardinalityType, Zenon
<1>5. PICK r \in Actor :
        /\ actor' = [actor EXCEPT ![a] = r]
        /\ r.node = actor[a].node /\ r.open = actor[a].open /\ r.phase = actor[a].phase
        /\ r.queue = actor[a].queue /\ r.count = Cardinality(Users(a) \ {c})
  <2> DEFINE s == [actor[a] EXCEPT !.count = actor[a].count - 1,
                                   !.notified = actor[a].notified
                                     \/ (actor[a].count = 1 /\ actor[a].listening)]
  <2>1. s \in Actor
    BY <1>2, <1>4, Zenon DEF Actor
  <2>2. actor' = [actor EXCEPT ![a] = s]
    BY <1>0, <1>1, <1>2, Zenon DEF DropRef, Actor
  <2>3. /\ s.node = actor[a].node /\ s.open = actor[a].open /\ s.phase = actor[a].phase
        /\ s.queue = actor[a].queue /\ s.count = actor[a].count - 1
    BY <1>2, Zenon DEF Actor
  <2> QED
    BY <1>4, <2>1, <2>2, <2>3, Zenon
<1>6. /\ call' = [call EXCEPT ![c] = "done"] /\ UNCHANGED <<inbox, connections, held, ref>>
  BY Zenon DEF DropRef
<1>7. /\ call' \in [Call -> {"new", "sent", "ref", "error", "done"}]
      /\ call'[c] = "done" /\ call[c] # "sent" /\ call'[c] # "ref"
      /\ \A d \in Call : d # c => call'[d] = call[d]
      /\ \A d \in Call : call'[d] = "sent" <=> call[d] = "sent"
  BY <1>1, <1>6, Zenon
<1>8. /\ actor' \in Seq(Actor) /\ Started' = Started /\ actor'[a] = r
      /\ \A b \in Started : b # a => actor'[b] = actor[b]
  BY <1>1, <1>5, ActorSet, Zenon
<1>9. \A b \in Started :
        /\ actor'[b].node = actor[b].node /\ actor'[b].open = actor[b].open
        /\ actor'[b].queue = actor[b].queue /\ actor'[b].phase = actor[b].phase
  BY <1>5, <1>8, Zenon
<1>10. Types'
  BY <1>6, <1>7, <1>8, Zenon DEF Types
<1>11. Alive'
  <2>1. MappedAlive'
    <3> SUFFICES ASSUME NEW n \in DOMAIN connections
                 PROVE  /\ actor'[connections[n]].node = n /\ actor'[connections[n]].open
                        /\ actor'[connections[n]].phase # "done"
      BY <1>6, Zenon DEF MappedAlive
    <3>1. /\ connections[n] \in Started
          /\ actor[connections[n]].node = n /\ actor[connections[n]].open
          /\ actor[connections[n]].phase # "done"
      BY Zenon DEF Alive, MappedAlive
    <3> QED
      BY <1>9, <3>1, Zenon
  <2> QED
    BY <1>6, <1>8, <1>9, <2>1, ZenonT(60) DEF Alive
<1>12. ASSUME NEW d \in Call PROVE PlaceOf(d)'
  <2>1. PlaceOf(d) /\ (Held(d)' <=> Held(d)) /\ (Asks(inbox', d) <=> Asks(inbox, d))
    BY <1>6, <1>8, Zenon DEF OnePlace, Held
  <2> QED
    BY <1>7, <1>8, <1>9, <2>1, PlaceKept, Zenon
<1>13. AskedOnce(inbox)' /\ \A b \in Started' : Distinct(actor[b].queue)'
  <2>1. AskedOnce(inbox') /\ \A b \in Started' : Distinct(actor'[b].queue)
    BY <1>6, <1>8, <1>9, Zenon DEF OnePlace
  <2> QED
    BY <2>1, Zenon DEF AskedOnce, Distinct
<1>14. CounterExact'
  <2>1. Users(a)' = Users(a) \ {c}
    BY <1>0, <1>6, <1>7, Zenon DEF Users
  <2>2. ASSUME NEW b \in Started, b # a PROVE Users(b)' = Users(b)
    BY <1>0, <1>6, <1>7, <2>2, Zenon DEF Users
  <2>3. ASSUME NEW b \in Started PROVE actor'[b].count = Cardinality(Users(b)')
    BY <1>5, <1>8, <2>1, <2>2, Zenon DEF CounterExact
  <2> QED
    BY <1>8, <2>3, Zenon DEF CounterExact
<1> QED
  BY <1>10, <1>11, <1>12, <1>13, <1>14, Zenon DEF OnePlace

-----------------------------------------------------------------------------
(* The pool actor *)

\* The pool actor takes a request from its channel: it is nowhere else, and
\* its call waits.
LEMMA RequestTaken ==
  ASSUME PInv, inbox # <<>>, Head(inbox).kind = "request", inbox' = Tail(inbox)
  PROVE  /\ Head(inbox).node \in Node /\ Head(inbox).call \in Call
         /\ inbox' \in Seq(Message) /\ AskedOnce(inbox')
         /\ \A d : Asks(inbox', d) <=> Asks(inbox, d) /\ d # Head(inbox).call
         /\ call[Head(inbox).call] = "sent" /\ ~Held(Head(inbox).call)
         /\ \A a \in Started : ~InQueue(actor[a].queue, Head(inbox).call)
<1>1. inbox \in Seq(Message) /\ AskedOnce(inbox)
  BY Zenon DEF PInv, Types, OnePlace
<1>2. Head(inbox) \in Message /\ inbox' \in Seq(Message) /\ Head(inbox) = inbox[1] /\ 1 \in 1..Len(inbox)
  BY <1>1, TailFacts, Zenon
<1>3. Head(inbox).node \in Node /\ Head(inbox).call \in Call
  BY <1>2, Zenon DEF Message
<1>4. AskedOnce(inbox') /\ \A d : Asks(inbox', d) <=> Asks(inbox, d) /\ d # Head(inbox).call
  BY <1>1, AsksTail, Zenon
<1>5. Asks(inbox, Head(inbox).call) /\ PlaceOf(Head(inbox).call)
  BY <1>2, <1>3, Zenon DEF PInv, OnePlace, Asks
<1> QED
  BY <1>2, <1>3, <1>4, <1>5, Zenon DEF PlaceOf, Placed

\* The request goes to the queue of the node's connection actor.
LEMMA HandOverStep ==
  ASSUME PInv, HandleRequest, Head(inbox).node \in DOMAIN connections,
         Len(actor[connections[Head(inbox).node]].queue) < QueueCap
  PROVE  PInv'
<1> USE DEF PInv
<1>1. PICK c \in Call, n \in DOMAIN connections : c = Head(inbox).call /\ n = Head(inbox).node
  BY RequestTaken, Zenon DEF HandleRequest
<1>2. PICK a \in Started : a = connections[n]
  BY Zenon DEF Alive
<1>3. /\ actor[a].phase # "done"
      /\ actor' = [actor EXCEPT ![a].queue = Append(@, c)]
      /\ UNCHANGED <<connections, held, call, ref>>
  <2>1. actor[a].phase # "done"
    BY <1>2, Zenon DEF Alive, MappedAlive
  <2>2. HandToActor(n, c)
    BY <1>1, <1>2, <2>1, Zenon DEF HandleRequest
  <2> QED
    BY <1>1, <1>2, <2>1, <2>2, Zenon DEF HandToActor
<1>4. /\ inbox' \in Seq(Message) /\ AskedOnce(inbox')
      /\ \A d : Asks(inbox', d) <=> Asks(inbox, d) /\ d # c
      /\ call[c] = "sent" /\ ~Held(c)
      /\ \A b \in Started : ~InQueue(actor[b].queue, c)
  BY <1>1, RequestTaken, Zenon DEF HandleRequest
<1>5. actor \in Seq(Actor)
  BY Zenon DEF Types
<1>6. actor[a] \in Actor
  BY <1>5 DEF Started
<1>7. actor[a].queue \in Seq(Call)
  BY <1>6, Zenon DEF Actor
<1>8. PICK q \in Seq(Call) :
        /\ q = Append(actor[a].queue, c) /\ Distinct(q)
        /\ \A d : InQueue(q, d) <=> InQueue(actor[a].queue, d) \/ d = c
  <2>1. Distinct(actor[a].queue) /\ ~InQueue(actor[a].queue, c)
    BY <1>4, Zenon DEF OnePlace
  <2> QED
    BY <1>7, <2>1, InQueueAppend, ZenonT(60)
<1>9. PICK r \in Actor :
        /\ actor' = [actor EXCEPT ![a] = r]
        /\ r.node = actor[a].node /\ r.open = actor[a].open /\ r.phase = actor[a].phase
        /\ r.count = actor[a].count /\ r.queue = q
  <2> DEFINE s == [actor[a] EXCEPT !.queue = q]
  <2>1. s \in Actor
    BY <1>6, Zenon DEF Actor
  <2>2. actor' = [actor EXCEPT ![a] = s]
    BY <1>3, <1>6, <1>8, Zenon DEF Actor
  <2>3. /\ s.node = actor[a].node /\ s.open = actor[a].open /\ s.phase = actor[a].phase
        /\ s.count = actor[a].count /\ s.queue = q
    BY <1>6, Zenon DEF Actor
  <2> QED
    BY <2>1, <2>2, <2>3, Zenon
<1>10. /\ actor' \in Seq(Actor) /\ Started' = Started /\ actor'[a] = r
       /\ \A b \in Started : b # a => actor'[b] = actor[b]
  BY <1>5, <1>9, ActorSet, Zenon
<1>11. \A b \in Started :
        /\ actor'[b].node = actor[b].node /\ actor'[b].open = actor[b].open
        /\ actor'[b].count = actor[b].count /\ actor'[b].phase = actor[b].phase
  BY <1>9, <1>10, Zenon
<1>11a. \A b \in Started : actor[b].phase = "done" => actor'[b].queue = actor[b].queue
  BY <1>3, <1>10, Zenon
<1>12. Types'
  BY <1>3, <1>4, <1>10, Zenon DEF Types
<1>13. Alive'
  <2>1. \A m \in DOMAIN connections :
          actor'[connections[m]].open /\ actor'[connections[m]].phase # "done"
    <3>1. ASSUME NEW m \in DOMAIN connections
          PROVE  actor[connections[m]].open /\ actor[connections[m]].phase # "done"
                 /\ connections[m] \in Started
      BY Zenon DEF Alive, MappedAlive
    <3> QED
      BY <1>11, <3>1, ZenonT(60)
  <2>2. \A b \in Started : actor'[b].phase = "done" => ~actor'[b].open /\ actor'[b].queue = <<>>
    BY <1>11, <1>11a, Zenon DEF Alive
  <2> QED
    BY <1>3, <1>10, <1>11, <2>1, <2>2, AliveKept, Zenon
<1>14. ASSUME NEW d \in Call PROVE PlaceOf(d)'
  <2>1. CASE d = c
    <3>0. \A b \in Started' : InQueue(actor'[b].queue, c) <=> b = a
      BY <1>4, <1>8, <1>9, <1>10, Zenon
    <3>1. \A b \in Started' : InQueue(actor[b].queue, c)' <=> b = a
      BY <3>0, Zenon DEF InQueue
    <3>2. ~Asks(inbox, c)' /\ ~Held(c)' /\ call'[c] = "sent" /\ a \in Started'
      BY <1>3, <1>4, <1>10, Zenon DEF Asks, Held
    <3> QED
      BY <2>1, <3>1, <3>2, Zenon DEF PlaceOf, Placed
  <2>2. CASE d # c
    <3>1. \A b \in Started : InQueue(actor'[b].queue, d) <=> InQueue(actor[b].queue, d)
      BY <1>8, <1>9, <1>10, <2>2, ZenonT(60)
    <3>2. PlaceOf(d) /\ (Held(d)' <=> Held(d)) /\ (Asks(inbox', d) <=> Asks(inbox, d))
      BY <1>3, <1>4, <1>10, <2>2, Zenon DEF OnePlace, Held
    <3> QED
      BY <1>3, <1>10, <3>1, <3>2, PlaceKept, Zenon
  <2> QED
    BY <2>1, <2>2, Zenon
<1>15. AskedOnce(inbox)' /\ \A b \in Started' : Distinct(actor[b].queue)'
  <2>1. AskedOnce(inbox') /\ \A b \in Started' : Distinct(actor'[b].queue)
    BY <1>4, <1>8, <1>9, <1>10, ZenonT(60) DEF OnePlace
  <2> QED
    BY <2>1, Zenon DEF AskedOnce, Distinct
<1>16. CounterExact'
  BY <1>3, <1>10, <1>11, CounterKept, Zenon
<1> QED
  BY <1>12, <1>13, <1>14, <1>15, <1>16, Zenon DEF OnePlace

\* The queue is full: the pool actor keeps the request in its hands.
LEMMA HoldStep ==
  ASSUME PInv, HandleRequest, Head(inbox).node \in DOMAIN connections,
         ~(Len(actor[connections[Head(inbox).node]].queue) < QueueCap)
  PROVE  PInv'
<1> USE DEF PInv
<1>1. PICK c \in Call, n \in DOMAIN connections : c = Head(inbox).call /\ n = Head(inbox).node
  BY RequestTaken, Zenon DEF HandleRequest
<1>2. PICK a \in Started : a = connections[n]
  BY Zenon DEF Alive
<1>3. /\ held = {} /\ held' = {<<c, a>>} /\ UNCHANGED <<actor, connections, call, ref>>
      /\ Started' = Started
  <2>1. actor[a].phase # "done"
    BY <1>2, Zenon DEF Alive, MappedAlive
  <2>2. HandToActor(n, c)
    BY <1>1, <1>2, <2>1, Zenon DEF HandleRequest
  <2> QED
    BY <1>1, <1>2, <2>1, <2>2, Zenon DEF HandToActor, HandleRequest, Started
<1>4. /\ inbox' \in Seq(Message) /\ AskedOnce(inbox')
      /\ \A d : Asks(inbox', d) <=> Asks(inbox, d) /\ d # c
      /\ call[c] = "sent" /\ ~Held(c)
      /\ \A b \in Started : ~InQueue(actor[b].queue, c)
  BY <1>1, RequestTaken, Zenon DEF HandleRequest
<1>5. Held(c)' /\ \A d : d # c => ~Held(d)' /\ ~Held(d)
  BY <1>2, <1>3, Zenon DEF Held
<1>6. Types'
  BY <1>2, <1>3, <1>4, Zenon DEF Types
<1>7. Alive'
  BY <1>3, Zenon DEF Alive, MappedAlive
<1>8. ASSUME NEW d \in Call PROVE PlaceOf(d)'
  <2>1. CASE d = c
    <3>1. \A b \in Started' : ~InQueue(actor[b].queue, c)'
      BY <1>3, <1>4, Zenon DEF InQueue
    <3>2. ~Asks(inbox, c)' /\ call'[c] = "sent"
      BY <1>3, <1>4, Zenon DEF Asks
    <3> QED
      BY <1>5, <2>1, <3>1, <3>2, Zenon DEF PlaceOf, Placed
  <2>2. CASE d # c
    <3>1. PlaceOf(d) /\ (Held(d)' <=> Held(d)) /\ (Asks(inbox', d) <=> Asks(inbox, d))
      BY <1>4, <1>5, <2>2, Zenon DEF OnePlace
    <3> QED
      BY <1>3, <3>1, PlaceKept, Zenon
  <2> QED
    BY <2>1, <2>2, Zenon
<1>9. AskedOnce(inbox)' /\ \A b \in Started' : Distinct(actor[b].queue)'
  BY <1>3, <1>4, ZenonT(60) DEF OnePlace, AskedOnce, Distinct
<1>10. CounterExact'
  BY <1>3, CounterKept, Zenon
<1> QED
  BY <1>6, <1>7, <1>8, <1>9, <1>10, Zenon DEF OnePlace

\* The pool is at its limit and nothing is idle: the call gets an error.
LEMMA RefuseStep ==
  ASSUME PInv, held = {}, inbox # <<>>, Head(inbox).kind = "request", inbox' = Tail(inbox),
         call' = [call EXCEPT ![Head(inbox).call] = "error"],
         UNCHANGED <<connections, actor, held, ref>>
  PROVE  PInv'
<1> USE DEF PInv
<1>1. PICK c \in Call : c = Head(inbox).call
  BY RequestTaken, Zenon
<1>2. /\ inbox' \in Seq(Message) /\ AskedOnce(inbox')
      /\ \A d : Asks(inbox', d) <=> Asks(inbox, d) /\ d # c
      /\ call[c] = "sent" /\ ~Held(c)
      /\ \A b \in Started : ~InQueue(actor[b].queue, c)
  BY <1>1, RequestTaken, Zenon
<1>3. call \in [Call -> {"new", "sent", "ref", "error", "done"}]
  BY Zenon DEF Types
<1>4. /\ call' \in [Call -> {"new", "sent", "ref", "error", "done"}]
      /\ call'[c] = "error" /\ call'[c] # "sent"
      /\ \A d \in Call : d # c => call'[d] = call[d]
      /\ \A d \in Call : call'[d] = "ref" <=> call[d] = "ref"
  BY <1>1, <1>2, <1>3, Zenon
<1>5. Started' = Started
  BY Zenon DEF Started
<1>6. Types'
  BY <1>2, <1>4, <1>5, Zenon DEF Types
<1>7. Alive'
  <2>1. connections' = connections /\ actor' = actor
    BY Zenon
  <2> QED
    BY <1>5, <2>1, Zenon DEF Alive, MappedAlive
<1>8. ASSUME NEW d \in Call PROVE PlaceOf(d)'
  <2>0. Held(d)' <=> Held(d)
    BY <1>5, Zenon DEF Held
  <2>1. CASE d = c
    <3>1. \A b \in Started' : ~InQueue(actor[b].queue, c)'
      BY <1>2, <1>5, Zenon DEF InQueue
    <3>2. ~Asks(inbox, c)' /\ ~Held(c)'
      BY <1>2, <2>0, <2>1, Zenon DEF Asks
    <3> QED
      BY <1>4, <2>1, <3>1, <3>2, Zenon DEF PlaceOf, Placed
  <2>2. CASE d # c
    <3>1. PlaceOf(d) /\ (Asks(inbox', d) <=> Asks(inbox, d)) /\ call'[d] = call[d]
      BY <1>2, <1>4, <2>2, Zenon DEF OnePlace
    <3> QED
      BY <1>5, <2>0, <3>1, PlaceKept, Zenon
  <2> QED
    BY <2>1, <2>2, Zenon
<1>9. AskedOnce(inbox)' /\ \A b \in Started' : Distinct(actor[b].queue)'
  BY <1>2, <1>5, ZenonT(60) DEF OnePlace, AskedOnce, Distinct
<1>10. CounterExact'
  BY <1>4, <1>5, CounterKept, Zenon
<1> QED
  BY <1>6, <1>7, <1>8, <1>9, <1>10, Zenon DEF OnePlace

\* A connection actor is started for n with the request of c, while the
\* senders of the actors in gone are dropped.
LEMMA NewActorFacts ==
  ASSUME actor \in Seq(Actor), NEW gone, NEW n \in Node, NEW c \in Call,
         actor' = Append([a \in Started |-> [actor[a] EXCEPT !.open = @ /\ a \notin gone]],
                         NewActor(n, c))
  PROVE  \E k : /\ k = Len(actor) + 1 /\ k \notin Started /\ actor' \in Seq(Actor)
                /\ k \in Started' /\ \A a \in Started : a \in Started'
                /\ \A a \in Started' : a \in Started \/ a = k
                /\ actor'[k] = NewActor(n, c)
                /\ \A a \in Started :
                     /\ actor'[a].node = actor[a].node /\ actor'[a].phase = actor[a].phase
                     /\ actor'[a].queue = actor[a].queue /\ actor'[a].count = actor[a].count
                     /\ actor'[a].open <=> actor[a].open /\ a \notin gone
<1> DEFINE s == [a \in Started |-> [actor[a] EXCEPT !.open = @ /\ a \notin gone]]
<1>1. Started = 1..Len(actor) /\ Len(actor) \in Nat /\ \A a \in Started : actor[a] \in Actor
  BY DEF Started
<1>2. ASSUME NEW a \in Started
      PROVE  /\ s[a] \in Actor
             /\ s[a].node = actor[a].node /\ s[a].phase = actor[a].phase
             /\ s[a].queue = actor[a].queue /\ s[a].count = actor[a].count
             /\ s[a].open <=> actor[a].open /\ a \notin gone
  BY <1>1, ZenonT(60) DEF Actor
<1>3. \A a \in 1..Len(actor) : s[a] \in Actor
  BY <1>1, <1>2, Zenon
<1>4. s \in Seq(Actor) /\ Len(s) = Len(actor)
  BY <1>1, <1>3
<1>5. NewActor(n, c) \in Actor
  BY DEF NewActor, Actor
<1>6. actor' = Append(s, NewActor(n, c))
  BY Zenon
<1> HIDE DEF s
<1>7. /\ actor' \in Seq(Actor) /\ Started' = 1..(Len(actor) + 1)
      /\ actor'[Len(actor) + 1] = NewActor(n, c)
      /\ \A a \in Started : actor'[a] = s[a]
  BY <1>1, <1>4, <1>5, <1>6, SMTT(30) DEF Started
<1>8. /\ Len(actor) + 1 \notin Started /\ Len(actor) + 1 \in Started'
      /\ \A a \in Started : a \in Started'
      /\ \A a \in Started' : a \in Started \/ a = Len(actor) + 1
  BY <1>1, <1>7
<1> QED
  BY <1>2, <1>7, <1>8, ZenonT(60)

\* A connection actor is started, if need be in place of an idle one, whose
\* entry the pool forgets.
LEMMA StartStep ==
  ASSUME PInv, held = {}, inbox # <<>>, Head(inbox).kind = "request", inbox' = Tail(inbox),
         NEW n \in Node, NEW c \in Call, n = Head(inbox).node, c = Head(inbox).call,
         NEW gone, NEW k, k \notin Started, actor' \in Seq(Actor),
         k \in Started', \A a \in Started : a \in Started',
         \A a \in Started' : a \in Started \/ a = k,
         actor'[k] = NewActor(n, c),
         \A a \in Started :
           /\ actor'[a].node = actor[a].node /\ actor'[a].phase = actor[a].phase
           /\ actor'[a].queue = actor[a].queue /\ actor'[a].count = actor[a].count
           /\ actor'[a].open <=> actor[a].open /\ a \notin gone,
         n \in DOMAIN connections', connections'[n] = k,
         \A m \in DOMAIN connections' : m # n =>
           m \in DOMAIN connections /\ connections[m] \notin gone /\ connections'[m] = connections[m],
         UNCHANGED <<call, held, ref>>
  PROVE  PInv'
<1> USE DEF PInv
<1>2. /\ inbox' \in Seq(Message) /\ AskedOnce(inbox')
      /\ \A d : Asks(inbox', d) <=> Asks(inbox, d) /\ d # c
      /\ call[c] = "sent" /\ ~Held(c)
      /\ \A b \in Started : ~InQueue(actor[b].queue, c)
  BY RequestTaken, Zenon
<1>3. /\ NewActor(n, c).node = n /\ NewActor(n, c).phase # "done"
      /\ NewActor(n, c).queue = <<c>> /\ NewActor(n, c).open /\ NewActor(n, c).count = 0
  BY Zenon DEF NewActor
<1>5. /\ actor'[k].node = n /\ actor'[k].phase # "done" /\ actor'[k].queue = <<c>>
      /\ actor'[k].open /\ actor'[k].count = 0
  BY <1>3, Zenon
<1>6. /\ \A a \in Started : actor'[a].queue = actor[a].queue /\ a # k
      /\ \A a \in Started' : a \in Started \/ a = k
  BY Zenon
<1>7. Types'
  <2>1. held' = {} /\ UNCHANGED <<call, ref>>
    BY Zenon
  <2> QED
    BY <1>2, <2>1, ZenonT(60) DEF Types
<1>8. Alive'
  <2>1. ASSUME NEW m \in DOMAIN connections'
        PROVE  /\ connections'[m] \in Started'
               /\ actor'[connections'[m]].node = m
               /\ actor'[connections'[m]].open /\ actor'[connections'[m]].phase # "done"
    <3>1. CASE m = n
      BY <1>5, <3>1, Zenon
    <3>2. CASE m # n
      <4>1. /\ m \in DOMAIN connections /\ connections[m] \notin gone
            /\ connections'[m] = connections[m]
        BY <3>2, Zenon
      <4>2. /\ connections[m] \in Started /\ actor[connections[m]].node = m
            /\ actor[connections[m]].open /\ actor[connections[m]].phase # "done"
        BY <4>1, Zenon DEF Alive, MappedAlive
      <4>3. /\ connections[m] \in Started' /\ actor'[connections[m]].node = m
            /\ actor'[connections[m]].open /\ actor'[connections[m]].phase # "done"
        BY <4>1, <4>2, Zenon
      <4> QED
        BY <4>1, <4>3, Zenon
    <3> QED
      BY <3>1, <3>2, Zenon
  <2>2. MappedAlive'
    BY <2>1, Zenon DEF MappedAlive
  <2>3. \A a \in Started' : actor'[a].phase = "done" => ~actor'[a].open /\ actor'[a].queue = <<>>
    <3>1. ASSUME NEW a \in Started, actor'[a].phase = "done"
          PROVE  ~actor'[a].open /\ actor'[a].queue = <<>>
      <4>1. actor'[a].phase = actor[a].phase /\ actor'[a].queue = actor[a].queue
            /\ (actor'[a].open => actor[a].open)
        BY Zenon
      <4>2. ~actor[a].open /\ actor[a].queue = <<>>
        BY <3>1, <4>1, ZenonT(60) DEF Alive
      <4> QED
        BY <4>1, <4>2, Zenon
    <3> QED
      BY <1>5, <3>1, Zenon
  <2> QED
    BY <2>1, <2>2, <2>3, Zenon DEF Alive
<1>9. InQueue(<<c>>, c) /\ Distinct(<<c>>) /\ \A d : d # c => ~InQueue(<<c>>, d)
  BY InQueueOne, Zenon
<1>10. ASSUME NEW d \in Call PROVE PlaceOf(d)'
  <2>0. ~Held(d)' /\ ~Held(d)
    BY Zenon DEF Held
  <2>1. CASE d = c
    <3>0. \A b \in Started' : InQueue(actor'[b].queue, c) <=> b = k
      <4>1. ASSUME NEW b \in Started PROVE ~InQueue(actor'[b].queue, c) /\ b # k
        <5>1. actor'[b].queue = actor[b].queue /\ ~InQueue(actor[b].queue, c) /\ b # k
          BY <1>2, <1>6, Zenon
        <5> QED
          BY <5>1, Zenon
      <4>2. InQueue(actor'[k].queue, c)
        BY <1>5, <1>9, Zenon
      <4> QED
        BY <1>6, <4>1, <4>2, Zenon
    <3>1. \A b \in Started' : InQueue(actor[b].queue, c)' <=> b = k
      BY <3>0, Zenon DEF InQueue
    <3>2. ~Asks(inbox, c)' /\ call'[c] = "sent" /\ k \in Started'
      BY <1>2, ZenonT(60) DEF Asks
    <3> QED
      BY <2>0, <2>1, <3>1, <3>2, ZenonT(60) DEF PlaceOf, Placed
  <2>2. CASE d # c
    <3>1. PlaceOf(d) /\ (Asks(inbox', d) <=> Asks(inbox, d))
      BY <1>2, <2>2, Zenon DEF OnePlace
    <3>2. /\ \A b \in Started : b \in Started'
                                /\ (InQueue(actor'[b].queue, d) <=> InQueue(actor[b].queue, d))
          /\ \A b \in Started' : b \in Started \/ ~InQueue(actor'[b].queue, d)
      <4>1. ASSUME NEW b \in Started
            PROVE  InQueue(actor'[b].queue, d) <=> InQueue(actor[b].queue, d)
        <5>1. actor'[b].queue = actor[b].queue
          BY <1>6, Zenon
        <5> QED
          BY <5>1, Zenon
      <4>2. ~InQueue(actor'[k].queue, d)
        BY <1>5, <1>9, <2>2, ZenonT(60)
      <4> QED
        BY <1>6, <4>1, <4>2, Zenon
    <3> QED
      BY <2>0, <3>1, <3>2, PlaceKept, Zenon
  <2> QED
    BY <2>1, <2>2, Zenon
<1>11. AskedOnce(inbox)' /\ \A b \in Started' : Distinct(actor[b].queue)'
  <2>1. AskedOnce(inbox') /\ \A b \in Started' : Distinct(actor'[b].queue)
    <3>1. ASSUME NEW b \in Started PROVE Distinct(actor'[b].queue)
      <4>1. actor'[b].queue = actor[b].queue /\ Distinct(actor[b].queue)
        BY <1>6, Zenon DEF OnePlace
      <4> QED
        BY <4>1, Zenon
    <3>2. Distinct(actor'[k].queue)
      BY <1>5, <1>9, Zenon
    <3> QED
      BY <1>2, <1>6, <3>1, <3>2, Zenon
  <2> QED
    BY <2>1, Zenon DEF AskedOnce, Distinct
<1>12. CounterExact'
  <2>1. \A b : Users(b)' = Users(b)
    BY Zenon DEF Users
  <2>2. Users(k) = {}
    BY Zenon DEF Users, Types
  <2>3. \A b \in Started' : actor'[b].count = Cardinality(Users(b))
    BY <1>5, <2>2, FS_EmptySet, ZenonT(60) DEF CounterExact
  <2> QED
    BY <2>1, <2>3, Zenon DEF CounterExact
<1> QED
  BY <1>7, <1>8, <1>10, <1>11, <1>12, Zenon DEF OnePlace

\* RequestRef, in all its cases.
LEMMA HandleRequestStep == ASSUME PInv, HandleRequest PROVE PInv'
<1> DEFINE n == Head(inbox).node
           c == Head(inbox).call
<1>1. held = {} /\ inbox # <<>> /\ Head(inbox).kind = "request" /\ inbox' = Tail(inbox)
  BY Zenon DEF HandleRequest
<1>2. CASE n \in DOMAIN connections
  BY <1>2, HandOverStep, HoldStep, Zenon
<1>3. CASE n \notin DOMAIN connections
  <2>1. StartActor(n, c)
    BY <1>3, Zenon DEF HandleRequest
  <2> DEFINE full == Cardinality(DOMAIN connections) >= MaxConnections
             others == Without(n)
             evict == IF full /\ others # <<>> THEN {Head(others)} ELSE {}
  <2>2. CASE full /\ evict = {}
    <3>1. /\ call' = [call EXCEPT ![c] = "error"] /\ UNCHANGED <<connections, actor, held, ref>>
      BY <2>1, <2>2, Zenon DEF StartActor
    <3> QED
      BY <1>1, <3>1, RefuseStep, Zenon
  <2>3. CASE ~(full /\ evict = {})
    <3> DEFINE kept == Restrict(connections, DOMAIN connections \ evict)
    <3>1. PICK gone : gone = {connections[m] : m \in evict \cap DOMAIN connections}
      BY Zenon
    <3>2. /\ actor' = Append([a \in Started |-> [actor[a] EXCEPT !.open = @ /\ a \notin gone]],
                             NewActor(n, c))
          /\ connections' = [m \in DOMAIN kept \cup {n} |-> IF m = n THEN Len(actor) + 1 ELSE kept[m]]
          /\ UNCHANGED <<call, held, ref>>
      BY <2>1, <2>3, <3>1, Zenon DEF StartActor
    <3> HIDE DEF evict
    <3>3. n \in Node /\ c \in Call /\ actor \in Seq(Actor)
      BY <1>1, RequestTaken, Zenon DEF PInv, Types
    <3>4. \A m \in DOMAIN kept : m \in DOMAIN connections /\ m \notin evict /\ kept[m] = connections[m]
      BY Zenon DEF Restrict
    <3> HIDE DEF kept
    <3>5. ASSUME NEW m \in DOMAIN connections, m \notin evict, connections[m] \in gone PROVE FALSE
      <4>1. PICK l \in evict \cap DOMAIN connections : connections[m] = connections[l]
        BY <3>1, <3>5, Zenon
      <4>2. actor[connections[l]].node = l /\ actor[connections[m]].node = m
        BY Zenon DEF PInv, Alive, MappedAlive
      <4> QED
        BY <3>5, <4>1, <4>2, Zenon
    <3>6. /\ n \in DOMAIN connections' /\ connections'[n] = Len(actor) + 1
          /\ \A m \in DOMAIN connections' : m # n =>
               m \in DOMAIN connections /\ connections[m] \notin gone /\ connections'[m] = connections[m]
      <4>1. /\ n \in DOMAIN connections' /\ connections'[n] = Len(actor) + 1
            /\ \A m \in DOMAIN connections' : m # n => m \in DOMAIN kept /\ connections'[m] = kept[m]
        BY <3>2, Zenon
      <4> QED
        BY <3>4, <3>5, <4>1, Zenon
    <3>7. UNCHANGED <<call, held, ref>>
      BY <3>2, Zenon
    <3>8. PICK k :
            /\ k = Len(actor) + 1 /\ k \notin Started /\ actor' \in Seq(Actor)
            /\ k \in Started' /\ \A a \in Started : a \in Started'
            /\ \A a \in Started' : a \in Started \/ a = k
            /\ actor'[k] = NewActor(n, c)
            /\ \A a \in Started :
                 /\ actor'[a].node = actor[a].node /\ actor'[a].phase = actor[a].phase
                 /\ actor'[a].queue = actor[a].queue /\ actor'[a].count = actor[a].count
                 /\ actor'[a].open <=> actor[a].open /\ a \notin gone
      BY <3>2, <3>3, NewActorFacts, Zenon
    <3>9. connections'[n] = k
      BY <3>6, <3>8, Zenon
    <3> HIDE DEF n, c
    <3> QED
      BY <1>1, <3>3, <3>6, <3>7, <3>8, <3>9, StartStep, ZenonT(60) DEF n, c
  <2> QED
    BY <2>2, <2>3, Zenon
<1> QED
  BY <1>2, <1>3, Zenon

\* ConnectionShutdown: the node's entry goes, and its actor loses its sender.
LEMMA HandleShutdownStep == ASSUME PInv, HandleShutdown PROVE PInv'
<1> USE DEF PInv
<1>1. PICK n : n = Head(inbox).node
  BY Zenon
<1>2. /\ inbox # <<>> /\ Head(inbox).kind # "request" /\ inbox' = Tail(inbox)
      /\ UNCHANGED <<held, call, ref>>
      /\ connections' = Restrict(connections, DOMAIN connections \ {n})
      /\ actor' = IF n \in DOMAIN connections THEN CloseChannel(connections[n]) ELSE actor
  BY <1>1, Zenon DEF HandleShutdown
<1>3. inbox \in Seq(Message) /\ actor \in Seq(Actor) /\ AskedOnce(inbox)
  BY Zenon DEF Types, OnePlace
<1>4. inbox' \in Seq(Message)
  BY <1>2, <1>3, TailFacts, Zenon
<1>5. AskedOnce(inbox') /\ \A c : Asks(inbox', c) <=> Asks(inbox, c)
  BY <1>2, <1>3, AsksTail, Zenon
<1>6. \A m \in DOMAIN connections' :
        m \in DOMAIN connections /\ m # n /\ connections'[m] = connections[m]
  BY <1>2, Zenon DEF Restrict
<1>7. /\ actor' \in Seq(Actor) /\ Started' = Started
      /\ \A a \in Started :
           /\ actor'[a].node = actor[a].node /\ actor'[a].phase = actor[a].phase
           /\ actor'[a].queue = actor[a].queue /\ actor'[a].count = actor[a].count
      /\ \A a \in Started :
           /\ actor'[a].open => actor[a].open
           /\ actor[a].node # n => actor'[a].open = actor[a].open
  <2>1. CASE n \notin DOMAIN connections
    BY <1>2, <1>3, <2>1, Zenon DEF Started
  <2>2. CASE n \in DOMAIN connections
    <3>1. PICK a \in Started : a = connections[n] /\ actor[a].node = n
      BY <2>2, Zenon DEF Alive, MappedAlive
    <3>2. actor[a] \in Actor
      BY <1>3 DEF Started
    <3> DEFINE r == [actor[a] EXCEPT !.open = FALSE]
    <3>3. /\ r \in Actor /\ r.node = actor[a].node /\ r.phase = actor[a].phase
          /\ r.queue = actor[a].queue /\ r.count = actor[a].count /\ ~r.open
      BY <3>2, Zenon DEF Actor
    <3>4. actor' = [actor EXCEPT ![a] = r]
      BY <1>2, <2>2, <3>1, <3>2, Zenon DEF CloseChannel, Actor
    <3> HIDE DEF r
    <3>5. /\ actor' \in Seq(Actor) /\ Started' = Started /\ actor'[a] = r
          /\ \A b \in Started : b # a => actor'[b] = actor[b]
      BY <1>3, <3>3, <3>4, ActorSet, Zenon
    <3> QED
      BY <3>1, <3>3, <3>5, Zenon
  <2> QED
    BY <2>1, <2>2, Zenon
<1>8. Types'
  BY <1>2, <1>4, <1>7, Zenon DEF Types
<1>9. Alive'
  <2>1. ASSUME NEW m \in DOMAIN connections'
        PROVE  /\ m \in DOMAIN connections /\ connections'[m] = connections[m]
               /\ actor'[connections[m]].open /\ actor'[connections[m]].phase # "done"
    <3>1. m \in DOMAIN connections /\ m # n /\ connections'[m] = connections[m]
      BY <1>6, Zenon
    <3>2. /\ connections[m] \in Started /\ actor[connections[m]].node = m
          /\ actor[connections[m]].open /\ actor[connections[m]].phase # "done"
      BY <3>1, Zenon DEF Alive, MappedAlive
    <3> QED
      BY <1>7, <3>1, <3>2, Zenon
  <2>2. ASSUME NEW a \in Started, actor'[a].phase = "done"
        PROVE  ~actor'[a].open /\ actor'[a].queue = <<>>
    BY <1>7, <2>2, ZenonT(60) DEF Alive
  <2> QED
    BY <1>7, <2>1, <2>2, AliveKept, Zenon
<1>10. ASSUME NEW c \in Call PROVE PlaceOf(c)'
  <2>1. PlaceOf(c) /\ (Held(c)' <=> Held(c)) /\ (call'[c] = "sent" <=> call[c] = "sent")
    BY <1>2, <1>7, Zenon DEF OnePlace, Held
  <2> QED
    BY <1>5, <1>7, <2>1, PlaceKept, Zenon
<1>11. AskedOnce(inbox)' /\ \A a \in Started' : Distinct(actor[a].queue)'
  <2>1. AskedOnce(inbox') /\ \A a \in Started' : Distinct(actor'[a].queue)
    BY <1>5, <1>7, Zenon DEF OnePlace
  <2> QED
    BY <2>1, Zenon DEF AskedOnce, Distinct
<1>12. CounterExact'
  BY <1>2, <1>7, CounterKept, Zenon
<1> QED
  BY <1>8, <1>9, <1>10, <1>11, <1>12, Zenon DEF OnePlace

-----------------------------------------------------------------------------
(* Connection actors *)

\* What answering the first request of the queue leaves in place, whether it
\* gets a reference or the connect error.
LEMMA ServedPlaces ==
  ASSUME PInv, NEW a \in Started, NEW c \in Call, NEW r \in Actor,
         actor[a].queue # <<>>, c = Head(actor[a].queue), actor[a].phase = "serving",
         actor' = [actor EXCEPT ![a] = r],
         r.node = actor[a].node, r.open = actor[a].open, r.phase = actor[a].phase,
         r.queue = Tail(actor[a].queue),
         call' \in [Call -> {"new", "sent", "ref", "error", "done"}], call'[c] # "sent",
         \A d \in Call : d # c => call'[d] = call[d],
         ref' \in [Call -> Nat],
         \A d \in Call : call'[d] = "ref" => ref'[d] \in Started,
         UNCHANGED <<inbox, connections, held>>
  PROVE  Types' /\ Alive' /\ OnePlace' /\ call[c] = "sent"
<1> USE DEF PInv
<1>1. actor \in Seq(Actor) /\ actor[a] \in Actor
  BY DEF Types, Started
<1>2. actor[a].queue \in Seq(Call)
  BY <1>1, Zenon DEF Actor
<1>3. /\ InQueue(actor[a].queue, c) /\ Distinct(r.queue)
      /\ \A d : InQueue(r.queue, d) <=> InQueue(actor[a].queue, d) /\ d # c
  <2>1. Distinct(actor[a].queue)
    BY Zenon DEF OnePlace
  <2> QED
    BY <1>2, <2>1, InQueueTail, ZenonT(60)
<1>4. PlaceOf(c)
  BY Zenon DEF OnePlace
<1>5. /\ call[c] = "sent" /\ ~Asks(inbox, c) /\ ~Held(c)
      /\ \A b \in Started : b # a => ~InQueue(actor[b].queue, c)
  BY <1>3, <1>4, Zenon DEF PlaceOf, Placed
<1>6. /\ actor' \in Seq(Actor) /\ Started' = Started /\ actor'[a] = r
      /\ \A b \in Started : b # a => actor'[b] = actor[b]
  BY <1>1, ActorSet, ZenonT(60)
<1>7. Types'
  BY <1>6, Zenon DEF Types
<1>8. Alive'
  <2>1. ASSUME NEW b \in Started
        PROVE  /\ actor'[b].node = actor[b].node /\ actor'[b].open = actor[b].open
               /\ actor'[b].phase = actor[b].phase
    BY <1>6, ZenonT(60)
  <2>2. ASSUME NEW b \in Started, actor'[b].phase = "done"
        PROVE  ~actor'[b].open /\ actor'[b].queue = <<>>
    <3>1. b # a
      BY <1>6, <2>2, Zenon
    <3> QED
      BY <1>6, <2>2, <3>1, ZenonT(60) DEF Alive
  <2>3. ASSUME NEW n \in DOMAIN connections
        PROVE  actor'[connections[n]].open /\ actor'[connections[n]].phase # "done"
    <3>1. /\ connections[n] \in Started
          /\ actor[connections[n]].open /\ actor[connections[n]].phase # "done"
      BY Zenon DEF Alive, MappedAlive
    <3> QED
      BY <2>1, <3>1, ZenonT(60)
  <2>4. connections' = connections
    BY Zenon
  <2> QED
    BY <1>6, <2>1, <2>2, <2>3, <2>4, AliveKept, Zenon
<1>9. ASSUME NEW d \in Call PROVE PlaceOf(d)'
  <2>1. (Held(d)' <=> Held(d)) /\ (Asks(inbox', d) <=> Asks(inbox, d))
    BY <1>6, Zenon DEF Held
  <2>2. CASE d = c
    <3>1. ASSUME NEW b \in Started PROVE ~InQueue(actor'[b].queue, c)
      <4>1. CASE b = a
        BY <1>3, <1>6, <4>1, ZenonT(60)
      <4>2. CASE b # a
        BY <1>5, <1>6, <4>2, Zenon
      <4> QED
        BY <4>1, <4>2, Zenon
    <3>2. \A b \in Started' : ~InQueue(actor[b].queue, c)'
      BY <1>6, <3>1, Zenon DEF InQueue
    <3>3. ~Asks(inbox, c)' /\ ~Held(c)'
      BY <1>5, <2>1, <2>2, Zenon DEF Asks
    <3> QED
      BY <2>2, <3>2, <3>3, Zenon DEF PlaceOf, Placed
  <2>3. CASE d # c
    <3>1. ASSUME NEW b \in Started
          PROVE  InQueue(actor'[b].queue, d) <=> InQueue(actor[b].queue, d)
      <4>1. CASE b = a
        BY <1>3, <1>6, <2>3, <4>1, Zenon
      <4>2. CASE b # a
        BY <1>6, <4>2, Zenon
      <4> QED
        BY <4>1, <4>2, Zenon
    <3>2. PlaceOf(d) /\ call'[d] = call[d]
      BY <2>3, Zenon DEF OnePlace
    <3> QED
      BY <1>6, <2>1, <3>1, <3>2, PlaceKept, Zenon
  <2> QED
    BY <2>2, <2>3, Zenon
<1>10. AskedOnce(inbox)' /\ \A b \in Started' : Distinct(actor[b].queue)'
  <2>1. ASSUME NEW b \in Started PROVE Distinct(actor'[b].queue)
    BY <1>3, <1>6, Zenon DEF OnePlace
  <2>2. AskedOnce(inbox')
    BY Zenon DEF OnePlace
  <2> QED
    BY <1>6, <2>1, <2>2, Zenon DEF AskedOnce, Distinct
<1> QED
  BY <1>5, <1>7, <1>8, <1>9, <1>10, Zenon DEF OnePlace

\* A request gets a reference, which the counter counts, or the connect error.
LEMMA ServeStep == ASSUME PInv, NEW a \in Started, Serve(a) PROVE PInv'
<1> USE DEF PInv
<1>1. /\ actor \in Seq(Actor) /\ actor[a] \in Actor /\ ref \in [Call -> Nat] /\ a \in Nat
      /\ call \in [Call -> {"new", "sent", "ref", "error", "done"}]
  <2>1. /\ actor \in Seq(Actor) /\ ref \in [Call -> Nat]
        /\ call \in [Call -> {"new", "sent", "ref", "error", "done"}]
    BY Zenon DEF Types
  <2> QED
    BY <2>1 DEF Started
<1>2. actor[a].queue # <<>> /\ actor[a].phase = "serving" /\ actor[a].queue \in Seq(Call)
      /\ UNCHANGED <<inbox, connections, held>>
  <2>1. actor[a].queue \in Seq(Call)
    BY <1>1, Zenon DEF Actor
  <2> QED
    BY <2>1, Zenon DEF Serve, Runs
<1>3. PICK c \in Call : c = Head(actor[a].queue)
  BY <1>2, TailFacts, Zenon
<1>4. actor[a].count = Cardinality(Users(a)) /\ Cardinality(Users(a)) \in Nat /\ IsFiniteSet(Users(a))
  BY UsersFinite, Zenon DEF CounterExact
<1>5. Tail(actor[a].queue) \in Seq(Call)
  BY <1>2, TailFacts, Zenon
<1>6. CASE actor[a].ok
  <2>1. /\ call' = [call EXCEPT ![c] = "ref"] /\ ref' = [ref EXCEPT ![c] = a]
        /\ actor' = [actor EXCEPT ![a].queue = Tail(@), ![a].count = @ + 1, ![a].timer = FALSE]
    BY <1>3, <1>6, Zenon DEF Serve
  <2>2. PICK r \in Actor :
          /\ actor' = [actor EXCEPT ![a] = r]
          /\ r.node = actor[a].node /\ r.open = actor[a].open /\ r.phase = actor[a].phase
          /\ r.queue = Tail(actor[a].queue) /\ r.count = Cardinality(Users(a)) + 1
    <3> DEFINE s == [actor[a] EXCEPT !.queue = Tail(actor[a].queue),
                                     !.count = actor[a].count + 1, !.timer = FALSE]
    <3>0. actor[a].count + 1 \in Nat
      BY <1>1, SMTT(30) DEF Actor
    <3>1. s \in Actor
      BY <1>1, <1>5, <3>0, Zenon DEF Actor
    <3>2. actor' = [actor EXCEPT ![a] = s]
      BY <1>1, <2>1, Zenon DEF Actor
    <3>3. /\ s.node = actor[a].node /\ s.open = actor[a].open /\ s.phase = actor[a].phase
          /\ s.queue = Tail(actor[a].queue) /\ s.count = actor[a].count + 1
      BY <1>1, Zenon DEF Actor
    <3> QED
      BY <1>4, <3>1, <3>2, <3>3, Zenon
  <2>3. /\ call' \in [Call -> {"new", "sent", "ref", "error", "done"}]
        /\ call'[c] = "ref" /\ call'[c] # "sent" /\ ref'[c] = a
        /\ \A d \in Call : d # c => call'[d] = call[d] /\ ref'[d] = ref[d]
        /\ ref' \in [Call -> Nat]
    BY <1>1, <2>1, Zenon
  <2>4. \A d \in Call : call'[d] = "ref" => ref'[d] \in Started
    BY <2>3, Zenon DEF Types
  <2>5. Types' /\ Alive' /\ OnePlace' /\ call[c] = "sent"
    BY <1>2, <1>3, <2>2, <2>3, <2>4, ServedPlaces, Zenon
  <2>6. call[c] # "ref"
    BY <2>5, Zenon
  <2>7. Users(a)' = Users(a) \cup {c} /\ c \notin Users(a)
    BY <2>3, <2>6, Zenon DEF Users
  <2>8. ASSUME NEW b \in Started, b # a PROVE Users(b)' = Users(b)
    BY <2>3, <2>6, <2>8, Zenon DEF Users
  <2>9. Cardinality(Users(a) \cup {c}) = Cardinality(Users(a)) + 1
    BY <1>4, <2>7, FS_AddElement, Zenon
  <2>10. /\ Started' = Started /\ actor'[a] = r
         /\ \A b \in Started : b # a => actor'[b] = actor[b]
    BY <1>1, <2>2, ActorSet, Zenon
  <2>11. ASSUME NEW b \in Started PROVE actor'[b].count = Cardinality(Users(b)')
    BY <2>2, <2>7, <2>8, <2>9, <2>10, Zenon DEF CounterExact
  <2> QED
    BY <2>5, <2>10, <2>11, Zenon DEF CounterExact
<1>7. CASE ~actor[a].ok
  <2>1. /\ call' = [call EXCEPT ![c] = "error"] /\ ref' = ref
        /\ actor' = [actor EXCEPT ![a].queue = Tail(@)]
    BY <1>3, <1>7, ZenonT(60) DEF Serve
  <2>2. PICK r \in Actor :
          /\ actor' = [actor EXCEPT ![a] = r]
          /\ r.node = actor[a].node /\ r.open = actor[a].open /\ r.phase = actor[a].phase
          /\ r.queue = Tail(actor[a].queue) /\ r.count = actor[a].count
    <3> DEFINE s == [actor[a] EXCEPT !.queue = Tail(actor[a].queue)]
    <3>1. s \in Actor
      BY <1>1, <1>5, Zenon DEF Actor
    <3>2. actor' = [actor EXCEPT ![a] = s]
      BY <1>1, <2>1, Zenon DEF Actor
    <3>3. /\ s.node = actor[a].node /\ s.open = actor[a].open /\ s.phase = actor[a].phase
          /\ s.queue = Tail(actor[a].queue) /\ s.count = actor[a].count
      BY <1>1, Zenon DEF Actor
    <3> QED
      BY <3>1, <3>2, <3>3, Zenon
  <2>3. /\ call' \in [Call -> {"new", "sent", "ref", "error", "done"}]
        /\ call'[c] # "ref" /\ call'[c] # "sent" /\ ref' \in [Call -> Nat]
        /\ \A d \in Call : d # c => call'[d] = call[d]
    BY <1>1, <2>1, Zenon
  <2>4. \A d \in Call : call'[d] = "ref" => ref'[d] \in Started
    BY <2>1, <2>3, Zenon DEF Types
  <2>5. Types' /\ Alive' /\ OnePlace' /\ call[c] = "sent"
    BY <1>2, <1>3, <2>2, <2>3, <2>4, ServedPlaces, Zenon
  <2>6. call[c] # "ref"
    BY <2>5, Zenon
  <2>7. \A d \in Call : call'[d] = "ref" <=> call[d] = "ref"
    BY <2>3, <2>6, Zenon
  <2>8. /\ Started' = Started /\ actor'[a] = r
        /\ \A b \in Started : b # a => actor'[b] = actor[b]
    BY <1>1, <2>2, ActorSet, Zenon
  <2>9. \A b \in Started : actor'[b].count = actor[b].count
    BY <2>2, <2>8, Zenon
  <2> QED
    BY <2>1, <2>5, <2>7, <2>8, <2>9, CounterKept, Zenon
<1> QED
  BY <1>6, <1>7, Zenon

\* An actor without sender and without requests ends; no node's entry is its.
LEMMA ChannelClosedStep == ASSUME PInv, NEW a \in Started, ChannelClosed(a) PROVE PInv'
<1> USE DEF PInv
<1>1. /\ actor \in Seq(Actor) /\ actor[a] \in Actor
  BY SMTT(30) DEF Types, Started
<1>2. /\ actor[a].queue = <<>> /\ ~actor[a].open
      /\ UNCHANGED <<inbox, connections, held, call, ref>>
  BY Zenon DEF ChannelClosed
<1>3. PICK r \in Actor :
        /\ actor' = [actor EXCEPT ![a] = r]
        /\ r.node = actor[a].node /\ r.open = actor[a].open
        /\ r.queue = actor[a].queue /\ r.count = actor[a].count
  <2> DEFINE s == [actor[a] EXCEPT !.phase = "done"]
  <2>1. s \in Actor
    BY <1>1, Zenon DEF Actor
  <2>2. actor' = [actor EXCEPT ![a] = s]
    BY <1>1, Zenon DEF ChannelClosed, Actor
  <2>3. /\ s.node = actor[a].node /\ s.open = actor[a].open
        /\ s.queue = actor[a].queue /\ s.count = actor[a].count
    BY <1>1, Zenon DEF Actor
  <2> QED
    BY <2>1, <2>2, <2>3, Zenon
<1>4. /\ actor' \in Seq(Actor) /\ Started' = Started /\ actor'[a] = r
      /\ \A b \in Started : b # a => actor'[b] = actor[b]
  BY <1>1, <1>3, ActorSet, Zenon
<1>5. \A b \in Started :
        /\ actor'[b].node = actor[b].node /\ actor'[b].open = actor[b].open
        /\ actor'[b].queue = actor[b].queue /\ actor'[b].count = actor[b].count
  BY <1>3, <1>4, Zenon
<1>6. Types'
  BY <1>2, <1>4, Zenon DEF Types
<1>7. Alive'
  <2>1. ASSUME NEW n \in DOMAIN connections
        PROVE  actor'[connections[n]].open /\ actor'[connections[n]].phase # "done"
    <3>1. /\ connections[n] \in Started
          /\ actor[connections[n]].open /\ actor[connections[n]].phase # "done"
      BY Zenon DEF Alive, MappedAlive
    <3>2. connections[n] # a
      BY <1>2, <3>1, Zenon
    <3> QED
      BY <1>4, <3>1, <3>2, Zenon
  <2>2. ASSUME NEW b \in Started, actor'[b].phase = "done"
        PROVE  ~actor'[b].open /\ actor'[b].queue = <<>>
    <3>1. CASE b = a
      BY <1>2, <1>5, <3>1, Zenon
    <3>2. CASE b # a
      BY <1>4, <2>2, <3>2, Zenon DEF Alive
    <3> QED
      BY <3>1, <3>2, Zenon
  <2> QED
    BY <1>2, <1>4, <1>5, <2>1, <2>2, AliveKept, Zenon
<1>8. ASSUME NEW c \in Call PROVE PlaceOf(c)'
  <2>1. PlaceOf(c) /\ (Held(c)' <=> Held(c)) /\ (Asks(inbox', c) <=> Asks(inbox, c)) /\ call' = call
    BY <1>2, <1>4, Zenon DEF OnePlace, Held
  <2> QED
    BY <1>4, <1>5, <2>1, PlaceKept, Zenon
<1>9. AskedOnce(inbox)' /\ \A b \in Started' : Distinct(actor[b].queue)'
  <2>1. AskedOnce(inbox') /\ \A b \in Started' : Distinct(actor'[b].queue)
    BY <1>2, <1>4, <1>5, Zenon DEF OnePlace
  <2> QED
    BY <2>1, Zenon DEF AskedOnce, Distinct
<1>10. CounterExact'
  BY <1>2, <1>4, <1>5, CounterKept, Zenon
<1> QED
  BY <1>6, <1>7, <1>8, <1>9, <1>10, Zenon DEF OnePlace

-----------------------------------------------------------------------------
(* The invariant and what follows from it *)

\* An empty pool is in order.
LEMMA PInvInit == ASSUME Init PROVE PInv
<1>1. /\ inbox = <<>> /\ held = {} /\ actor = <<>> /\ connections = <<>>
      /\ call = [c \in Call |-> "new"] /\ ref = [c \in Call |-> 0]
  BY Zenon DEF Init
<1>2. Started = {} /\ DOMAIN connections = {}
  BY <1>1 DEF Started
<1>3. \A c \in Call : call[c] = "new" /\ call[c] # "sent" /\ call[c] # "ref"
  BY <1>1, Zenon
<1>4. Types
  <2>1. inbox \in Seq(Message) /\ actor \in Seq(Actor)
    BY <1>1
  <2>2. call \in [Call -> {"new", "sent", "ref", "error", "done"}] /\ ref \in [Call -> Nat]
    BY <1>1, Zenon
  <2> QED
    BY <1>1, <1>3, <2>1, <2>2, Zenon DEF Types
<1>5. Alive
  BY <1>2, Zenon DEF Alive, MappedAlive
<1>6. \A c \in Call : PlaceOf(c)
  <2>1. \A c \in Call : ~Asks(inbox, c) /\ ~Held(c)
    BY <1>1 DEF Asks, Held
  <2> QED
    BY <1>2, <1>3, <2>1, Zenon DEF PlaceOf, Placed
<1>7. AskedOnce(inbox)
  BY <1>1 DEF AskedOnce
<1>8. CounterExact
  BY <1>2, Zenon DEF CounterExact
<1> QED
  BY <1>2, <1>4, <1>5, <1>6, <1>7, <1>8, Zenon DEF PInv, OnePlace

\* Every step of callers, pool actor and connection actors keeps it.
LEMMA PInvStep == ASSUME PInv, [Next]_vars PROVE PInv'
<1>1. ASSUME NEW c \in Call, GetOrConnect(c) \/ DropRef(c) PROVE PInv'
  BY <1>1, GetOrConnectStep, DropRefStep, ZenonT(60)
<1>2. ASSUME NEW n \in Node, UserClose(n) PROVE PInv'
  BY <1>2, UserCloseStep, Zenon
<1>3. CASE HandleRequest
  BY <1>3, HandleRequestStep, Zenon
<1>4. CASE HandleIdle
  BY <1>4, HandleIdleStep, Zenon
<1>5. CASE HandleShutdown
  BY <1>5, HandleShutdownStep, Zenon
<1>6. ASSUME NEW a \in Started,
             \/ PeerClose(a) \/ Connected(a) \/ ConnectFailed(a) \/ CloseNoticed(a)
             \/ Listen(a) \/ IdleNoticed(a) \/ IdleTimeout(a)
      PROVE  PInv'
  BY <1>6, QuietActions, Zenon
<1>7. ASSUME NEW a \in Started, Serve(a) PROVE PInv'
  BY <1>7, ServeStep, Zenon
<1>8. ASSUME NEW a \in Started, ChannelClosed(a) PROVE PInv'
  BY <1>8, ChannelClosedStep, Zenon
<1>9. CASE UNCHANGED vars
  <2>1. UNCHANGED <<inbox, connections, held, actor, call, ref>>
    BY <1>9, Zenon DEF vars
  <2>2. /\ actor \in Seq(Actor) /\ inbox \in Seq(Message) /\ AskedOnce(inbox)
        /\ Started' = Started
    BY <2>1, Zenon DEF PInv, Types, OnePlace, Started
  <2> QED
    BY <2>1, <2>2, QuietStep, Zenon
<1> QED
  BY <1>1, <1>2, <1>3, <1>4, <1>5, <1>6, <1>7, <1>8, <1>9, Zenon DEF Next

\* Whatever closes, evictions, idle timers and connect failures race, the
\* pool's bookkeeping stays in order.
THEOREM PoolInvariant == Spec => []PInv
<1>1. Init => PInv
  BY PInvInit, Zenon
<1>2. PInv /\ [Next]_vars => PInv'
  BY PInvStep, Zenon
<1> QED
  BY <1>1, <1>2, PTL DEF Spec

\* A node's entry in the pool's map always names an open, living connection
\* actor of that node, so that the retry of handle_msg for a dead actor is
\* never needed.
THEOREM MappedActorsAlive == Spec => []MappedAlive
<1>1. PInv => MappedAlive
  BY Zenon DEF PInv, Alive
<1> QED
  BY <1>1, PoolInvariant, PTL

\* A waiting call's request is in the pool's channel, in the pool actor's
\* hands or in the queue of an actor that has not ended.
THEOREM RequestsNotLost == Spec => []RequestNotLost
<1>1. ASSUME PInv PROVE RequestNotLost
  <2> SUFFICES ASSUME NEW c \in Call, call[c] = "sent",
                      ~Requested(c), ~Held(c)
               PROVE  \E a \in Started : Queued(c, a) /\ actor[a].phase # "done"
    BY Zenon DEF RequestNotLost
  <2>1. PlaceOf(c) /\ ~Asks(inbox, c)
    BY <1>1, Zenon DEF PInv, OnePlace, Asks, Requested
  <2>2. PICK a \in Started : InQueue(actor[a].queue, c)
    BY <2>1, Zenon DEF PlaceOf, Placed
  <2>3. actor[a].queue # <<>>
    BY <2>2 DEF InQueue
  <2>4. actor[a].phase # "done"
    BY <1>1, <2>3, Zenon DEF PInv, Alive
  <2> QED
    BY <2>2, <2>4, Zenon DEF InQueue, Queued
<1>2. PInv => RequestNotLost
  BY <1>1, Zenon
<1> QED
  BY <1>2, PoolInvariant, PTL

\* The counter of a connection is always the number of references in use.
THEOREM CountersExact == Spec => []CounterExact
<1>1. PInv => CounterExact
  BY Zenon DEF PInv
<1> QED
  BY <1>1, PoolInvariant, PTL
=============================================================================
