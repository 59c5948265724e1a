---------------------------- MODULE EntityManager ----------------------------
(***************************************************************************)
(* The entity manager (src/store/fs/util/entity_manager.rs): one main      *)
(* actor owns a map of live entities and a pool of inactive entity actors. *)
(* An entity actor runs the callbacks spawned for its entity and, when it  *)
(* has neither callbacks nor queued commands, gives itself back in two     *)
(* messages: Shutdown carries the receiver of its inbox, ShutdownComplete  *)
(* the rest, once on_shutdown has returned.                                *)
(*                                                                         *)
(* An actor is named by the slot p in which get_or_create built it, and    *)
(* the inbox created together with it has the same name.  The two travel   *)
(* separately: recv[p] is the inbox whose receiver p holds, live[i].send   *)
(* the inbox whose sender the main actor holds for entity i.  That they    *)
(* stay together is a property (SenderMatchesReceiver), not an assumption. *)
(***************************************************************************)
EXTENDS Naturals, Sequences, FiniteSets

CONSTANTS
    Id,                \* P::EntityId
    Call,              \* callbacks a user may have in flight at the same time
    Actor,             \* slots for entity actors and their inboxes (a bound)
    None,
    InboxSize,         \* Options::inbox_size
    EntityInboxSize,   \* Options::entity_inbox_size
    ResponseInboxSize, \* Options::entity_response_inbox_size
    PoolCapacity,      \* Options::pool_capacity
    Events             \* which of "shutdown", "drop" and "panic" may happen

ASSUME SizesAssumption ==
    /\ InboxSize \in Nat \ {0}
    /\ EntityInboxSize \in Nat \ {0}
    /\ ResponseInboxSize \in Nat \ {0}
    /\ PoolCapacity \in Nat

ASSUME NoneAssumption == None \notin Id \cup Call \cup Actor

VARIABLES
    handles,   \* some EntityManager (the sender of inbox) still exists
    inbox,     \* commands for the main actor
    main,      \* where the main actor is
    calling,   \* the callback the main actor awaits itself (Busy or Dead)
    toStop,    \* entities that ActorState::shutdown has still to notify
    notifying, \* the entity its loop is at
    live,      \* ActorState::live
    pool,      \* ActorState::pool, pairs <<sender, actor>>
    internal,  \* InternalCommands from the entity actors to the main actor
    mainErr,   \* tick took one of its error! paths
    chan,      \* content of the entity inboxes
    pc,        \* where each entity actor is
    ent,       \* state.id of each entity actor
    recv,      \* the inbox whose receiver the entity actor holds
    tasks,     \* callbacks the entity actor is running
    st,        \* state.state: "fresh", the entity that used it, or "closed"
    call       \* where each user callback is

apiVars   == <<handles, inbox>>
mainVars  == <<main, calling, toStop, notifying, live, pool, mainErr>>
actorVars == <<pc, ent, recv, tasks, st>>
vars == <<apiVars, mainVars, internal, chan, actorVars, call>>

Spawn(i, k)         == [type |-> "Spawn", id |-> i, f |-> k]
ShutdownAll         == [type |-> "ShutdownAll", id |-> None, f |-> None]
EntityShutdown      == [type |-> "EntityShutdown", id |-> None, f |-> None]
Shutdown(i, c)      == [type |-> "Shutdown", id |-> i, recv |-> c, actor |-> None]
ShutdownComplete(p) == [type |-> "ShutdownComplete", id |-> ent[p], recv |-> None, actor |-> p]

Absent             == [status |-> "Absent", send |-> None, recv |-> None]
Live(c)            == [status |-> "Live", send |-> c, recv |-> None]
ShuttingDown(c, r) == [status |-> "ShuttingDown", send |-> c, recv |-> r]

\* The main actor still owns its ActorState: the internal channel is open.
StateOwned == main \in {"run", "calling", "stopping"}

\* Some owner of the receiver of inbox c is left, so that sending can succeed.
ReceiverHeld(c) ==
    \/ \E p \in Actor : recv[p] = c
    \/ \E n \in 1..Len(internal) : internal[n].recv = c
    \/ \E i \in Id : live[i].recv = c

SenderHeld(c) ==
    \/ \E i \in Id : live[i].send = c
    \/ \E p \in Actor : <<c, p>> \in pool

Init ==
    /\ handles = TRUE
    /\ inbox = <<>>
    /\ main = "run"
    /\ calling = None
    /\ toStop = {}
    /\ notifying = None
    /\ live = [i \in Id |-> Absent]
    /\ pool = {}
    /\ internal = <<>>
    /\ mainErr = FALSE
    /\ chan = [p \in Actor |-> <<>>]
    /\ pc = [p \in Actor |-> "free"]
    /\ ent = [p \in Actor |-> None]
    /\ recv = [p \in Actor |-> None]
    /\ tasks = [p \in Actor |-> {}]
    /\ st = [p \in Actor |-> "fresh"]
    /\ call = [k \in Call |-> "idle"]

-----------------------------------------------------------------------------
(* EntityManager: the users' side *)

\* EntityManager::spawn.  It awaits room in the inbox; once the main actor is
\* gone it only returns an error.
UserSpawn(i, k) ==
    /\ handles /\ main # "stopped"
    /\ call[k] = "idle"
    /\ Len(inbox) < InboxSize
    /\ inbox' = Append(inbox, Spawn(i, k))
    /\ call' = [call EXCEPT ![k] = "sent"]
    /\ UNCHANGED <<handles, mainVars, internal, chan, actorVars>>

\* EntityManager::shutdown; one request at a time is enough, a second one is
\* never read.
UserShutdown ==
    /\ "shutdown" \in Events
    /\ handles /\ main \in {"run", "calling"}
    /\ \A n \in 1..Len(inbox) : inbox[n].type # "ShutdownAll"
    /\ Len(inbox) < InboxSize
    /\ inbox' = Append(inbox, ShutdownAll)
    /\ UNCHANGED <<handles, mainVars, internal, chan, actorVars, call>>

\* The last EntityManager is dropped.
UserDrop ==
    /\ "drop" \in Events
    /\ handles
    /\ handles' = FALSE
    /\ UNCHANGED <<inbox, mainVars, internal, chan, actorVars, call>>

-----------------------------------------------------------------------------
(* The main actor *)

\* The next command is a Spawn; i is its entity and k its callback.
Receives(i, k) == main = "run" /\ inbox # <<>> /\ Head(inbox) = Spawn(i, k)

\* spawn_boxed on a live entity: try_send finds the inbox closed (Dead) or
\* full (Busy) and the main actor awaits the callback, or it queues it.
SpawnLive(i, k) ==
    LET c == live[i].send IN
    /\ Receives(i, k)
    /\ live[i].status # "Absent"
    /\ inbox' = Tail(inbox)
    /\ IF ReceiverHeld(c) /\ Len(chan[c]) < EntityInboxSize
       THEN /\ chan' = [chan EXCEPT ![c] = Append(@, Spawn(i, k))]
            /\ UNCHANGED <<main, calling, call>>
       ELSE /\ main' = "calling"
            /\ calling' = k
            /\ call' = [call EXCEPT ![k] = "running"]
            /\ UNCHANGED chan
    /\ UNCHANGED <<handles, toStop, notifying, live, pool, mainErr, internal, actorVars>>

\* spawn_boxed when get_or_create takes an actor from the pool.  The pool is
\* a stack in the code; which of the reset actors is taken makes no difference.
SpawnPooled(i, k) ==
    \E c, p \in Actor :
        /\ Receives(i, k)
        /\ live[i].status = "Absent"
        /\ <<c, p>> \in pool
        /\ inbox' = Tail(inbox)
        /\ pool' = pool \ {<<c, p>>}
        /\ live' = [live EXCEPT ![i] = Live(c)]
        /\ chan' = [chan EXCEPT ![c] = Append(@, Spawn(i, k))]
        /\ pc' = [pc EXCEPT ![p] = "run"]
        /\ ent' = [ent EXCEPT ![p] = i]
        /\ st' = [st EXCEPT ![p] = "fresh"]
        /\ UNCHANGED <<handles, main, calling, toStop, notifying, mainErr, internal, recv, tasks, call>>

\* spawn_boxed when get_or_create builds a new actor and its inbox.
SpawnNew(i, k) ==
    \E p \in Actor :
        /\ Receives(i, k)
        /\ live[i].status = "Absent"
        /\ pool = {}
        /\ pc[p] = "free"
        /\ inbox' = Tail(inbox)
        /\ live' = [live EXCEPT ![i] = Live(p)]
        /\ chan' = [chan EXCEPT ![p] = <<Spawn(i, k)>>]
        /\ pc' = [pc EXCEPT ![p] = "run"]
        /\ ent' = [ent EXCEPT ![p] = i]
        /\ recv' = [recv EXCEPT ![p] = p]
        /\ tasks' = [tasks EXCEPT ![p] = {}]
        /\ st' = [st EXCEPT ![p] = "fresh"]
        /\ UNCHANGED <<handles, main, calling, toStop, notifying, pool, mainErr, internal, call>>

\* The callback that spawn_boxed awaits has returned.
CallbackReturns ==
    /\ main = "calling"
    /\ main' = "run"
    /\ calling' = None
    /\ call' = [call EXCEPT ![calling] = "idle"]
    /\ UNCHANGED <<apiVars, toStop, notifying, live, pool, mainErr, internal, chan, actorVars>>

\* Faulty TickShutdown: the entity is forgotten while on_shutdown still runs.
TickShutdownForgets ==
    /\ main = "run"
    /\ internal # <<>> /\ Head(internal).type = "Shutdown"
    /\ live' = [live EXCEPT ![Head(internal).id] = Absent]
    /\ internal' = Tail(internal)
    /\ UNCHANGED <<apiVars, main, calling, toStop, notifying, pool, mainErr, chan, actorVars, call>>

\* tick on Shutdown: a live entity becomes ShuttingDown.  The handle of any
\* other entity is removed and dropped, with an error message.
TickShutdown ==
    /\ main = "run"
    /\ internal # <<>> /\ Head(internal).type = "Shutdown"
    /\ LET m  == Head(internal)
           h  == live[m.id]
           ok == h.status = "Live"
       IN /\ live' = [live EXCEPT ![m.id] = IF ok THEN ShuttingDown(h.send, m.recv) ELSE Absent]
          /\ mainErr' = (mainErr \/ ~ok)
    /\ internal' = Tail(internal)
    /\ UNCHANGED <<apiVars, main, calling, toStop, notifying, pool, chan, actorVars, call>>

\* recycle: the reset actor goes to the pool if there is room, or is dropped.
Recycle(h, p) ==
    LET room == Cardinality(pool) < PoolCapacity IN
    /\ live' = [live EXCEPT ![ent[p]] = Absent]
    /\ pool' = IF room THEN pool \cup {<<h.send, p>>} ELSE pool
    /\ pc' = [pc EXCEPT ![p] = IF room THEN "pool" ELSE "free"]
    /\ recv' = [recv EXCEPT ![p] = IF room THEN h.recv ELSE None]
    /\ st' = [st EXCEPT ![p] = "fresh"]

\* Faulty Rerun: the actor is run again without a reset.
RerunUnreset(h, p) ==
    /\ live' = [live EXCEPT ![ent[p]] = Live(h.send)]
    /\ pc' = [pc EXCEPT ![p] = "run"]
    /\ recv' = [recv EXCEPT ![p] = h.recv]
    /\ UNCHANGED <<pool, st>>

\* Commands came in during shutdown: the actor is reset and run again.
Rerun(h, p) ==
    /\ live' = [live EXCEPT ![ent[p]] = Live(h.send)]
    /\ pc' = [pc EXCEPT ![p] = "run"]
    /\ recv' = [recv EXCEPT ![p] = h.recv]
    /\ st' = [st EXCEPT ![p] = "fresh"]
    /\ UNCHANGED pool

\* The error paths of tick drop the handle and the message.
Discard(p) ==
    /\ live' = [live EXCEPT ![ent[p]] = Absent]
    /\ pc' = [pc EXCEPT ![p] = "free"]
    /\ UNCHANGED <<pool, recv, st>>

\* Faulty TickShutdownComplete: commands that came in during shutdown are
\* overlooked.
TickAlwaysRecycles ==
    /\ main = "run"
    /\ internal # <<>> /\ Head(internal).type = "ShutdownComplete"
    /\ LET p == Head(internal).actor IN Recycle(live[ent[p]], p)
    /\ internal' = Tail(internal)
    /\ UNCHANGED <<apiVars, main, calling, toStop, notifying, mainErr, chan, ent, tasks, call>>

\* tick on ShutdownComplete: the actor is assembled again from its parts.
TickShutdownComplete ==
    /\ main = "run"
    /\ internal # <<>> /\ Head(internal).type = "ShutdownComplete"
    /\ LET p  == Head(internal).actor
           h  == live[ent[p]]
           ok == h.status = "ShuttingDown"
       IN /\ mainErr' = (mainErr \/ ~ok)
          /\ IF ~ok THEN Discard(p)
             ELSE IF chan[h.recv] = <<>> THEN Recycle(h, p)
             ELSE Rerun(h, p)
    /\ internal' = Tail(internal)
    /\ UNCHANGED <<apiVars, main, calling, toStop, notifying, chan, ent, tasks, call>>

\* The hash map yields the entities in any order.
NextToNotify == IF toStop' = {} THEN notifying' = None ELSE notifying' \in toStop'

\* ShutdownAll is received: soft_shutdown will notify every live entity.
StartSoftShutdown ==
    /\ main = "run"
    /\ inbox # <<>> /\ Head(inbox).type = "ShutdownAll"
    /\ inbox' = Tail(inbox)
    /\ main' = "stopping"
    /\ toStop' = {i \in Id : live[i].status # "Absent"}
    /\ NextToNotify
    /\ UNCHANGED <<handles, calling, live, pool, mainErr, internal, chan, actorVars, call>>

\* One turn of the loop in ActorState::shutdown.  The send awaits room in the
\* inbox, and fails only if the receiver is gone.
NotifyEntity ==
    /\ main = "stopping" /\ notifying # None
    /\ LET c == live[notifying].send IN
       /\ ReceiverHeld(c) => Len(chan[c]) < EntityInboxSize
       /\ chan' = IF ReceiverHeld(c) THEN [chan EXCEPT ![c] = Append(@, EntityShutdown)] ELSE chan
    /\ toStop' = toStop \ {notifying}
    /\ NextToNotify
    /\ UNCHANGED <<apiVars, main, calling, live, pool, mainErr, internal, actorVars, call>>

\* The ActorState is dropped: the handles, the pool and the internal channel
\* with what is in them.
DropState ==
    /\ main' = "joining"
    /\ live' = [i \in Id |-> Absent]
    /\ pool' = {}
    /\ internal' = <<>>
    /\ pc' = [p \in Actor |-> IF pc[p] \in {"pool", "message"} THEN "dead" ELSE pc[p]]
    /\ recv' = [p \in Actor |-> IF pc[p] = "pool" THEN None ELSE recv[p]]
    /\ UNCHANGED <<apiVars, calling, toStop, notifying, mainErr, chan, ent, tasks, st, call>>

EndSoftShutdown == main = "stopping" /\ notifying = None /\ DropState

\* hard_shutdown, when the inbox is empty and all its senders are gone.
HardShutdown == main = "run" /\ ~handles /\ inbox = <<>> /\ DropState

\* All entity actors have been joined; the main actor ends, and its inbox.
Joined ==
    /\ main = "joining"
    /\ \A p \in Actor : pc[p] \in {"free", "dead"}
    /\ main' = "stopped"
    /\ inbox' = <<>>
    /\ UNCHANGED <<handles, calling, toStop, notifying, live, pool, mainErr, internal, chan, actorVars, call>>

-----------------------------------------------------------------------------
(* The entity actors *)

\* run receives a Spawn and starts its callback.
ReceiveSpawn(p) ==
    LET c == recv[p] IN
    /\ pc[p] = "run"
    /\ chan[c] # <<>> /\ Head(chan[c]).type = "Spawn"
    /\ chan' = [chan EXCEPT ![c] = Tail(@)]
    /\ tasks' = [tasks EXCEPT ![p] = @ \cup {Head(chan[c]).f}]
    /\ call' = [call EXCEPT ![Head(chan[c]).f] = "running"]
    /\ st' = [st EXCEPT ![p] = ent[p]]
    /\ UNCHANGED <<apiVars, mainVars, internal, pc, ent, recv>>

\* run receives EntityShutdown and goes on in soft_shutdown_state.
ReceiveShutdown(p) ==
    LET c == recv[p] IN
    /\ pc[p] = "run"
    /\ chan[c] # <<>> /\ Head(chan[c]).type = "EntityShutdown"
    /\ chan' = [chan EXCEPT ![c] = Tail(@)]
    /\ pc' = [pc EXCEPT ![p] = "soft"]
    /\ UNCHANGED <<apiVars, mainVars, internal, ent, recv, tasks, st, call>>

\* run finds its inbox empty and all senders gone.
ReceiveClosed(p) ==
    /\ pc[p] = "run"
    /\ chan[recv[p]] = <<>> /\ ~SenderHeld(recv[p])
    /\ pc' = [pc EXCEPT ![p] = "drop"]
    /\ UNCHANGED <<apiVars, mainVars, internal, chan, ent, recv, tasks, st, call>>

\* A callback completes.  In run, an actor that now has nothing left to do
\* goes on to recycle_state.
TaskDone(p, k) ==
    /\ pc[p] \in {"run", "soft"} /\ k \in tasks[p]
    /\ tasks' = [tasks EXCEPT ![p] = @ \ {k}]
    /\ call' = [call EXCEPT ![k] = "idle"]
    /\ pc' = [pc EXCEPT ![p] = IF @ = "run" /\ tasks[p] = {k} /\ chan[recv[p]] = <<>>
                               THEN "recycle" ELSE @]
    /\ UNCHANGED <<apiVars, mainVars, internal, chan, ent, recv, st>>

\* recycle_state sends Shutdown with the receiver, or loses the receiver if
\* the main actor is gone.
SendShutdown(p) ==
    /\ pc[p] = "recycle"
    /\ IF StateOwned
       THEN /\ Len(internal) < ResponseInboxSize
            /\ internal' = Append(internal, Shutdown(ent[p], recv[p]))
       ELSE UNCHANGED internal
    /\ recv' = [recv EXCEPT ![p] = None]
    /\ pc' = [pc EXCEPT ![p] = "onIdle"]
    /\ UNCHANGED <<apiVars, mainVars, chan, ent, tasks, st, call>>

\* on_shutdown(Idle) returns.
OnShutdownIdle(p) ==
    /\ pc[p] = "onIdle"
    /\ pc' = [pc EXCEPT ![p] = "complete"]
    /\ st' = [st EXCEPT ![p] = "closed"]
    /\ UNCHANGED <<apiVars, mainVars, internal, chan, ent, recv, tasks, call>>

\* Faulty SendShutdownComplete: a message that finds no room is dropped.
SendShutdownCompleteLossy(p) ==
    /\ pc[p] = "complete"
    /\ IF StateOwned /\ Len(internal) < ResponseInboxSize
       THEN /\ internal' = Append(internal, ShutdownComplete(p))
            /\ pc' = [pc EXCEPT ![p] = "message"]
       ELSE /\ pc' = [pc EXCEPT ![p] = "dead"]
            /\ UNCHANGED internal
    /\ UNCHANGED <<apiVars, mainVars, chan, ent, recv, tasks, st, call>>

\* Faulty SendShutdownComplete: the channel stays open while the main actor
\* joins the entity actors.
SendShutdownCompleteOpen(p) ==
    /\ pc[p] = "complete"
    /\ Len(internal) < ResponseInboxSize
    /\ internal' = Append(internal, ShutdownComplete(p))
    /\ pc' = [pc EXCEPT ![p] = "message"]
    /\ UNCHANGED <<apiVars, mainVars, chan, ent, recv, tasks, st, call>>

\* recycle_state sends ShutdownComplete with the rest of the actor and ends.
SendShutdownComplete(p) ==
    /\ pc[p] = "complete"
    /\ IF StateOwned
       THEN /\ Len(internal) < ResponseInboxSize
            /\ internal' = Append(internal, ShutdownComplete(p))
            /\ pc' = [pc EXCEPT ![p] = "message"]
       ELSE /\ pc' = [pc EXCEPT ![p] = "dead"]
            /\ UNCHANGED internal
    /\ UNCHANGED <<apiVars, mainVars, chan, ent, recv, tasks, st, call>>

\* soft_shutdown_state: no callbacks are left, on_shutdown(Soft) returns.
OnShutdownSoft(p) ==
    /\ pc[p] = "soft" /\ tasks[p] = {}
    /\ pc' = [pc EXCEPT ![p] = "dead"]
    /\ recv' = [recv EXCEPT ![p] = None]
    /\ st' = [st EXCEPT ![p] = "closed"]
    /\ UNCHANGED <<apiVars, mainVars, internal, chan, ent, tasks, call>>

\* The actor is dropped with its callbacks and its receiver.
DropActor(p) ==
    /\ pc' = [pc EXCEPT ![p] = "dead"]
    /\ recv' = [recv EXCEPT ![p] = None]
    /\ tasks' = [tasks EXCEPT ![p] = {}]
    /\ call' = [k \in Call |-> IF k \in tasks[p] THEN "idle" ELSE call[k]]

\* drop_shutdown_state: on_shutdown(Drop) returns.
OnShutdownDrop(p) ==
    /\ pc[p] = "drop"
    /\ DropActor(p)
    /\ st' = [st EXCEPT ![p] = "closed"]
    /\ UNCHANGED <<apiVars, mainVars, internal, chan, ent>>

\* A callback panics, and with it the task that runs the entity actor.
Panic(p) ==
    /\ "panic" \in Events
    /\ pc[p] \in {"run", "soft"} /\ tasks[p] # {}
    /\ DropActor(p)
    /\ UNCHANGED <<apiVars, mainVars, internal, chan, ent, st>>

-----------------------------------------------------------------------------
UserStep ==
    \/ \E i \in Id, k \in Call : UserSpawn(i, k)
    \/ UserShutdown
    \/ UserDrop

HandleSpawn == \E i \in Id, k \in Call : SpawnLive(i, k) \/ SpawnPooled(i, k) \/ SpawnNew(i, k)

Tick == TickShutdown \/ TickShutdownComplete

MainShutdown == StartSoftShutdown \/ NotifyEntity \/ EndSoftShutdown \/ HardShutdown \/ Joined

Receive(p) == ReceiveSpawn(p) \/ ReceiveShutdown(p) \/ ReceiveClosed(p)

ActorEnd(p) == OnShutdownIdle(p) \/ OnShutdownSoft(p) \/ OnShutdownDrop(p)

ActorStep(p) ==
    \/ Receive(p)
    \/ \E k \in Call : TaskDone(p, k)
    \/ SendShutdown(p)
    \/ SendShutdownComplete(p)
    \/ ActorEnd(p)
    \/ Panic(p)

Next ==
    \/ UserStep
    \/ HandleSpawn
    \/ CallbackReturns
    \/ Tick
    \/ MainShutdown
    \/ \E p \in Actor : ActorStep(p)

Spec == Init /\ [][Next]_vars

(* Fairness.  The main actor's select! polls its branches in random order,  *)
(* so neither commands nor ticks starve; tokio's channels grant room to     *)
(* waiting senders in order; callbacks and on_shutdown return.              *)
Fairness ==
    /\ SF_vars(HandleSpawn) /\ SF_vars(Tick)
    /\ WF_vars(CallbackReturns) /\ WF_vars(MainShutdown)
    /\ \A p \in Actor :
        /\ WF_vars(Receive(p)) /\ WF_vars(ActorEnd(p))
        /\ \A k \in Call : WF_vars(TaskDone(p, k))
        /\ SF_vars(SendShutdown(p)) /\ SF_vars(SendShutdownComplete(p))

FairSpec == Spec /\ Fairness

-----------------------------------------------------------------------------
(* Properties *)

Pcs == {"free", "run", "recycle", "onIdle", "complete", "message", "pool", "soft", "drop", "dead"}
MaybeActor == Actor \cup {None}
Commands == [type : {"Spawn"}, id : Id, f : Call] \cup {ShutdownAll, EntityShutdown}
InternalCommands == [type : {"Shutdown", "ShutdownComplete"}, id : Id \cup {None},
                     recv : MaybeActor, actor : MaybeActor]

\* Every variable has its type; the bounded channels respect their sizes.
TypeOK ==
    /\ handles \in BOOLEAN
    /\ inbox \in Seq(Commands) /\ Len(inbox) <= InboxSize
    /\ main \in {"run", "calling", "stopping", "joining", "stopped"}
    /\ calling \in Call \cup {None}
    /\ toStop \subseteq Id /\ notifying \in toStop \cup {None}
    /\ live \in [Id -> [status : {"Absent", "Live", "ShuttingDown"}, send : MaybeActor, recv : MaybeActor]]
    /\ pool \subseteq Actor \X Actor
    /\ internal \in Seq(InternalCommands) /\ Len(internal) <= ResponseInboxSize
    /\ mainErr \in BOOLEAN
    /\ chan \in [Actor -> Seq(Commands)]
    /\ \A p \in Actor : Len(chan[p]) <= EntityInboxSize
    /\ pc \in [Actor -> Pcs]
    /\ ent \in [Actor -> Id \cup {None}]
    /\ recv \in [Actor -> MaybeActor]
    /\ tasks \in [Actor -> SUBSET Call]
    /\ st \in [Actor -> {"fresh", "closed"} \cup Id]
    /\ call \in [Call -> {"idle", "sent", "running"}]

\* The actor runs callbacks or on_shutdown on the state of its entity.
Working(p) == pc[p] \in {"run", "recycle", "onIdle", "complete", "soft", "drop"}

\* Two actors never work on the same entity, not even one that still runs
\* on_shutdown and its successor: "There is no parallelism within a single
\* entity" (EntityManager::spawn).
OneActorPerEntity ==
    \A p, q \in Actor : Working(p) /\ Working(q) /\ ent[p] = ent[q] => p = q

\* The error! paths of tick, which would forget an entity together with what
\* is queued for it, are never taken.
NoMainError == ~mainErr

\* The sender and the receiver that recycle and tick put together are the two
\* ends of one channel (the "todo" in recycle), and they belong to the entity
\* they are used for.
SenderMatchesReceiver ==
    /\ \A i \in Id : live[i].status = "ShuttingDown" => live[i].send = live[i].recv
    /\ \A c, p \in Actor : <<c, p>> \in pool => recv[p] = c
    /\ \A p \in Actor : StateOwned /\ pc[p] \in {"run", "recycle"} => live[ent[p]].send = recv[p]

\* The callback is queued for the main actor.
InInbox(k) == \E n \in 1..Len(inbox) : inbox[n].f = k

InChannel(k, c) == \E n \in 1..Len(chan[c]) : chan[c][n].f = k

\* As long as the manager runs, a callback that spawn has accepted is on its
\* way to be called: a shutdown of its entity, whatever its progress, does
\* not lose it.  Only a panic of another callback of the entity can.
NoCallLost ==
    \A k \in Call : main \in {"run", "calling"} /\ call[k] = "sent" =>
        \/ InInbox(k)
        \/ \E c \in Actor : InChannel(k, c) /\ (ReceiverHeld(c) \/ pc[c] = "dead")

\* A callback never gets a state on which on_shutdown has already been called
\* or that another entity has used: both reset paths (recycle, rerun) work.
StateNotLeaked ==
    \A p \in Actor : pc[p] \in {"run", "recycle"} => st[p] \in {"fresh", ent[p]}

\* A soft shutdown has begun (it may hang, see ShutdownTerminates).
Stopping == main \in {"stopping", "joining", "stopped"}

\* Every accepted callback is called, with Active, Busy or Dead, unless the
\* manager is dropped or shut down, or an entity has been lost to a panic.
EveryCallRuns ==
    \A k \in Call : call[k] = "sent" ~>
        call[k] = "running" \/ ~handles \/ Stopping \/ \E p \in Actor : pc[p] = "dead"

\* After the last EntityManager is dropped the main actor and all entity
\* actors end, unless a soft shutdown has begun.
DropTerminates == ~handles ~> main \in {"stopping", "stopped"}

\* "shutdown ... does wait for tasks to complete": once the main actor has
\* received ShutdownAll, the shutdown completes.
ShutdownTerminates == main = "stopping" ~> main = "stopped"

-----------------------------------------------------------------------------
(* The inductive invariant behind the safety properties *)

Running      == {"run", "recycle", "soft"}         \* the actor holds its receiver
Handing      == {"onIdle", "complete", "message"}  \* the receiver has been given back
IsShutdown(n, p) == internal[n].type = "Shutdown" /\ internal[n].recv = p
IsComplete(n, p) == internal[n].type = "ShutdownComplete" /\ internal[n].actor = p

\* Which part of an actor is where, by the place the actor is at.
ActorInv ==
    \A p \in Actor :
        /\ recv[p] = IF pc[p] \in Running \cup {"drop", "pool"} THEN p ELSE None
        /\ pc[p] # "free" => ent[p] \in Id
        /\ pc[p] \notin {"run", "soft", "drop"} => tasks[p] = {}
        /\ pc[p] \in {"run", "recycle"} => st[p] \in {"fresh", ent[p]}
        /\ pc[p] = "pool" <=> <<p, p>> \in pool

\* The map of live entities and the actors at work name each other.
LiveInv ==
    /\ \A i \in Id :
        LET h == live[i] IN
        /\ h.status = "Absent" => h = Absent
        /\ h.status # "Absent" =>
            /\ h.send \in Actor
            /\ ent[h.send] = i
            /\ pc[h.send] \in Running \cup Handing \cup {"dead"}
        /\ h.status = "Live" => h.recv = None
        /\ h.status = "ShuttingDown" => h.recv = h.send /\ pc[h.send] \in Handing
    /\ \A p \in Actor :
        /\ StateOwned /\ pc[p] \in Running \cup Handing => live[ent[p]].send = p
        /\ StateOwned => pc[p] # "drop"
        /\ StateOwned /\ pc[p] \in Running => live[ent[p]].status = "Live"
        /\ ~StateOwned => pc[p] \notin {"message", "pool"}
    /\ ~StateOwned => live = [i \in Id |-> Absent] /\ internal = <<>>

\* Every message from an entity actor is expected: a Shutdown finds the entity
\* Live, and precedes the ShutdownComplete of the same actor.
MessageInv ==
    /\ \A n \in 1..Len(internal) :
        \/ \E p \in Actor :
            /\ IsShutdown(n, p)
            /\ pc[p] \in Handing
            /\ internal[n].id = ent[p]
            /\ live[ent[p]].status = "Live"
        \/ \E p \in Actor : IsComplete(n, p) /\ pc[p] = "message" /\ internal[n].recv = None
    /\ \A n, m \in 1..Len(internal), p \in Actor :
        /\ IsShutdown(n, p) /\ IsShutdown(m, p) => n = m
        /\ IsComplete(n, p) /\ IsComplete(m, p) => n = m
        /\ IsShutdown(n, p) /\ IsComplete(m, p) => n < m
    /\ \A p \in Actor : pc[p] \in Handing /\ StateOwned /\ live[ent[p]].status = "Live" =>
        \E n \in 1..Len(internal) : IsShutdown(n, p)

\* What is in the pool is an actor with the sender of its own, empty inbox.
PoolInv ==
    \A c, p \in Actor : <<c, p>> \in pool => c = p /\ chan[p] = <<>> /\ st[p] = "fresh"

IInv ==
    /\ TypeOK
    /\ ActorInv
    /\ LiveInv
    /\ MessageInv
    /\ PoolInv
    /\ OneActorPerEntity
    /\ NoMainError
=============================================================================
