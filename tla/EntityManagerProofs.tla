------------------------ MODULE EntityManagerProofs -------------------------
(***************************************************************************)
(* Safety of the entity manager for any entities, callbacks, channel sizes *)
(* and pool capacity.  The inductive invariant IInv holds initially and is *)
(* preserved by the steps of the users and of the main actor, by tick, by  *)
(* the entity actors and by their messages; the theorems are at the end.   *)
(***************************************************************************)
EXTENDS EntityManager, TLAPS

\* What an Append does to length and elements.
LEMMA AppendFacts ==
    ASSUME NEW S, NEW s \in Seq(S), NEW e \in S
    PROVE  /\ Append(s, e) \in Seq(S)
           /\ Len(Append(s, e)) = Len(s) + 1
           /\ Append(s, e) # <<>>
           /\ \A n \in 1..Len(s) : Append(s, e)[n] = s[n]
           /\ Append(s, e)[Len(s) + 1] = e
    OBVIOUS

\* What receiving the first element of a channel does to the rest.
LEMMA TailFacts ==
    ASSUME NEW S, NEW s \in Seq(S), s # <<>>
    PROVE  /\ Tail(s) \in Seq(S)
           /\ Len(s) \in Nat /\ Len(s) > 0
           /\ Len(Tail(s)) = Len(s) - 1
           /\ Head(s) = s[1] /\ Head(s) \in S
           /\ \A n \in 1..Len(Tail(s)) : Tail(s)[n] = s[n + 1]
    OBVIOUS

\* The empty channel.
LEMMA EmptyFacts == ASSUME NEW S PROVE <<>> \in Seq(S) /\ Len(<<>>) = 0 /\ 1..Len(<<>>) = {}
    OBVIOUS

\* The positions of a channel with one more message.
LEMMA Positions ==
    ASSUME NEW l \in Nat
    PROVE  /\ l + 1 \in 1..(l + 1)
           /\ \A n \in 1..l : n \in 1..(l + 1) /\ n < l + 1
           /\ \A n \in 1..(l + 1) : n = l + 1 \/ n \in 1..l
    OBVIOUS

-----------------------------------------------------------------------------
(* Initially, and the users' steps *)

\* The manager starts without entities, actors or messages.
LEMMA InitIInv == Init => IInv
    <1> SUFFICES ASSUME Init PROVE IInv
        BY Zenon
    <1> USE SizesAssumption, NoneAssumption
    <1>1. TypeOK
        <2>1. /\ inbox \in Seq(Commands) /\ Len(inbox) <= InboxSize
              /\ internal \in Seq(InternalCommands) /\ Len(internal) <= ResponseInboxSize
              /\ chan \in [Actor -> Seq(Commands)]
              /\ \A p \in Actor : Len(chan[p]) <= EntityInboxSize
            BY EmptyFacts DEF Init
        <2>2. /\ live \in [Id -> [status : {"Absent", "Live", "ShuttingDown"}, send : MaybeActor, recv : MaybeActor]]
              /\ ent \in [Actor -> Id \cup {None}]
              /\ recv \in [Actor -> MaybeActor]
            BY Zenon DEF Init, Absent, MaybeActor
        <2> QED
            BY <2>1, <2>2, Zenon DEF Init, TypeOK, Pcs
    <1>2. ActorInv /\ LiveInv /\ PoolInv
        BY Zenon DEF Init, ActorInv, LiveInv, PoolInv, Absent, Running, Handing, StateOwned
    <1>3. MessageInv
        BY EmptyFacts DEF Init, MessageInv, Handing
    <1>4. OneActorPerEntity /\ NoMainError
        BY Zenon DEF Init, OneActorPerEntity, NoMainError, Working
    <1> QED
        BY <1>1, <1>2, <1>3, <1>4, Zenon DEF IInv

\* A step that leaves handles, messages and the places of the actors alone,
\* and with them the ownership of the ActorState.
LEMMA FrameView ==
    ASSUME IInv, UNCHANGED <<live, mainErr, internal, pc, ent>>, StateOwned' = StateOwned
    PROVE  (LiveInv /\ MessageInv /\ OneActorPerEntity /\ NoMainError)'
    <1>1. (OneActorPerEntity /\ NoMainError)'
        BY Zenon DEF IInv, OneActorPerEntity, NoMainError, Working
    <1>2. LiveInv'
        BY Zenon DEF IInv, LiveInv
    <1>3. MessageInv'
        BY DEF IInv, MessageInv, IsShutdown, IsComplete
    <1> QED
        BY <1>1, <1>2, <1>3, Zenon

\* Also a step that leaves all of the actors and the pool alone.
LEMMA Frame ==
    ASSUME IInv, UNCHANGED <<live, pool, mainErr, internal, actorVars>>, StateOwned' = StateOwned
    PROVE  (ActorInv /\ LiveInv /\ MessageInv /\ OneActorPerEntity /\ NoMainError)'
    <1>1. ActorInv'
        BY Zenon DEF IInv, ActorInv, actorVars
    <1> QED
        BY <1>1, FrameView, Zenon DEF actorVars

\* The users' steps only reach the inbox of the main actor.
LEMMA UserStepIInv == IInv /\ UserStep => IInv'
    <1> SUFFICES ASSUME IInv, UserStep PROVE IInv'
        BY Zenon
    <1> USE SizesAssumption, NoneAssumption
    <1>1. UNCHANGED <<mainVars, internal, chan, actorVars>>
        BY Zenon DEF UserStep, UserSpawn, UserShutdown, UserDrop
    <1>2. TypeOK'
        <2>1. CASE \E i \in Id, k \in Call : UserSpawn(i, k)
            <3> PICK i \in Id, k \in Call : UserSpawn(i, k)
                BY <2>1, Zenon
            <3>1. Spawn(i, k) \in Commands
                BY Zenon DEF Spawn, Commands
            <3>2. inbox' \in Seq(Commands) /\ Len(inbox') <= InboxSize
                BY <3>1, AppendFacts DEF IInv, UserSpawn, TypeOK
            <3> QED
                BY <3>2, <1>1, Zenon DEF IInv, UserSpawn, TypeOK, mainVars, actorVars
        <2>2. CASE UserShutdown
            <3>1. ShutdownAll \in Commands
                BY Zenon DEF ShutdownAll, Commands
            <3>2. inbox' \in Seq(Commands) /\ Len(inbox') <= InboxSize
                BY <2>2, <3>1, AppendFacts DEF IInv, UserShutdown, TypeOK
            <3> QED
                BY <2>2, <3>2, <1>1, Zenon DEF IInv, UserShutdown, TypeOK, mainVars, actorVars
        <2>3. CASE UserDrop
            BY <2>3, <1>1, Zenon DEF IInv, UserDrop, TypeOK, mainVars, actorVars
        <2> QED
            BY <2>1, <2>2, <2>3, Zenon DEF UserStep
    <1>3. (ActorInv /\ LiveInv /\ MessageInv /\ PoolInv /\ OneActorPerEntity /\ NoMainError)'
        BY <1>1 DEF IInv, ActorInv, LiveInv, MessageInv, PoolInv, OneActorPerEntity, NoMainError, mainVars, actorVars,
            Working, StateOwned, IsShutdown, IsComplete
    <1> QED
        BY <1>2, <1>3, Zenon DEF IInv

-----------------------------------------------------------------------------
(* The main actor's steps *)

\* A live handle names an actor that is not in the pool.
LEMMA SpawnLiveIInv == ASSUME IInv, NEW i \in Id, NEW k \in Call, SpawnLive(i, k) PROVE IInv'
    <1> USE NoneAssumption
    <1> DEFINE c == live[i].send
    <1>1. c \in Actor /\ pc[c] # "pool"
        BY Zenon DEF SpawnLive, IInv, LiveInv, Running, Handing
    <1>2. UNCHANGED <<handles, toStop, notifying, live, pool, mainErr, internal, actorVars>>
        BY Zenon DEF SpawnLive
    <1>3. \A p \in Actor : p # c => chan'[p] = chan[p]
        BY Zenon DEF SpawnLive, IInv, TypeOK
    <1>4. Spawn(i, k) \in Commands
        BY Zenon DEF Spawn, Commands
    <1>5. chan' \in [Actor -> Seq(Commands)] /\ \A p \in Actor : Len(chan'[p]) <= EntityInboxSize
        <2>1. CASE ReceiverHeld(c) /\ Len(chan[c]) < EntityInboxSize
            <3>1. chan' = [chan EXCEPT ![c] = Append(chan[c], Spawn(i, k))]
                BY <2>1, Zenon DEF SpawnLive
            <3>2. chan[c] \in Seq(Commands) /\ Len(chan[c]) < EntityInboxSize
                BY <2>1, <1>1, Zenon DEF IInv, TypeOK
            <3>3. Append(chan[c], Spawn(i, k)) \in Seq(Commands) /\ Len(Append(chan[c], Spawn(i, k))) <= EntityInboxSize
                BY <3>2, <1>4, AppendFacts, SizesAssumption
            <3> QED
                BY <3>1, <3>3, <1>1, Zenon DEF IInv, TypeOK
        <2>2. CASE ~(ReceiverHeld(c) /\ Len(chan[c]) < EntityInboxSize)
            BY <2>2, Zenon DEF SpawnLive, IInv, TypeOK
        <2> QED
            BY <2>1, <2>2, Zenon
    <1>6. /\ inbox' \in Seq(Commands) /\ Len(inbox') <= InboxSize
          /\ main' \in {"run", "calling"} /\ main = "run" /\ calling' \in Call \cup {None}
          /\ call' \in [Call -> {"idle", "sent", "running"}]
        <2>1. inbox' \in Seq(Commands) /\ Len(inbox') <= InboxSize
            BY TailFacts, SizesAssumption DEF SpawnLive, Receives, IInv, TypeOK
        <2> QED
            BY <2>1, Zenon DEF SpawnLive, Receives, IInv, TypeOK
    <1>7. TypeOK'
        BY <1>2, <1>5, <1>6, Zenon DEF IInv, TypeOK, actorVars
    <1>8. (ActorInv /\ LiveInv /\ MessageInv /\ OneActorPerEntity /\ NoMainError)'
        <2>1. StateOwned' = StateOwned
            BY <1>6 DEF StateOwned
        <2> QED
            BY <1>2, <2>1, Frame, Zenon
    <1>9. PoolInv'
        BY <1>1, <1>2, <1>3, Zenon DEF IInv, PoolInv, ActorInv, actorVars
    <1> QED
        BY <1>7, <1>8, <1>9, Zenon DEF IInv

\* No actor outside the pool works for an entity that has no handle.
LEMMA AbsentIdle ==
    ASSUME IInv, main = "run", NEW i \in Id, live[i].status = "Absent",
           NEW p \in Actor, pc[p] \in Running \cup Handing
    PROVE  ent[p] # i
    BY NoneAssumption DEF IInv, LiveInv, Absent, StateOwned

\* get_or_create for an entity without a handle, with an actor from either
\* source.
LEMMA StartActor ==
    ASSUME IInv, main = "run", NEW i \in Id, live[i].status = "Absent",
           NEW p \in Actor, pc[p] \in {"free", "pool"},
           live' = [live EXCEPT ![i] = Live(p)],
           pc' = [pc EXCEPT ![p] = "run"],
           ent' = [ent EXCEPT ![p] = i],
           UNCHANGED <<main, internal, mainErr>>
    PROVE  (LiveInv /\ MessageInv /\ OneActorPerEntity /\ NoMainError)'
    <1> USE NoneAssumption
    <1>1. LiveInv'
        BY AbsentIdle, SMTT(30) DEF IInv, TypeOK, LiveInv, Live, Absent, Running, Handing, StateOwned
    <1>2. MessageInv'
        BY AbsentIdle, SMTT(30) DEF IInv, TypeOK, MessageInv, IsShutdown, IsComplete, Handing, StateOwned, Live
    <1>3. (OneActorPerEntity /\ NoMainError)'
        BY AbsentIdle, SMTT(30) DEF IInv, TypeOK, OneActorPerEntity, NoMainError, Working, LiveInv, StateOwned, Running, Handing
    <1> QED
        BY <1>1, <1>2, <1>3, Zenon

\* get_or_create with an actor from the pool, then spawn_boxed.
LEMMA SpawnPooledIInv == ASSUME IInv, NEW i \in Id, NEW k \in Call, SpawnPooled(i, k) PROVE IInv'
    <1> USE NoneAssumption
    <1> PICK c \in Actor, p \in Actor :
            /\ Receives(i, k)
            /\ live[i].status = "Absent"
            /\ <<c, p>> \in pool
            /\ inbox' = Tail(inbox)
            /\ pool' = pool \ {<<c, p>>}
            /\ live' = [live EXCEPT ![i] = Live(c)]
            /\ chan' = [chan EXCEPT ![c] = Append(@, Spawn(i, k))]
            /\ pc' = [pc EXCEPT ![p] = "run"]
            /\ ent' = [ent EXCEPT ![p] = i]
            /\ st' = [st EXCEPT ![p] = "fresh"]
            /\ UNCHANGED <<handles, main, calling, toStop, notifying, mainErr, internal, recv, tasks, call>>
        BY Zenon DEF SpawnPooled
    <1>1. c = p /\ chan[p] = <<>> /\ pc[p] = "pool" /\ recv[p] = p /\ tasks[p] = {} /\ main = "run"
        BY Zenon DEF IInv, PoolInv, ActorInv, Receives, Running
    <1>2. Spawn(i, k) \in Commands
        BY Zenon DEF Spawn, Commands
    <1>3. TypeOK'
        <2>1. chan' \in [Actor -> Seq(Commands)] /\ \A q \in Actor : Len(chan'[q]) <= EntityInboxSize
            BY <1>1, <1>2, AppendFacts, EmptyFacts, SizesAssumption DEF IInv, TypeOK
        <2>2. inbox' \in Seq(Commands) /\ Len(inbox') <= InboxSize
            BY TailFacts, SizesAssumption, SMTT(30) DEF Receives, IInv, TypeOK
        <2>3. live' \in [Id -> [status : {"Absent", "Live", "ShuttingDown"}, send : MaybeActor, recv : MaybeActor]]
            BY Zenon DEF IInv, TypeOK, Live, MaybeActor
        <2> QED
            BY <2>1, <2>2, <2>3, Zenon DEF IInv, TypeOK, Pcs
    <1>4. ActorInv'
        <2> SUFFICES ASSUME NEW q \in Actor
                     PROVE  /\ recv'[q] = IF pc'[q] \in Running \cup {"drop", "pool"} THEN q ELSE None
                            /\ pc'[q] # "free" => ent'[q] \in Id
                            /\ pc'[q] \notin {"run", "soft", "drop"} => tasks'[q] = {}
                            /\ pc'[q] \in {"run", "recycle"} => st'[q] \in {"fresh", ent'[q]}
                            /\ pc'[q] = "pool" <=> <<q, q>> \in pool'
            BY Zenon DEF ActorInv
        <2>1. CASE q = p
            BY <2>1, <1>1, Zenon DEF IInv, TypeOK, Running
        <2>2. CASE q # p
            BY <2>2, <1>1, SMTT(30) DEF IInv, TypeOK, ActorInv
        <2> QED
            BY <2>1, <2>2, Zenon
    <1>5. (LiveInv /\ MessageInv /\ OneActorPerEntity /\ NoMainError)'
        BY <1>1, StartActor, Zenon
    <1>7. PoolInv'
        BY <1>1 DEF IInv, TypeOK, PoolInv
    <1> QED
        BY <1>3, <1>4, <1>5, <1>7, Zenon DEF IInv

\* get_or_create with a new actor, then spawn_boxed.
LEMMA SpawnNewIInv == ASSUME IInv, NEW i \in Id, NEW k \in Call, SpawnNew(i, k) PROVE IInv'
    <1> USE NoneAssumption
    <1> PICK p \in Actor :
            /\ Receives(i, k)
            /\ live[i].status = "Absent"
            /\ pool = {}
            /\ pc[p] = "free"
            /\ inbox' = Tail(inbox)
            /\ live' = [live EXCEPT ![i] = Live(p)]
            /\ chan' = [chan EXCEPT ![p] = <<Spawn(i, k)>>]
            /\ pc' = [pc EXCEPT ![p] = "run"]
            /\ ent' = [ent EXCEPT ![p] = i]
            /\ recv' = [recv EXCEPT ![p] = p]
            /\ tasks' = [tasks EXCEPT ![p] = {}]
            /\ st' = [st EXCEPT ![p] = "fresh"]
            /\ UNCHANGED <<handles, main, calling, toStop, notifying, pool, mainErr, internal, call>>
        BY Zenon DEF SpawnNew
    <1>1. main = "run" /\ Spawn(i, k) \in Commands
        BY Zenon DEF Receives, Spawn, Commands
    <1>3. TypeOK'
        <2>1. chan' \in [Actor -> Seq(Commands)] /\ \A q \in Actor : Len(chan'[q]) <= EntityInboxSize
            BY <1>1, SizesAssumption DEF IInv, TypeOK
        <2>2. inbox' \in Seq(Commands) /\ Len(inbox') <= InboxSize
            BY TailFacts, SizesAssumption DEF Receives, IInv, TypeOK
        <2>3. live' \in [Id -> [status : {"Absent", "Live", "ShuttingDown"}, send : MaybeActor, recv : MaybeActor]]
            BY Zenon DEF IInv, TypeOK, Live, MaybeActor
        <2> QED
            BY <2>1, <2>2, <2>3, Zenon DEF IInv, TypeOK, Pcs, MaybeActor
    <1>4. ActorInv'
        BY <1>1, Zenon DEF IInv, TypeOK, ActorInv, Running
    <1>5. (LiveInv /\ MessageInv /\ OneActorPerEntity /\ NoMainError)'
        BY <1>1, StartActor, Zenon
    <1>7. PoolInv'
        BY <1>1, Zenon DEF IInv, TypeOK, PoolInv
    <1> QED
        BY <1>3, <1>4, <1>5, <1>7, Zenon DEF IInv

\* The main actor returns from a callback it has awaited itself.
LEMMA CallbackReturnsIInv == IInv /\ CallbackReturns => IInv'
    <1> SUFFICES ASSUME IInv, CallbackReturns PROVE IInv'
        BY Zenon
    <1> USE DEF CallbackReturns, apiVars, actorVars
    <1>1. TypeOK'
        BY Zenon DEF IInv, TypeOK
    <1>2. (ActorInv /\ LiveInv /\ MessageInv /\ PoolInv /\ OneActorPerEntity /\ NoMainError)'
        BY SMTT(30) DEF IInv, ActorInv, LiveInv, MessageInv, PoolInv, OneActorPerEntity, NoMainError,
            Working, StateOwned, IsShutdown, IsComplete
    <1> QED
        BY <1>1, <1>2, Zenon DEF IInv

\* StartSoftShutdown takes a command, NotifyEntity adds one to an inbox that
\* is not that of a pooled actor.
LEMMA SoftShutdownIInv == IInv /\ (StartSoftShutdown \/ NotifyEntity) => IInv'
    <1> SUFFICES ASSUME IInv, StartSoftShutdown \/ NotifyEntity PROVE IInv'
        BY Zenon
    <1> USE NoneAssumption
    <1>1. /\ UNCHANGED <<handles, calling, live, pool, mainErr, internal, actorVars, call>>
          /\ main' = "stopping" /\ StateOwned
        BY Zenon DEF StartSoftShutdown, NotifyEntity, apiVars, StateOwned
    <1>2. inbox' \in Seq(Commands) /\ Len(inbox') <= InboxSize
        <2>1. CASE StartSoftShutdown
            BY <2>1, TailFacts, SizesAssumption DEF StartSoftShutdown, IInv, TypeOK
        <2>2. CASE NotifyEntity
            BY <2>2, Zenon DEF NotifyEntity, apiVars, IInv, TypeOK
        <2> QED
            BY <2>1, <2>2, Zenon
    <1>3. toStop' \subseteq Id /\ notifying' \in toStop' \cup {None}
        BY Zenon DEF StartSoftShutdown, NotifyEntity, NextToNotify, IInv, TypeOK
    <1>4. /\ chan' \in [Actor -> Seq(Commands)] /\ \A p \in Actor : Len(chan'[p]) <= EntityInboxSize
          /\ \A p \in Actor : pc[p] = "pool" => chan'[p] = chan[p]
        <2>1. CASE StartSoftShutdown
            BY <2>1, Zenon DEF StartSoftShutdown, IInv, TypeOK
        <2>2. CASE NotifyEntity
            <3> DEFINE c == live[notifying].send
            <3>1. notifying \in Id
                BY <2>2, Zenon DEF NotifyEntity, IInv, TypeOK
            <3>2. c \in Actor => pc[c] # "pool" /\ chan[c] \in Seq(Commands)
                <4>1. live[notifying].status = "Absent" => c \notin Actor
                    BY <3>1, NoneAssumption DEF IInv, LiveInv, Absent
                <4>2. live[notifying].status # "Absent" => pc[c] # "pool"
                    BY <3>1, Zenon DEF IInv, LiveInv, Running, Handing
                <4> QED
                    BY <4>1, <4>2, Zenon DEF IInv, TypeOK
            <3>3. EntityShutdown \in Commands
                BY Zenon DEF EntityShutdown, Commands
            <3>4. CASE c \in Actor /\ ReceiverHeld(c)
                <4>1. Len(chan[c]) < EntityInboxSize /\ chan' = [chan EXCEPT ![c] = Append(chan[c], EntityShutdown)]
                    BY <2>2, <3>4, Zenon DEF NotifyEntity
                <4>2. Append(chan[c], EntityShutdown) \in Seq(Commands)
                      /\ Len(Append(chan[c], EntityShutdown)) <= EntityInboxSize
                    BY <3>2, <3>3, <3>4, <4>1, AppendFacts, SizesAssumption
                <4> QED
                    BY <3>2, <3>4, <4>1, <4>2, Zenon DEF IInv, TypeOK
            <3>5. CASE ~(c \in Actor /\ ReceiverHeld(c))
                <4>1. chan' = chan
                    <5>1. chan \in [Actor -> Seq(Commands)]
                        BY Zenon DEF IInv, TypeOK
                    <5>2. chan' = IF ReceiverHeld(c) THEN [chan EXCEPT ![c] = Append(@, EntityShutdown)] ELSE chan
                        BY <2>2, Zenon DEF NotifyEntity
                    <5> QED
                        BY <3>5, <5>1, <5>2, Zenon
                <4> QED
                    BY <4>1, Zenon DEF IInv, TypeOK
            <3> QED
                BY <3>4, <3>5, Zenon
        <2> QED
            BY <2>1, <2>2, Zenon
    <1>5. TypeOK'
        BY <1>1, <1>2, <1>3, <1>4, Zenon DEF IInv, TypeOK, actorVars
    <1>6. (ActorInv /\ LiveInv /\ MessageInv /\ OneActorPerEntity /\ NoMainError)'
        BY <1>1, Frame, Zenon DEF StateOwned
    <1>7. PoolInv'
        BY <1>1, <1>4, Zenon DEF IInv, PoolInv, ActorInv, actorVars
    <1> QED
        BY <1>5, <1>6, <1>7, Zenon DEF IInv

\* Dropping the ActorState leaves no handle, no message and no pooled actor.
LEMMA DropStateIInv == IInv /\ StateOwned /\ DropState => IInv'
    <1> SUFFICES ASSUME IInv, StateOwned, DropState PROVE IInv'
        BY Zenon
    <1> USE NoneAssumption
    <1>1. /\ main' = "joining" /\ live' = [i \in Id |-> Absent] /\ pool' = {} /\ internal' = <<>>
          /\ UNCHANGED <<apiVars, calling, toStop, notifying, mainErr, chan, ent, tasks, st, call>>
          /\ \A p \in Actor : pc'[p] = IF pc[p] \in {"pool", "message"} THEN "dead" ELSE pc[p]
          /\ \A p \in Actor : recv'[p] = IF pc[p] = "pool" THEN None ELSE recv[p]
        BY Zenon DEF DropState
    <1>2. TypeOK'
        <2>1. live' \in [Id -> [status : {"Absent", "Live", "ShuttingDown"}, send : MaybeActor, recv : MaybeActor]]
            BY <1>1, Zenon DEF Absent, MaybeActor
        <2>2. pc' \in [Actor -> Pcs] /\ recv' \in [Actor -> MaybeActor]
            BY Zenon DEF DropState, IInv, TypeOK, Pcs, MaybeActor
        <2>3. internal' \in Seq(InternalCommands) /\ Len(internal') <= ResponseInboxSize
            BY <1>1, EmptyFacts, SizesAssumption
        <2> QED
            BY <1>1, <2>1, <2>2, <2>3, Zenon DEF IInv, TypeOK, apiVars
    <1>3. ActorInv'
        <2> SUFFICES ASSUME NEW q \in Actor
                     PROVE  /\ recv'[q] = IF pc'[q] \in Running \cup {"drop", "pool"} THEN q ELSE None
                            /\ pc'[q] # "free" => ent'[q] \in Id
                            /\ pc'[q] \notin {"run", "soft", "drop"} => tasks'[q] = {}
                            /\ pc'[q] \in {"run", "recycle"} => st'[q] \in {"fresh", ent'[q]}
                            /\ pc'[q] = "pool" <=> <<q, q>> \in pool'
            BY Zenon DEF ActorInv
        <2>1. recv'[q] = IF pc'[q] \in Running \cup {"drop", "pool"} THEN q ELSE None
            BY <1>1, Zenon DEF IInv, ActorInv, Running
        <2>2. pc'[q] = "pool" <=> <<q, q>> \in pool'
            BY <1>1, Zenon
        <2>3. pc'[q] \notin {"run", "soft", "drop"} => tasks'[q] = {}
            BY <1>1, Zenon DEF IInv, ActorInv
        <2>4. pc'[q] \in {"run", "recycle"} => st'[q] \in {"fresh", ent'[q]}
            BY <1>1, Zenon DEF IInv, ActorInv
        <2>5. pc'[q] # "free" => ent'[q] \in Id
            BY <1>1, Zenon DEF IInv, ActorInv
        <2> QED
            BY <2>1, <2>2, <2>3, <2>4, <2>5, Zenon
    <1>4. LiveInv'
        <2>1. /\ ~StateOwned' /\ \A i \in Id : live'[i] = Absent
              /\ Absent.status = "Absent"
              /\ \A p \in Actor : pc'[p] \notin {"message", "pool"}
            BY <1>1, Zenon DEF StateOwned, Absent
        <2> QED
            BY <1>1, <2>1, Zenon DEF LiveInv
    <1>5. MessageInv'
        BY <1>1, EmptyFacts DEF MessageInv, StateOwned
    <1>6. (PoolInv /\ OneActorPerEntity /\ NoMainError)'
        BY <1>1, ZenonT(60) DEF IInv, PoolInv, OneActorPerEntity, NoMainError, Working
    <1> QED
        BY <1>2, <1>3, <1>4, <1>5, <1>6, Zenon DEF IInv

\* The main actor ends after it has joined the entity actors.
LEMMA JoinedIInv == IInv /\ Joined => IInv'
    <1> SUFFICES ASSUME IInv, Joined PROVE IInv'
        BY Zenon
    <1>1. /\ main = "joining" /\ main' = "stopped" /\ inbox' = <<>>
          /\ UNCHANGED <<handles, calling, toStop, notifying, live, pool, mainErr, internal, chan, actorVars, call>>
        BY Zenon DEF Joined
    <1>2. TypeOK'
        BY <1>1, EmptyFacts, SizesAssumption DEF IInv, TypeOK, actorVars
    <1>3. (ActorInv /\ LiveInv /\ MessageInv /\ OneActorPerEntity /\ NoMainError)'
        BY <1>1, Frame DEF StateOwned
    <1>4. PoolInv'
        BY <1>1, Zenon DEF IInv, PoolInv, actorVars
    <1> QED
        BY <1>2, <1>3, <1>4, Zenon DEF IInv

-----------------------------------------------------------------------------
(* tick: the main actor takes entity actors back *)

\* No actor has two messages of a kind on their way, and its Shutdown is first.
LEMMA MessageOrder ==
    ASSUME IInv, NEW p \in Actor, NEW n \in 1..Len(internal), NEW m \in 1..Len(internal)
    PROVE  /\ IsShutdown(n, p) /\ IsShutdown(m, p) => n = m
           /\ IsComplete(n, p) /\ IsComplete(m, p) => n = m
           /\ IsShutdown(n, p) /\ IsComplete(m, p) => n < m
    BY Zenon DEF IInv, MessageInv

\* What a message on its way to the main actor may be.
LEMMA MessageKind ==
    ASSUME IInv, NEW n \in 1..Len(internal)
    PROVE  \/ \E p \in Actor : /\ IsShutdown(n, p) /\ pc[p] \in Handing
                               /\ internal[n].id = ent[p] /\ live[ent[p]].status = "Live"
           \/ \E p \in Actor : IsComplete(n, p) /\ pc[p] = "message" /\ internal[n].recv = None
    BY Zenon DEF IInv, MessageInv

\* The sender of a message has given back its receiver.
LEMMA MessageSource ==
    ASSUME IInv, NEW p \in Actor, NEW n \in 1..Len(internal)
    PROVE  /\ IsShutdown(n, p) => pc[p] \in Handing
           /\ IsComplete(n, p) => pc[p] = "message"
    <1>1. CASE \E q \in Actor : IsShutdown(n, q) /\ pc[q] \in Handing
        BY <1>1, Zenon DEF IsShutdown, IsComplete
    <1>2. CASE \E q \in Actor : IsComplete(n, q) /\ pc[q] = "message"
        BY <1>2, Zenon DEF IsShutdown, IsComplete
    <1> QED
        BY <1>1, <1>2, Zenon DEF IInv, MessageInv

\* What taking the first message leaves in the channel.
LEMMA TailMessages ==
    ASSUME IInv, internal # <<>>, internal' = Tail(internal)
    PROVE  /\ internal' \in Seq(InternalCommands) /\ Len(internal') <= ResponseInboxSize
           /\ Head(internal) = internal[1] /\ 1 \in 1..Len(internal)
           /\ \A n \in 1..Len(internal') :
                 internal'[n] = internal[n + 1] /\ n + 1 \in 1..Len(internal) /\ n + 1 # 1 /\ ~(n + 1 < 1)
           /\ \A n \in 1..Len(internal) : n # 1 => n - 1 \in 1..Len(internal') /\ internal'[n - 1] = internal[n]
    <1>1. internal \in Seq(InternalCommands) /\ Len(internal) <= ResponseInboxSize
        BY Zenon DEF IInv, TypeOK
    <1>2. /\ internal' \in Seq(InternalCommands) /\ Len(internal) \in Nat /\ Len(internal) > 0
          /\ Len(internal') = Len(internal) - 1 /\ Head(internal) = internal[1]
          /\ \A n \in 1..Len(internal') : internal'[n] = internal[n + 1]
        BY <1>1, TailFacts, Zenon
    <1> QED
        BY <1>1, <1>2, SizesAssumption

\* The rest of the channel is in order, too.
LEMMA TailOrder ==
    ASSUME IInv, internal # <<>>, internal' = Tail(internal), NEW p \in Actor,
           NEW n \in 1..Len(internal'), NEW m \in 1..Len(internal')
    PROVE  /\ IsShutdown(n, p)' /\ IsShutdown(m, p)' => n = m
           /\ IsComplete(n, p)' /\ IsComplete(m, p)' => n = m
           /\ IsShutdown(n, p)' /\ IsComplete(m, p)' => n < m
    <1>1. /\ n + 1 \in 1..Len(internal) /\ internal'[n] = internal[n + 1]
          /\ m + 1 \in 1..Len(internal) /\ internal'[m] = internal[m + 1]
        BY TailMessages, Zenon
    <1>2. (n + 1 = m + 1 => n = m) /\ (n + 1 < m + 1 => n < m)
        OBVIOUS
    <1>3. /\ IsShutdown(n, p)' => IsShutdown(n + 1, p)
          /\ IsShutdown(m, p)' => IsShutdown(m + 1, p)
          /\ IsComplete(n, p)' => IsComplete(n + 1, p)
          /\ IsComplete(m, p)' => IsComplete(m + 1, p)
        BY <1>1, Zenon DEF IsShutdown, IsComplete
    <1> QED
        BY <1>1, <1>2, <1>3, MessageOrder, Zenon

\* The Shutdown at the head of the channel is that of a live entity.
LEMMA TickShutdownIInv == IInv /\ TickShutdown => IInv'
    <1> SUFFICES ASSUME IInv, TickShutdown PROVE IInv'
        BY Zenon
    <1> USE NoneAssumption
    <1>0. internal # <<>> /\ internal' = Tail(internal)
        BY Zenon DEF TickShutdown
    <1>1. internal[1].type = "Shutdown" /\ 1 \in 1..Len(internal) /\ Head(internal) = internal[1]
        BY <1>0, TailMessages, Zenon DEF TickShutdown
    <1>2. PICK p \in Actor : IsShutdown(1, p) /\ pc[p] \in Handing /\ internal[1].id = ent[p]
                             /\ live[ent[p]].status = "Live"
        BY <1>1, Zenon DEF IInv, MessageInv, IsComplete
    <1>3. /\ main = "run"
          /\ UNCHANGED <<apiVars, main, calling, toStop, notifying, pool, chan, actorVars, call>>
          /\ ent[p] \in Id
          /\ live' = [live EXCEPT ![ent[p]] = ShuttingDown(p, p)]
          /\ mainErr' = FALSE
        <2>1. main = "run" /\ UNCHANGED <<apiVars, main, calling, toStop, notifying, pool, chan, actorVars, call>>
            BY Zenon DEF TickShutdown
        <2>2. ent[p] \in Id
            BY <1>2, Zenon DEF IInv, ActorInv, Handing
        <2>3. live[ent[p]].send = p
            BY <2>1, <1>2, Zenon DEF IInv, LiveInv, StateOwned
        <2>4. /\ live' = [live EXCEPT ![ent[p]] = ShuttingDown(live[ent[p]].send, internal[1].recv)]
              /\ mainErr' = (mainErr \/ ~(live[ent[p]].status = "Live"))
            BY <1>1, <1>2, Zenon DEF TickShutdown
        <2>5. mainErr' = FALSE
            BY <1>2, <2>4, Zenon DEF IInv, NoMainError
        <2> QED
            BY <1>2, <2>1, <2>2, <2>3, <2>4, <2>5, Zenon DEF IsShutdown
    <1>4. TypeOK'
        <2>1. Len(internal') <= ResponseInboxSize
            BY <1>0, TailMessages, Zenon
        <2>2. live' \in [Id -> [status : {"Absent", "Live", "ShuttingDown"}, send : MaybeActor, recv : MaybeActor]]
            BY <1>3, Zenon DEF IInv, TypeOK, ShuttingDown, MaybeActor
        <2> QED
            BY <1>0, <1>3, <2>1, <2>2, TailMessages, Zenon DEF IInv, TypeOK, apiVars, actorVars
    <1>5. (ActorInv /\ PoolInv /\ OneActorPerEntity /\ NoMainError)'
        BY <1>3, ZenonT(60) DEF IInv, ActorInv, PoolInv, OneActorPerEntity, NoMainError, Working, actorVars
    <1>6. LiveInv'
        BY <1>2, <1>3, SMTT(30) DEF IInv, TypeOK, LiveInv, ShuttingDown, Absent, StateOwned, actorVars, Handing, Running
    <1>7. MessageInv'
        <2>1. ASSUME NEW n \in 1..Len(internal') PROVE ~IsShutdown(n + 1, p)
            BY <1>0, <1>1, <1>2, TailMessages, MessageOrder, Zenon
        <2>2. \A q \in Actor : q # p /\ pc[q] \in Handing => ent[q] # ent[p] /\ live'[ent[q]] = live[ent[q]]
            BY <1>2, <1>3, SMTT(30) DEF IInv, TypeOK, LiveInv, ActorInv, StateOwned, Handing
        <2>3. \A n \in 1..Len(internal') :
                  \/ \E q \in Actor : /\ IsShutdown(n, q)' /\ pc[q] \in Handing
                                      /\ internal'[n].id = ent[q] /\ live'[ent[q]].status = "Live"
                  \/ \E q \in Actor : IsComplete(n, q)' /\ pc[q] = "message" /\ internal'[n].recv = None
            <3> SUFFICES ASSUME NEW n \in 1..Len(internal')
                         PROVE \/ \E q \in Actor : /\ IsShutdown(n, q)' /\ pc[q] \in Handing
                                                    /\ internal'[n].id = ent[q] /\ live'[ent[q]].status = "Live"
                               \/ \E q \in Actor : IsComplete(n, q)' /\ pc[q] = "message" /\ internal'[n].recv = None
                BY Zenon
            <3>1. internal'[n] = internal[n + 1] /\ n + 1 \in 1..Len(internal)
                BY <1>0, TailMessages, Zenon
            <3>2. CASE \E q \in Actor : /\ IsShutdown(n + 1, q) /\ pc[q] \in Handing
                                        /\ internal[n + 1].id = ent[q] /\ live[ent[q]].status = "Live"
                BY <2>1, <2>2, <3>1, <3>2, Zenon DEF IsShutdown
            <3>3. CASE \E q \in Actor : IsComplete(n + 1, q) /\ pc[q] = "message" /\ internal[n + 1].recv = None
                BY <3>1, <3>3, Zenon DEF IsComplete
            <3> QED
                BY <3>1, <3>2, <3>3, MessageKind, SMTT(30)
        <2>4. \A n, m \in 1..Len(internal'), q \in Actor :
                  /\ IsShutdown(n, q)' /\ IsShutdown(m, q)' => n = m
                  /\ IsComplete(n, q)' /\ IsComplete(m, q)' => n = m
                  /\ IsShutdown(n, q)' /\ IsComplete(m, q)' => n < m
            BY <1>0, TailOrder, Zenon
        <2>5. ASSUME NEW q \in Actor, pc[q] \in Handing, live'[ent[q]].status = "Live"
              PROVE  \E n \in 1..Len(internal') : IsShutdown(n, q)'
            <3>1. q # p /\ live[ent[q]].status = "Live"
                BY <1>2, <1>3, <2>2, <2>5, Zenon DEF ShuttingDown, IInv, TypeOK
            <3>2. PICK n \in 1..Len(internal) : IsShutdown(n, q)
                BY <1>3, <2>5, <3>1, Zenon DEF IInv, MessageInv, StateOwned
            <3>3. n # 1
                BY <1>2, <3>1, <3>2, Zenon DEF IsShutdown
            <3>4. n - 1 \in 1..Len(internal') /\ internal'[n - 1] = internal[n]
                BY <1>0, <3>2, <3>3, TailMessages, Zenon
            <3> QED
                BY <3>2, <3>4, Zenon DEF IsShutdown
        <2> QED
            BY <1>3, <2>3, <2>4, <2>5, Zenon DEF MessageInv, actorVars
    <1> QED
        BY <1>4, <1>5, <1>6, <1>7, Zenon DEF IInv

\* The ShutdownComplete at the head of the channel is that of an entity that
\* is shutting down, and the handle holds both ends of the actor's inbox.
LEMMA TickShutdownCompleteIInv == IInv /\ TickShutdownComplete => IInv'
    <1> SUFFICES ASSUME IInv, TickShutdownComplete PROVE IInv'
        BY Zenon
    <1> USE NoneAssumption
    <1>0. internal # <<>> /\ internal' = Tail(internal)
        BY Zenon DEF TickShutdownComplete
    <1>1. internal[1].type = "ShutdownComplete" /\ 1 \in 1..Len(internal) /\ Head(internal) = internal[1]
        BY <1>0, TailMessages, Zenon DEF TickShutdownComplete
    <1>2. PICK p \in Actor : IsComplete(1, p) /\ pc[p] = "message"
        BY <1>1, Zenon DEF IInv, MessageInv, IsShutdown
    <1>3. /\ main = "run"
          /\ UNCHANGED <<apiVars, main, calling, toStop, notifying, chan, ent, tasks, call>>
          /\ ent[p] \in Id /\ live[ent[p]].send = p
        BY <1>2, Zenon DEF TickShutdownComplete, IInv, ActorInv, LiveInv, StateOwned, Handing
    <1>4. live[ent[p]].status = "ShuttingDown" /\ live[ent[p]].recv = p
        <2>1. live[ent[p]].status # "Live"
            <3> SUFFICES ASSUME live[ent[p]].status = "Live" PROVE FALSE
                BY Zenon
            <3>1. PICK n \in 1..Len(internal) : IsShutdown(n, p)
                BY <1>2, <1>3, Zenon DEF IInv, MessageInv, StateOwned, Handing
            <3>2. n < 1
                BY <1>1, <1>2, <3>1, MessageOrder, Zenon
            <3> QED
                BY <3>1, <3>2, SMTT(30)
        <2>2. live[ent[p]].status # "Absent"
            <3>1. live[ent[p]].status = "Absent" => live[ent[p]] = Absent
                BY <1>3, Zenon DEF IInv, LiveInv
            <3>2. Absent.send \notin Actor
                BY NoneAssumption, SMTT(30) DEF Absent
            <3> QED
                BY <1>3, <3>1, <3>2, Zenon
        <2> QED
            BY <1>3, <2>1, <2>2, SMTT(30) DEF IInv, TypeOK, LiveInv
    <1>5. mainErr' = FALSE /\ IF chan[p] = <<>> THEN Recycle(live[ent[p]], p) ELSE Rerun(live[ent[p]], p)
        <2>1. Head(internal).actor = p
            BY <1>1, <1>2, Zenon DEF IsComplete
        <2>2. mainErr' = (mainErr \/ ~(live[ent[p]].status = "ShuttingDown"))
            BY <2>1, Zenon DEF TickShutdownComplete
        <2>3. IF chan[p] = <<>> THEN Recycle(live[ent[p]], p) ELSE Rerun(live[ent[p]], p)
            BY <2>1, <1>4, Zenon DEF TickShutdownComplete
        <2> QED
            BY <1>4, <2>2, <2>3, Zenon DEF IInv, NoMainError
    <1>6. /\ st' = [st EXCEPT ![p] = "fresh"]
          /\ \/ /\ live' = [live EXCEPT ![ent[p]] = Absent] /\ chan[p] = <<>>
                /\ pc' = [pc EXCEPT ![p] = "pool"] /\ recv' = [recv EXCEPT ![p] = p]
                /\ pool' = pool \cup {<<p, p>>}
             \/ /\ live' = [live EXCEPT ![ent[p]] = Absent]
                /\ pc' = [pc EXCEPT ![p] = "free"] /\ recv' = [recv EXCEPT ![p] = None]
                /\ pool' = pool
             \/ /\ live' = [live EXCEPT ![ent[p]] = Live(p)]
                /\ pc' = [pc EXCEPT ![p] = "run"] /\ recv' = [recv EXCEPT ![p] = p]
                /\ pool' = pool
        BY <1>3, <1>4, <1>5, Zenon DEF Recycle, Rerun
    <1>7. /\ live' \in [Id -> [status : {"Absent", "Live", "ShuttingDown"}, send : MaybeActor, recv : MaybeActor]]
          /\ \A i \in Id : i # ent[p] => live'[i] = live[i]
          /\ pc' \in [Actor -> Pcs] /\ recv' \in [Actor -> MaybeActor] /\ pool' \subseteq Actor \X Actor
          /\ \A q \in Actor : q # p => pc'[q] = pc[q] /\ recv'[q] = recv[q]
        <2> Absent \in [status : {"Absent", "Live", "ShuttingDown"}, send : MaybeActor, recv : MaybeActor]
            BY Zenon DEF Absent, MaybeActor
        <2> Live(p) \in [status : {"Absent", "Live", "ShuttingDown"}, send : MaybeActor, recv : MaybeActor]
            BY Zenon DEF Live, MaybeActor
        <2> HIDE DEF Absent, Live
        <2>1. live \in [Id -> [status : {"Absent", "Live", "ShuttingDown"}, send : MaybeActor, recv : MaybeActor]]
              /\ pool \subseteq Actor \X Actor
            BY Zenon DEF IInv, TypeOK
        <2>2. pc \in [Actor -> Pcs] /\ recv \in [Actor -> MaybeActor]
            BY Zenon DEF IInv, TypeOK
        <2>3. /\ live' \in [Id -> [status : {"Absent", "Live", "ShuttingDown"}, send : MaybeActor, recv : MaybeActor]]
              /\ \A i \in Id : i # ent[p] => live'[i] = live[i]
              /\ pool' \subseteq Actor \X Actor
            BY <1>3, <1>6, <2>1, SMTT(30)
        <2>4. /\ pc' \in [Actor -> Pcs] /\ recv' \in [Actor -> MaybeActor]
              /\ \A q \in Actor : q # p => pc'[q] = pc[q] /\ recv'[q] = recv[q]
            BY <1>6, <2>2 DEF Pcs, MaybeActor
        <2> QED
            BY <2>3, <2>4, Zenon
    <1>8. TypeOK'
        <2> QED
            BY <1>0, <1>3, <1>5, <1>6, <1>7, TailMessages, Zenon DEF IInv, TypeOK, apiVars
    <1>9. \A q \in Actor : q # p /\ pc[q] \in Running \cup Handing =>
              ent[q] \in Id /\ ent[q] # ent[p] /\ live'[ent[q]] = live[ent[q]]
        <2> SUFFICES ASSUME NEW q \in Actor, q # p, pc[q] \in Running \cup Handing
                     PROVE  ent[q] \in Id /\ ent[q] # ent[p] /\ live'[ent[q]] = live[ent[q]]
            BY Zenon
        <2>1. ent[q] \in Id
            BY Zenon DEF IInv, ActorInv, Running, Handing
        <2>2. live[ent[q]].send = q
            BY <1>3, Zenon DEF IInv, LiveInv, StateOwned
        <2> QED
            BY <1>3, <1>7, <2>1, <2>2, Zenon
    <1>10. ActorInv'
        <2> SUFFICES ASSUME NEW q \in Actor
                     PROVE  /\ recv'[q] = IF pc'[q] \in Running \cup {"drop", "pool"} THEN q ELSE None
                            /\ pc'[q] # "free" => ent'[q] \in Id
                            /\ pc'[q] \notin {"run", "soft", "drop"} => tasks'[q] = {}
                            /\ pc'[q] \in {"run", "recycle"} => st'[q] \in {"fresh", ent'[q]}
                            /\ pc'[q] = "pool" <=> <<q, q>> \in pool'
            BY Zenon DEF ActorInv
        <2>1. CASE q = p
            <3>0. tasks[p] = {} /\ ~(<<p, p>> \in pool)
                BY <1>2, Zenon DEF IInv, ActorInv
            <3>1. tasks[p] = {} /\ ~(<<p, p>> \in pool) /\ pc'[p] \in {"pool", "free", "run"} /\ st'[p] = "fresh"
                BY <3>0, <1>6, Zenon DEF IInv, TypeOK
            <3>2. recv'[p] = IF pc'[p] \in Running \cup {"drop", "pool"} THEN p ELSE None
                BY <1>6, ZenonT(60) DEF IInv, TypeOK, Running
            <3>3. pc'[p] = "pool" <=> <<p, p>> \in pool'
                BY <1>6, <3>1, Zenon DEF IInv, TypeOK
            <3> QED
                BY <2>1, <1>3, <3>1, <3>2, <3>3, Zenon
        <2>2. CASE q # p
            BY <2>2, <1>3, <1>6, SMTT(30) DEF IInv, TypeOK, ActorInv
        <2> QED
            BY <2>1, <2>2, Zenon
    <1>11. LiveInv'
        <2>1. \/ live'[ent[p]] = Absent /\ pc'[p] \in {"pool", "free"}
              \/ live'[ent[p]] = Live(p) /\ pc'[p] = "run"
            BY <1>3, <1>6, ZenonT(60) DEF IInv, TypeOK
        <2>2. main' = "run" /\ StateOwned /\ StateOwned'
            BY <1>3, Zenon DEF StateOwned
        <2>3. ASSUME NEW i \in Id
              PROVE  /\ live'[i].status = "Absent" => live'[i] = Absent
                     /\ live'[i].status # "Absent" =>
                          /\ live'[i].send \in Actor
                          /\ ent[live'[i].send] = i
                          /\ pc'[live'[i].send] \in Running \cup Handing \cup {"dead"}
                     /\ live'[i].status = "Live" => live'[i].recv = None
                     /\ live'[i].status = "ShuttingDown" => live'[i].recv = live'[i].send /\ pc'[live'[i].send] \in Handing
            <3>1. CASE i = ent[p]
                BY <2>1, <3>1 DEF Live, Absent, Running
            <3>2. CASE i # ent[p]
                BY <1>3, <1>7, <3>2, SMTT(30) DEF IInv, LiveInv
            <3> QED
                BY <3>1, <3>2, Zenon
        <2>4. ASSUME NEW q \in Actor
              PROVE  /\ pc'[q] \in Running \cup Handing => live'[ent[q]].send = q
                     /\ pc'[q] # "drop"
                     /\ pc'[q] \in Running => live'[ent[q]].status = "Live"
            <3>1. CASE q = p
                BY <2>1, <3>1 DEF Live, Absent, Running, Handing
            <3>2. CASE q # p
                BY <1>7, <1>9, <2>2, <3>2, SMTT(30) DEF IInv, LiveInv
            <3> QED
                BY <3>1, <3>2, Zenon
        <2> QED
            BY <1>3, <2>2, <2>3, <2>4, Zenon DEF LiveInv
    <1>12. MessageInv'
        <2>1. ASSUME NEW n \in 1..Len(internal') PROVE ~IsShutdown(n + 1, p) /\ ~IsComplete(n + 1, p)
            BY <1>0, <1>1, <1>2, TailMessages, MessageOrder, Zenon
        <2>2. \A n \in 1..Len(internal') :
                  \/ \E q \in Actor : /\ IsShutdown(n, q)' /\ pc'[q] \in Handing
                                      /\ internal'[n].id = ent[q] /\ live'[ent[q]].status = "Live"
                  \/ \E q \in Actor : IsComplete(n, q)' /\ pc'[q] = "message" /\ internal'[n].recv = None
            <3> SUFFICES ASSUME NEW n \in 1..Len(internal')
                         PROVE \/ \E q \in Actor : /\ IsShutdown(n, q)' /\ pc'[q] \in Handing
                                                    /\ internal'[n].id = ent[q] /\ live'[ent[q]].status = "Live"
                               \/ \E q \in Actor : IsComplete(n, q)' /\ pc'[q] = "message" /\ internal'[n].recv = None
                BY Zenon
            <3>1. internal'[n] = internal[n + 1] /\ n + 1 \in 1..Len(internal)
                BY <1>0, TailMessages, Zenon
            <3>2. CASE \E q \in Actor : /\ IsShutdown(n + 1, q) /\ pc[q] \in Handing
                                        /\ internal[n + 1].id = ent[q] /\ live[ent[q]].status = "Live"
                BY <1>7, <1>9, <2>1, <3>1, <3>2, ZenonT(60) DEF IsShutdown
            <3>3. CASE \E q \in Actor : IsComplete(n + 1, q) /\ pc[q] = "message" /\ internal[n + 1].recv = None
                BY <1>7, <2>1, <3>1, <3>3, Zenon DEF IsComplete
            <3> QED
                BY <3>1, <3>2, <3>3, MessageKind, SMTT(30)
        <2>3. \A n, m \in 1..Len(internal'), q \in Actor :
                  /\ IsShutdown(n, q)' /\ IsShutdown(m, q)' => n = m
                  /\ IsComplete(n, q)' /\ IsComplete(m, q)' => n = m
                  /\ IsShutdown(n, q)' /\ IsComplete(m, q)' => n < m
            BY <1>0, TailOrder, Zenon
        <2>4. ASSUME NEW q \in Actor, pc'[q] \in Handing, live'[ent[q]].status = "Live"
              PROVE  \E n \in 1..Len(internal') : IsShutdown(n, q)'
            <3>1. q # p /\ pc[q] \in Handing /\ live[ent[q]].status = "Live"
                BY <1>6, <1>7, <1>9, <2>4, SMTT(30) DEF Handing, IInv, TypeOK
            <3>2. PICK n \in 1..Len(internal) : IsShutdown(n, q)
                BY <1>3, <3>1, Zenon DEF IInv, MessageInv, StateOwned
            <3>3. n # 1
                BY <1>1, <3>2, Zenon DEF IsShutdown
            <3>4. n - 1 \in 1..Len(internal') /\ internal'[n - 1] = internal[n]
                BY <1>0, <3>2, <3>3, TailMessages, Zenon
            <3> QED
                BY <3>2, <3>4, Zenon DEF IsShutdown
        <2> QED
            BY <1>3, <2>2, <2>3, <2>4, Zenon DEF MessageInv
    <1>13. PoolInv'
        BY <1>3, <1>6 DEF IInv, TypeOK, PoolInv
    <1>14. OneActorPerEntity'
        <2>1. ASSUME NEW q \in Actor, Working(q)', q # p
              PROVE  Working(q) /\ ent'[q] = ent[q] /\ ent'[p] = ent[p] /\ ent[q] # ent[p]
            <3>1. pc'[q] = pc[q] /\ pc[q] # "drop"
                BY <1>3, <1>7, <2>1, Zenon DEF IInv, LiveInv, StateOwned
            <3> QED
                BY <1>3, <1>9, <2>1, <3>1, Zenon DEF Working, Running, Handing
        <2> QED
            BY <2>1, Zenon DEF IInv, OneActorPerEntity
    <1>15. NoMainError'
        BY <1>5, Zenon DEF NoMainError
    <1> QED
        BY <1>8, <1>10, <1>11, <1>12, <1>13, <1>14, <1>15, Zenon DEF IInv

-----------------------------------------------------------------------------
(* The entity actors *)

\* A step inside one actor, without a message, keeps the main actor's view of
\* it right.
LEMMA MoveActor ==
    ASSUME IInv, NEW p \in Actor, NEW x,
           \/ pc[p] \in Running /\ x \in Running \cup {"dead"}
           \/ pc[p] = "onIdle" /\ x = "complete"
           \/ pc[p] = "drop" /\ x = "dead"
           \/ pc[p] = "run" /\ x = "drop" /\ ~StateOwned,
           pc' = [pc EXCEPT ![p] = x],
           UNCHANGED <<main, live, internal, mainErr, ent>>
    PROVE  (LiveInv /\ MessageInv /\ OneActorPerEntity /\ NoMainError)'
    <1>1. \A q \in Actor : q # p => pc'[q] = pc[q]
        BY Zenon DEF IInv, TypeOK
    <1>2. pc'[p] = x /\ StateOwned' = StateOwned
        BY Zenon DEF IInv, TypeOK, StateOwned
    <1>3. LiveInv'
        <2>1. ASSUME NEW i \in Id
              PROVE  /\ live[i].status = "Absent" => live[i] = Absent
                     /\ live[i].status # "Absent" =>
                          /\ live[i].send \in Actor
                          /\ ent[live[i].send] = i
                          /\ pc'[live[i].send] \in Running \cup Handing \cup {"dead"}
                     /\ live[i].status = "Live" => live[i].recv = None
                     /\ live[i].status = "ShuttingDown" => live[i].recv = live[i].send /\ pc'[live[i].send] \in Handing
            <3>1. live[i].status = "ShuttingDown" => pc'[live[i].send] \in Handing
                BY <1>1, <1>2, ZenonT(60) DEF IInv, LiveInv, Running, Handing
            <3>2. live[i].status # "Absent" => pc'[live[i].send] \in Running \cup Handing \cup {"dead"}
                <4>1. ~StateOwned => live[i].status = "Absent"
                    BY SMTT(30) DEF IInv, LiveInv, Absent
                <4> QED
                    BY <4>1, <1>1, <1>2, SMTT(30) DEF IInv, LiveInv, Running, Handing
            <3> QED
                BY <3>1, <3>2, Zenon DEF IInv, LiveInv
        <2>2. ASSUME NEW q \in Actor
              PROVE  /\ StateOwned /\ pc'[q] \in Running \cup Handing => live[ent[q]].send = q
                     /\ StateOwned => pc'[q] # "drop"
                     /\ StateOwned /\ pc'[q] \in Running => live[ent[q]].status = "Live"
                     /\ ~StateOwned => pc'[q] \notin {"message", "pool"}
            <3>1. CASE q = p
                BY <3>1, <1>2, Zenon DEF IInv, LiveInv, Running, Handing
            <3>2. CASE q # p
                BY <3>2, <1>1, SMTT(30) DEF IInv, LiveInv
            <3> QED
                BY <3>1, <3>2, Zenon
        <2>3. ~StateOwned => live = [i \in Id |-> Absent] /\ internal = <<>>
            BY Zenon DEF IInv, LiveInv
        <2> QED
            BY <1>2, <2>1, <2>2, <2>3, Zenon DEF LiveInv
    <1>4. MessageInv'
        <2>1. \A q \in Actor : /\ pc'[q] \in Handing <=> pc[q] \in Handing
                               /\ pc'[q] = "message" <=> pc[q] = "message"
            BY <1>1, <1>2, Zenon DEF Running, Handing
        <2> QED
            BY <1>2, <2>1, SMTT(30) DEF IInv, MessageInv, IsShutdown, IsComplete
    <1>5. (OneActorPerEntity /\ NoMainError)'
        <2>1. \A q \in Actor : Working(q)' => Working(q)
            BY <1>1, <1>2, Zenon DEF Working, Running
        <2> QED
            BY <2>1, Zenon DEF IInv, OneActorPerEntity, NoMainError
    <1> QED
        BY <1>3, <1>4, <1>5, Zenon

\* Entity actor run: a received Spawn moves its callback into the tasks.
LEMMA ReceiveSpawnIInv == ASSUME IInv, NEW p \in Actor, ReceiveSpawn(p) PROVE IInv'
    <1> USE NoneAssumption
    <1>1. recv[p] = p /\ pc[p] = "run" /\ ent[p] \in Id
        BY Zenon DEF ReceiveSpawn, IInv, ActorInv, Running
    <1>2. /\ chan[p] # <<>> /\ chan' = [chan EXCEPT ![p] = Tail(chan[p])]
          /\ tasks' = [tasks EXCEPT ![p] = tasks[p] \cup {Head(chan[p]).f}]
          /\ call' = [call EXCEPT ![Head(chan[p]).f] = "running"]
          /\ st' = [st EXCEPT ![p] = ent[p]]
          /\ UNCHANGED <<apiVars, mainVars, internal, pc, ent, recv>>
        BY <1>1, Zenon DEF ReceiveSpawn
    <1>3. chan[p] \in Seq(Commands)
        BY Zenon DEF IInv, TypeOK
    <1>4. TypeOK'
        <2>1. Tail(chan[p]) \in Seq(Commands) /\ Len(Tail(chan[p])) <= EntityInboxSize
            BY <1>2, <1>3, TailFacts, SizesAssumption, SMTT(30) DEF IInv, TypeOK
        <2>2. chan' \in [Actor -> Seq(Commands)] /\ \A q \in Actor : Len(chan'[q]) <= EntityInboxSize
            BY <1>2, <2>1, Zenon DEF IInv, TypeOK
        <2>3. tasks' \in [Actor -> SUBSET Call]
            <3>1. Head(chan[p]).f \in Call
                <4>1. Head(chan[p]) \in Commands /\ Head(chan[p]).type = "Spawn"
                    BY <1>1, <1>2, <1>3, TailFacts, Zenon DEF ReceiveSpawn
                <4> QED
                    BY <4>1, SMTT(30) DEF Commands, ShutdownAll, EntityShutdown
            <3> QED
                BY <1>2, <3>1, Zenon DEF IInv, TypeOK
        <2>4. call' \in [Call -> {"idle", "sent", "running"}] /\ st' \in [Actor -> {"fresh", "closed"} \cup Id]
            BY <1>1, <1>2, Zenon DEF IInv, TypeOK
        <2> QED
            BY <1>2, <2>2, <2>3, <2>4, Zenon DEF IInv, TypeOK, apiVars, mainVars
    <1>5. ActorInv'
        <2> SUFFICES ASSUME NEW q \in Actor
                     PROVE  /\ recv'[q] = IF pc'[q] \in Running \cup {"drop", "pool"} THEN q ELSE None
                            /\ pc'[q] # "free" => ent'[q] \in Id
                            /\ pc'[q] \notin {"run", "soft", "drop"} => tasks'[q] = {}
                            /\ pc'[q] \in {"run", "recycle"} => st'[q] \in {"fresh", ent'[q]}
                            /\ pc'[q] = "pool" <=> <<q, q>> \in pool'
            BY Zenon DEF ActorInv
        <2>1. CASE q = p
            <3>1. st'[p] = ent[p]
                BY <1>2, Zenon DEF IInv, TypeOK
            <3> QED
                BY <2>1, <3>1, <1>1, <1>2, Zenon DEF IInv, ActorInv, mainVars
        <2>2. CASE q # p
            BY <2>2, <1>2, SMTT(30) DEF IInv, TypeOK, ActorInv, mainVars
        <2> QED
            BY <2>1, <2>2, Zenon
    <1>6. PoolInv'
        BY <1>1, <1>2, SMTT(30) DEF IInv, TypeOK, ActorInv, PoolInv, mainVars
    <1>7. (LiveInv /\ MessageInv /\ OneActorPerEntity /\ NoMainError)'
        BY <1>2, FrameView, Zenon DEF StateOwned, mainVars
    <1> QED
        BY <1>4, <1>5, <1>6, <1>7, Zenon DEF IInv

\* Entity actor run: EntityShutdown ends the loop, the receiver is kept.
LEMMA ReceiveShutdownIInv == ASSUME IInv, NEW p \in Actor, ReceiveShutdown(p) PROVE IInv'
    <1> USE NoneAssumption
    <1>1. recv[p] = p /\ pc[p] = "run"
        BY Zenon DEF ReceiveShutdown, IInv, ActorInv, Running
    <1>2. /\ chan[p] # <<>> /\ chan' = [chan EXCEPT ![p] = Tail(chan[p])]
          /\ pc' = [pc EXCEPT ![p] = "soft"]
          /\ UNCHANGED <<apiVars, mainVars, internal, ent, recv, tasks, st, call>>
        BY <1>1, Zenon DEF ReceiveShutdown
    <1>3. chan' \in [Actor -> Seq(Commands)] /\ \A q \in Actor : Len(chan'[q]) <= EntityInboxSize
        <2>1. Tail(chan[p]) \in Seq(Commands) /\ Len(Tail(chan[p])) <= EntityInboxSize
            BY <1>2, TailFacts, SizesAssumption DEF IInv, TypeOK
        <2> QED
            BY <1>2, <2>1, Zenon DEF IInv, TypeOK
    <1>4. TypeOK'
        BY <1>2, <1>3, Zenon DEF IInv, TypeOK, Pcs, apiVars, mainVars
    <1>5. ActorInv'
        <2>1. pc'[p] = "soft" /\ \A q \in Actor : q # p => pc'[q] = pc[q]
            BY <1>2, Zenon DEF IInv, TypeOK
        <2> QED
            BY <1>1, <1>2, <2>1, ZenonT(60) DEF IInv, ActorInv, Running, mainVars
    <1>6. PoolInv'
        BY <1>1, <1>2, SMTT(30) DEF IInv, TypeOK, ActorInv, PoolInv, mainVars
    <1>7. (LiveInv /\ MessageInv /\ OneActorPerEntity /\ NoMainError)'
        <2>1. UNCHANGED <<main, live, internal, mainErr, ent>>
            BY <1>2, Zenon DEF mainVars
        <2> QED
            BY <1>1, <1>2, <2>1, MoveActor, Zenon DEF Running
    <1> QED
        BY <1>4, <1>5, <1>6, <1>7, Zenon DEF IInv

\* While the main actor owns its state, it holds a sender of every actor's
\* inbox.
LEMMA ReceiveClosedIInv == ASSUME IInv, NEW p \in Actor, ReceiveClosed(p) PROVE IInv'
    <1> USE NoneAssumption
    <1>1. recv[p] = p /\ pc[p] = "run" /\ ent[p] \in Id
        BY Zenon DEF ReceiveClosed, IInv, ActorInv, Running
    <1>2. /\ pc' = [pc EXCEPT ![p] = "drop"]
          /\ UNCHANGED <<apiVars, mainVars, internal, chan, ent, recv, tasks, st, call>>
        BY Zenon DEF ReceiveClosed
    <1>3. ~StateOwned
        <2>1. StateOwned => live[ent[p]].send = p
            BY <1>1, Zenon DEF IInv, LiveInv, Running
        <2> QED
            BY <1>1, <2>1, Zenon DEF ReceiveClosed, SenderHeld
    <1>4. TypeOK'
        BY <1>2, Zenon DEF IInv, TypeOK, Pcs, apiVars, mainVars
    <1>5. ActorInv' /\ PoolInv'
        BY <1>1, <1>2, SMTT(30) DEF IInv, TypeOK, ActorInv, PoolInv, Running, mainVars
    <1>6. (LiveInv /\ MessageInv /\ OneActorPerEntity /\ NoMainError)'
        <2>1. UNCHANGED <<main, live, internal, mainErr, ent>>
            BY <1>2, Zenon DEF mainVars
        <2> QED
            BY <1>1, <1>2, <1>3, <2>1, MoveActor, Zenon
    <1> QED
        BY <1>4, <1>5, <1>6, Zenon DEF IInv

\* A completed callback either leaves the actor at work or starts recycle_state
\* with no tasks left.
LEMMA TaskDoneIInv == ASSUME IInv, NEW p \in Actor, NEW k \in Call, TaskDone(p, k) PROVE IInv'
    <1> USE NoneAssumption
    <1> DEFINE x == IF pc[p] = "run" /\ tasks[p] = {k} /\ chan[recv[p]] = <<>> THEN "recycle" ELSE pc[p]
    <1>1. /\ pc[p] \in {"run", "soft"} /\ k \in tasks[p]
          /\ tasks' = [tasks EXCEPT ![p] = tasks[p] \ {k}]
          /\ call' = [call EXCEPT ![k] = "idle"]
          /\ pc' = [pc EXCEPT ![p] = x]
          /\ UNCHANGED <<apiVars, mainVars, internal, chan, ent, recv, st>>
        BY Zenon DEF TaskDone
    <1>2. x \in {"run", "soft", "recycle"} /\ (x = "recycle" => pc[p] = "run" /\ tasks[p] = {k}) /\ (x = "run" => pc[p] = "run")
        BY <1>1, Zenon
    <1> HIDE DEF x
    <1>3. TypeOK'
        BY <1>1, <1>2, ZenonT(60) DEF IInv, TypeOK, Pcs, apiVars, mainVars
    <1>4. ActorInv'
        <2> SUFFICES ASSUME NEW q \in Actor
                     PROVE  /\ recv'[q] = IF pc'[q] \in Running \cup {"drop", "pool"} THEN q ELSE None
                            /\ pc'[q] # "free" => ent'[q] \in Id
                            /\ pc'[q] \notin {"run", "soft", "drop"} => tasks'[q] = {}
                            /\ pc'[q] \in {"run", "recycle"} => st'[q] \in {"fresh", ent'[q]}
                            /\ pc'[q] = "pool" <=> <<q, q>> \in pool'
            BY Zenon DEF ActorInv
        <2>1. CASE q = p
            <3>1. pc'[p] = x /\ tasks'[p] = tasks[p] \ {k}
                BY <1>1, Zenon DEF IInv, TypeOK
            <3>2. recv[p] = p /\ ent[p] \in Id /\ ~(<<p, p>> \in pool)
                BY <1>1, Zenon DEF IInv, ActorInv, Running
            <3>3. x \in {"run", "recycle"} => st[p] \in {"fresh", ent[p]}
                BY <1>1, <1>2, Zenon DEF IInv, ActorInv
            <3>4. x = "recycle" => tasks'[p] = {}
                BY <1>2, <3>1, Zenon
            <3> QED
                BY <2>1, <1>1, <1>2, <3>1, <3>2, <3>3, <3>4, Zenon DEF Running, mainVars
        <2>2. CASE q # p
            BY <2>2, <1>1, ZenonT(60) DEF IInv, TypeOK, ActorInv, mainVars
        <2> QED
            BY <2>1, <2>2, Zenon
    <1>5. PoolInv'
        BY <1>1, Zenon DEF IInv, PoolInv, mainVars
    <1>6. (LiveInv /\ MessageInv /\ OneActorPerEntity /\ NoMainError)'
        <2>1. UNCHANGED <<main, live, internal, mainErr, ent>>
            BY <1>1, Zenon DEF mainVars
        <2> QED
            BY <1>1, <1>2, <2>1, MoveActor, Zenon DEF Running
    <1> QED
        BY <1>3, <1>4, <1>5, <1>6, Zenon DEF IInv

\* on_shutdown closes a state that no callback can get any more.
LEMMA OnShutdownIdleIInv == ASSUME IInv, NEW p \in Actor, OnShutdownIdle(p) PROVE IInv'
    <1> USE NoneAssumption
    <1>1. /\ pc[p] = "onIdle" /\ pc' = [pc EXCEPT ![p] = "complete"]
          /\ st' = [st EXCEPT ![p] = "closed"]
          /\ UNCHANGED <<apiVars, mainVars, internal, chan, ent, recv, tasks, call>>
        BY Zenon DEF OnShutdownIdle
    <1>2. TypeOK'
        BY <1>1, Zenon DEF IInv, TypeOK, Pcs, apiVars, mainVars
    <1>3. ActorInv'
        <2> SUFFICES ASSUME NEW q \in Actor
                     PROVE  /\ recv'[q] = IF pc'[q] \in Running \cup {"drop", "pool"} THEN q ELSE None
                            /\ pc'[q] # "free" => ent'[q] \in Id
                            /\ pc'[q] \notin {"run", "soft", "drop"} => tasks'[q] = {}
                            /\ pc'[q] \in {"run", "recycle"} => st'[q] \in {"fresh", ent'[q]}
                            /\ pc'[q] = "pool" <=> <<q, q>> \in pool'
            BY Zenon DEF ActorInv
        <2>1. CASE q = p
            <3>1. pc'[p] = "complete"
                BY <1>1, Zenon DEF IInv, TypeOK
            <3>2. recv[p] = None /\ ent[p] \in Id /\ tasks[p] = {} /\ ~(<<p, p>> \in pool)
                BY <1>1, Zenon DEF IInv, ActorInv, Running
            <3> QED
                BY <2>1, <1>1, <3>1, <3>2, Zenon DEF Running, mainVars
        <2>2. CASE q # p
            <3>1. pc'[q] = pc[q] /\ st'[q] = st[q]
                BY <2>2, <1>1, Zenon DEF IInv, TypeOK
            <3> QED
                BY <3>1, <1>1, Zenon DEF IInv, ActorInv, mainVars
        <2> QED
            BY <2>1, <2>2, Zenon
    <1>4. PoolInv'
        BY <1>1, SMTT(30) DEF IInv, TypeOK, ActorInv, PoolInv, mainVars
    <1>5. (LiveInv /\ MessageInv /\ OneActorPerEntity /\ NoMainError)'
        <2>1. UNCHANGED <<main, live, internal, mainErr, ent>>
            BY <1>1, Zenon DEF mainVars
        <2> QED
            BY <1>1, <2>1, MoveActor, Zenon
    <1> QED
        BY <1>2, <1>3, <1>4, <1>5, Zenon DEF IInv

\* The three ways in which an actor ends without a message.
LEMMA ActorDiesIInv ==
    ASSUME IInv, NEW p \in Actor, OnShutdownSoft(p) \/ OnShutdownDrop(p) \/ Panic(p)
    PROVE  IInv'
    <1> USE NoneAssumption
    <1>1. /\ pc[p] \in {"run", "soft", "drop"}
          /\ pc' = [pc EXCEPT ![p] = "dead"] /\ recv' = [recv EXCEPT ![p] = None]
          /\ UNCHANGED <<apiVars, mainVars, internal, chan, ent>>
        BY Zenon DEF OnShutdownSoft, OnShutdownDrop, Panic, DropActor
    <1>2. tasks' = [tasks EXCEPT ![p] = {}]
        <2>1. CASE OnShutdownSoft(p)
            BY <2>1, Zenon DEF OnShutdownSoft, IInv, TypeOK
        <2>2. CASE OnShutdownDrop(p) \/ Panic(p)
            BY <2>2, Zenon DEF OnShutdownDrop, Panic, DropActor
        <2> QED
            BY <2>1, <2>2, Zenon
    <1>3. st' = [st EXCEPT ![p] = "closed"] \/ st' = st
        BY Zenon DEF OnShutdownSoft, OnShutdownDrop, Panic
    <1>4. call' \in [Call -> {"idle", "sent", "running"}]
        BY ZenonT(60) DEF OnShutdownSoft, OnShutdownDrop, Panic, DropActor, IInv, TypeOK
    <1>5. TypeOK'
        BY <1>1, <1>2, <1>3, <1>4, ZenonT(60) DEF IInv, TypeOK, Pcs, MaybeActor, apiVars, mainVars
    <1>6. ActorInv'
        <2> SUFFICES ASSUME NEW q \in Actor
                     PROVE  /\ recv'[q] = IF pc'[q] \in Running \cup {"drop", "pool"} THEN q ELSE None
                            /\ pc'[q] # "free" => ent'[q] \in Id
                            /\ pc'[q] \notin {"run", "soft", "drop"} => tasks'[q] = {}
                            /\ pc'[q] \in {"run", "recycle"} => st'[q] \in {"fresh", ent'[q]}
                            /\ pc'[q] = "pool" <=> <<q, q>> \in pool'
            BY Zenon DEF ActorInv
        <2>1. CASE q = p
            <3>1. pc'[p] = "dead" /\ recv'[p] = None /\ tasks'[p] = {}
                BY <1>1, <1>2, Zenon DEF IInv, TypeOK
            <3>2. ent[p] \in Id /\ ~(<<p, p>> \in pool)
                BY <1>1, Zenon DEF IInv, ActorInv
            <3> QED
                BY <2>1, <1>1, <3>1, <3>2, Zenon DEF Running, mainVars
        <2>2. CASE q # p
            <3>1. pc'[q] = pc[q] /\ recv'[q] = recv[q] /\ tasks'[q] = tasks[q] /\ st'[q] = st[q]
                BY <2>2, <1>1, <1>2, <1>3, Zenon DEF IInv, TypeOK
            <3> QED
                BY <3>1, <1>1, Zenon DEF IInv, ActorInv, mainVars
        <2> QED
            BY <2>1, <2>2, Zenon
    <1>7. PoolInv'
        <2>1. ~(<<p, p>> \in pool)
            BY <1>1, Zenon DEF IInv, ActorInv
        <2>2. \A q \in Actor : q # p => st'[q] = st[q]
            BY <1>3, Zenon DEF IInv, TypeOK
        <2> QED
            BY <2>1, <2>2, <1>1, Zenon DEF IInv, PoolInv, mainVars
    <1>8. (LiveInv /\ MessageInv /\ OneActorPerEntity /\ NoMainError)'
        <2>1. UNCHANGED <<main, live, internal, mainErr, ent>>
            BY <1>1, Zenon DEF mainVars
        <2> QED
            BY <1>1, <2>1, MoveActor, Zenon DEF Running
    <1> QED
        BY <1>5, <1>6, <1>7, <1>8, Zenon DEF IInv

-----------------------------------------------------------------------------
(* The messages of the entity actors *)

\* recycle_state's first message: the receiver goes into the channel, the
\* entity is still Live for the main actor.
LEMMA SendShutdownIInv == ASSUME IInv, NEW p \in Actor, SendShutdown(p) PROVE IInv'
    <1> USE NoneAssumption
    <1> DEFINE m == Shutdown(ent[p], p)
    <1>1. recv[p] = p /\ pc[p] = "recycle" /\ ent[p] \in Id /\ tasks[p] = {} /\ ~(<<p, p>> \in pool)
        BY Zenon DEF SendShutdown, IInv, ActorInv, Running
    <1>2. /\ recv' = [recv EXCEPT ![p] = None] /\ pc' = [pc EXCEPT ![p] = "onIdle"]
          /\ UNCHANGED <<apiVars, mainVars, chan, ent, tasks, st, call>>
          /\ StateOwned' = StateOwned
        BY Zenon DEF SendShutdown, mainVars, StateOwned
    <1>3. /\ pc'[p] = "onIdle" /\ recv'[p] = None
          /\ \A q \in Actor : q # p => pc'[q] = pc[q] /\ recv'[q] = recv[q]
        BY <1>2, Zenon DEF IInv, TypeOK
    <1>4. m \in InternalCommands /\ m.type = "Shutdown" /\ m.id = ent[p] /\ m.recv = p
        BY <1>1, Zenon DEF Shutdown, InternalCommands, MaybeActor
    <1> HIDE DEF m
    <1>5. /\ internal' \in Seq(InternalCommands) /\ Len(internal') <= ResponseInboxSize
          /\ ~StateOwned => internal' = internal
          /\ StateOwned => /\ Len(internal) \in Nat /\ Len(internal') = Len(internal) + 1
                           /\ \A n \in 1..Len(internal) : internal'[n] = internal[n]
                           /\ internal'[Len(internal) + 1] = m
        <2>1. internal \in Seq(InternalCommands) /\ Len(internal) \in Nat /\ Len(internal) <= ResponseInboxSize
            BY DEF IInv, TypeOK
        <2>2. CASE StateOwned
            <3>1. internal' = Append(internal, m) /\ Len(internal) < ResponseInboxSize
                BY <1>1, <2>2, Zenon DEF SendShutdown, m
            <3> QED
                BY <2>1, <2>2, <3>1, <1>4, AppendFacts, SizesAssumption
        <2>3. CASE ~StateOwned
            BY <2>1, <2>3, Zenon DEF SendShutdown
        <2> QED
            BY <2>2, <2>3, Zenon
    <1>6. TypeOK'
        BY <1>2, <1>5, Zenon DEF IInv, TypeOK, Pcs, MaybeActor, apiVars, mainVars
    <1>7. ActorInv'
        <2> SUFFICES ASSUME NEW q \in Actor
                     PROVE  /\ recv'[q] = IF pc'[q] \in Running \cup {"drop", "pool"} THEN q ELSE None
                            /\ pc'[q] # "free" => ent'[q] \in Id
                            /\ pc'[q] \notin {"run", "soft", "drop"} => tasks'[q] = {}
                            /\ pc'[q] \in {"run", "recycle"} => st'[q] \in {"fresh", ent'[q]}
                            /\ pc'[q] = "pool" <=> <<q, q>> \in pool'
            BY Zenon DEF ActorInv
        <2>1. CASE q = p
            BY <2>1, <1>1, <1>2, <1>3, Zenon DEF Running, mainVars
        <2>2. CASE q # p
            BY <2>2, <1>2, <1>3, ZenonT(60) DEF IInv, ActorInv, mainVars
        <2> QED
            BY <2>1, <2>2, Zenon
    <1>8. PoolInv'
        BY <1>2, Zenon DEF IInv, PoolInv, mainVars
    <1>9. StateOwned => live[ent[p]].send = p /\ live[ent[p]].status = "Live"
        BY <1>1, Zenon DEF IInv, LiveInv, Running
    <1>10. LiveInv'
        <2>1. ASSUME NEW i \in Id
              PROVE  /\ live[i].status = "Absent" => live[i] = Absent
                     /\ live[i].status # "Absent" =>
                          /\ live[i].send \in Actor
                          /\ ent[live[i].send] = i
                          /\ pc'[live[i].send] \in Running \cup Handing \cup {"dead"}
                     /\ live[i].status = "Live" => live[i].recv = None
                     /\ live[i].status = "ShuttingDown" => live[i].recv = live[i].send /\ pc'[live[i].send] \in Handing
            BY <1>1, <1>3, Zenon DEF IInv, LiveInv, Handing
        <2>2. ASSUME NEW q \in Actor
              PROVE  /\ StateOwned /\ pc'[q] \in Running \cup Handing => live[ent[q]].send = q
                     /\ StateOwned => pc'[q] # "drop"
                     /\ StateOwned /\ pc'[q] \in Running => live[ent[q]].status = "Live"
                     /\ ~StateOwned => pc'[q] \notin {"message", "pool"}
            <3>1. CASE q = p
                BY <3>1, <1>3, <1>9, Zenon
            <3>2. CASE q # p
                BY <3>2, <1>3, SMTT(30) DEF IInv, LiveInv
            <3> QED
                BY <3>1, <3>2, Zenon
        <2>3. ~StateOwned => live = [i \in Id |-> Absent] /\ internal' = <<>>
            BY <1>5, Zenon DEF IInv, LiveInv
        <2> QED
            BY <1>2, <2>1, <2>2, <2>3, Zenon DEF LiveInv, mainVars
    <1>11. MessageInv'
        <2>1. CASE ~StateOwned
            <3>1. internal' = <<>> /\ ~StateOwned'
                BY <2>1, <1>2, <1>5, Zenon DEF IInv, LiveInv
            <3>2. 1..Len(internal') = {}
                BY <3>1, EmptyFacts, Zenon
            <3> QED
                BY <3>1, <3>2, Zenon DEF MessageInv
        <2>2. CASE StateOwned
            <3>0. \A n \in 1..Len(internal) : ~IsShutdown(n, p) /\ ~IsComplete(n, p)
                <4> SUFFICES ASSUME NEW n \in 1..Len(internal) PROVE ~IsShutdown(n, p) /\ ~IsComplete(n, p)
                    BY Zenon
                <4> QED
                    BY <1>1, MessageSource, Zenon DEF Handing
            <3>1. ASSUME NEW n \in 1..Len(internal')
                  PROVE  \/ \E q \in Actor : /\ IsShutdown(n, q)' /\ pc'[q] \in Handing
                                             /\ internal'[n].id = ent[q] /\ live[ent[q]].status = "Live"
                         \/ \E q \in Actor : IsComplete(n, q)' /\ pc'[q] = "message" /\ internal'[n].recv = None
                <4>1. CASE n = Len(internal) + 1
                    <5>1. IsShutdown(n, p)' /\ internal'[n].id = ent[p] /\ pc'[p] \in Handing
                        BY <2>2, <4>1, <1>3, <1>4, <1>5, Zenon DEF IsShutdown, Handing
                    <5> QED
                        BY <2>2, <5>1, <1>9, Zenon
                <4>2. CASE n \in 1..Len(internal)
                    <5>1. internal'[n] = internal[n]
                        BY <2>2, <4>2, <1>5, Zenon
                    <5>2. CASE \E q \in Actor : /\ IsShutdown(n, q) /\ pc[q] \in Handing
                                                /\ internal[n].id = ent[q] /\ live[ent[q]].status = "Live"
                        BY <4>2, <5>1, <5>2, <1>3, <3>0, Zenon DEF IsShutdown
                    <5>3. CASE \E q \in Actor : IsComplete(n, q) /\ pc[q] = "message" /\ internal[n].recv = None
                        BY <4>2, <5>1, <5>3, <1>3, <3>0, Zenon DEF IsComplete
                    <5> QED
                        BY <4>2, <5>2, <5>3, Zenon DEF IInv, MessageInv
                <4> QED
                    BY <2>2, <1>5, <4>1, <4>2, Positions, Zenon
            <3>2. ASSUME NEW n \in 1..Len(internal'), NEW j \in 1..Len(internal'), NEW q \in Actor
                  PROVE  /\ IsShutdown(n, q)' /\ IsShutdown(j, q)' => n = j
                         /\ IsComplete(n, q)' /\ IsComplete(j, q)' => n = j
                         /\ IsShutdown(n, q)' /\ IsComplete(j, q)' => n < j
                <4>1. ASSUME NEW k \in 1..Len(internal')
                      PROVE  /\ IsShutdown(k, q)' => \/ k \in 1..Len(internal) /\ IsShutdown(k, q)
                                                     \/ k = Len(internal) + 1 /\ q = p
                             /\ IsComplete(k, q)' => k \in 1..Len(internal) /\ IsComplete(k, q)
                    <5>1. CASE k = Len(internal) + 1
                        BY <2>2, <1>4, <1>5, <5>1, Zenon DEF IsShutdown, IsComplete
                    <5>2. CASE k \in 1..Len(internal)
                        BY <2>2, <1>5, <5>2, Zenon DEF IsShutdown, IsComplete
                    <5> QED
                        BY <2>2, <1>5, <5>1, <5>2, Positions, Zenon
                <4>2. ASSUME n \in 1..Len(internal), j \in 1..Len(internal)
                      PROVE  /\ IsShutdown(n, q) /\ IsShutdown(j, q) => n = j
                             /\ IsComplete(n, q) /\ IsComplete(j, q) => n = j
                             /\ IsShutdown(n, q) /\ IsComplete(j, q) => n < j
                    BY <4>2, MessageOrder, Zenon
                <4> QED
                    BY <4>1, <4>2, <3>0
            <3>3. ASSUME NEW q \in Actor, pc'[q] \in Handing, live[ent[q]].status = "Live"
                  PROVE  \E n \in 1..Len(internal') : IsShutdown(n, q)'
                <4>1. CASE q = p
                    BY <2>2, <4>1, <1>4, <1>5, SMTT(30) DEF IsShutdown
                <4>2. CASE q # p
                    <5>1. PICK n \in 1..Len(internal) : IsShutdown(n, q)
                        BY <2>2, <3>3, <4>2, <1>3, Zenon DEF IInv, MessageInv
                    <5> QED
                        BY <2>2, <5>1, <1>5 DEF IsShutdown
                <4> QED
                    BY <4>1, <4>2, Zenon
            <3> QED
                BY <1>2, <3>1, <3>2, <3>3, Zenon DEF MessageInv, mainVars
        <2> QED
            BY <2>1, <2>2, Zenon
    <1>12. (OneActorPerEntity /\ NoMainError)'
        BY <1>1, <1>2, <1>3, SMTT(30) DEF IInv, OneActorPerEntity, NoMainError, Working, mainVars
    <1> QED
        BY <1>6, <1>7, <1>8, <1>10, <1>11, <1>12, Zenon DEF IInv

\* recycle_state's second message: the Shutdown of the same actor has been
\* handled or is ahead of it in the channel.
LEMMA SendShutdownCompleteIInv == ASSUME IInv, NEW p \in Actor, SendShutdownComplete(p) PROVE IInv'
    <1> USE NoneAssumption
    <1> DEFINE m == ShutdownComplete(p)
               to == IF StateOwned THEN "message" ELSE "dead"
    <1>1. recv[p] = None /\ pc[p] = "complete" /\ ent[p] \in Id /\ tasks[p] = {} /\ ~(<<p, p>> \in pool)
        BY Zenon DEF SendShutdownComplete, IInv, ActorInv, Running
    <1>2. /\ pc' = [pc EXCEPT ![p] = to]
          /\ UNCHANGED <<apiVars, mainVars, chan, ent, recv, tasks, st, call>>
          /\ StateOwned' = StateOwned
        BY Zenon DEF SendShutdownComplete, mainVars, StateOwned
    <1>3. pc'[p] = to /\ \A q \in Actor : q # p => pc'[q] = pc[q]
        BY <1>2, Zenon DEF IInv, TypeOK
    <1>4. m \in InternalCommands /\ m.type = "ShutdownComplete" /\ m.recv = None /\ m.actor = p
        BY <1>1, Zenon DEF ShutdownComplete, InternalCommands, MaybeActor
    <1> HIDE DEF m
    <1>5. /\ internal' \in Seq(InternalCommands) /\ Len(internal') <= ResponseInboxSize
          /\ ~StateOwned => internal' = internal
          /\ StateOwned => /\ Len(internal) \in Nat /\ Len(internal') = Len(internal) + 1
                           /\ \A n \in 1..Len(internal) : internal'[n] = internal[n]
                           /\ internal'[Len(internal) + 1] = m
        <2>1. internal \in Seq(InternalCommands) /\ Len(internal) \in Nat /\ Len(internal) <= ResponseInboxSize
            BY DEF IInv, TypeOK
        <2>2. CASE StateOwned
            <3>1. internal' = Append(internal, m) /\ Len(internal) < ResponseInboxSize
                BY <2>2, Zenon DEF SendShutdownComplete, m
            <3> QED
                BY <2>1, <2>2, <3>1, <1>4, AppendFacts, SizesAssumption
        <2>3. CASE ~StateOwned
            BY <2>1, <2>3, Zenon DEF SendShutdownComplete
        <2> QED
            BY <2>2, <2>3, Zenon
    <1>6. TypeOK'
        BY <1>2, <1>5, Zenon DEF IInv, TypeOK, Pcs, apiVars, mainVars
    <1>7. ActorInv'
        <2> SUFFICES ASSUME NEW q \in Actor
                     PROVE  /\ recv'[q] = IF pc'[q] \in Running \cup {"drop", "pool"} THEN q ELSE None
                            /\ pc'[q] # "free" => ent'[q] \in Id
                            /\ pc'[q] \notin {"run", "soft", "drop"} => tasks'[q] = {}
                            /\ pc'[q] \in {"run", "recycle"} => st'[q] \in {"fresh", ent'[q]}
                            /\ pc'[q] = "pool" <=> <<q, q>> \in pool'
            BY Zenon DEF ActorInv
        <2>1. CASE q = p
            BY <2>1, <1>1, <1>2, <1>3 DEF Running, mainVars
        <2>2. CASE q # p
            BY <2>2, <1>2, <1>3, Zenon DEF IInv, ActorInv, mainVars
        <2> QED
            BY <2>1, <2>2, Zenon
    <1>8. (PoolInv /\ NoMainError)'
        BY <1>2, Zenon DEF IInv, PoolInv, NoMainError, mainVars
    <1>9. OneActorPerEntity'
        BY <1>1, <1>2, <1>3 DEF IInv, OneActorPerEntity, Working
    <1>10. LiveInv'
        <2>1. ASSUME NEW i \in Id
              PROVE  /\ live[i].status = "Absent" => live[i] = Absent
                     /\ live[i].status # "Absent" =>
                          /\ live[i].send \in Actor
                          /\ ent[live[i].send] = i
                          /\ pc'[live[i].send] \in Running \cup Handing \cup {"dead"}
                     /\ live[i].status = "Live" => live[i].recv = None
                     /\ live[i].status = "ShuttingDown" => live[i].recv = live[i].send /\ pc'[live[i].send] \in Handing
            <3>1. StateOwned \/ live[i] = Absent
                BY SMTT(30) DEF IInv, LiveInv
            <3> QED
                BY <1>1, <1>3, <3>1, SMTT(30) DEF IInv, LiveInv, Handing, Absent
        <2>2. ASSUME NEW q \in Actor
              PROVE  /\ StateOwned /\ pc'[q] \in Running \cup Handing => live[ent[q]].send = q
                     /\ StateOwned => pc'[q] # "drop"
                     /\ StateOwned /\ pc'[q] \in Running => live[ent[q]].status = "Live"
                     /\ ~StateOwned => pc'[q] \notin {"message", "pool"}
            <3>1. CASE q = p
                BY <3>1, <1>1, <1>3, Zenon DEF IInv, LiveInv, Running, Handing
            <3>2. CASE q # p
                BY <3>2, <1>3, ZenonT(60) DEF IInv, LiveInv
            <3> QED
                BY <3>1, <3>2, Zenon
        <2>3. ~StateOwned => live = [i \in Id |-> Absent] /\ internal' = <<>>
            BY <1>5, Zenon DEF IInv, LiveInv
        <2> QED
            BY <1>2, <2>1, <2>2, <2>3, Zenon DEF LiveInv, mainVars
    <1>11. MessageInv'
        <2>1. CASE ~StateOwned
            <3>1. internal' = <<>> /\ ~StateOwned'
                BY <2>1, <1>2, <1>5, Zenon DEF IInv, LiveInv
            <3>2. 1..Len(internal') = {}
                BY <3>1, EmptyFacts, Zenon
            <3> QED
                BY <3>1, <3>2, Zenon DEF MessageInv
        <2>2. CASE StateOwned
            <3>0. \A n \in 1..Len(internal) : ~IsComplete(n, p)
                <4> SUFFICES ASSUME NEW n \in 1..Len(internal) PROVE ~IsComplete(n, p)
                    BY Zenon
                <4> QED
                    BY <1>1, MessageSource, Zenon
            <3>1. ASSUME NEW n \in 1..Len(internal')
                  PROVE  \/ \E q \in Actor : /\ IsShutdown(n, q)' /\ pc'[q] \in Handing
                                             /\ internal'[n].id = ent[q] /\ live[ent[q]].status = "Live"
                         \/ \E q \in Actor : IsComplete(n, q)' /\ pc'[q] = "message" /\ internal'[n].recv = None
                <4>1. CASE n = Len(internal) + 1
                    BY <2>2, <4>1, <1>3, <1>4, <1>5, Zenon DEF IsComplete
                <4>2. CASE n \in 1..Len(internal)
                    <5>1. internal'[n] = internal[n]
                        BY <2>2, <4>2, <1>5, Zenon
                    <5>2. \A q \in Actor : pc[q] \in Handing => pc'[q] \in Handing
                        BY <2>2, <1>3, Zenon DEF Handing
                    <5>3. CASE \E q \in Actor : /\ IsShutdown(n, q) /\ pc[q] \in Handing
                                                /\ internal[n].id = ent[q] /\ live[ent[q]].status = "Live"
                        BY <5>1, <5>2, <5>3, Zenon DEF IsShutdown
                    <5>4. CASE \E q \in Actor : IsComplete(n, q) /\ pc[q] = "message" /\ internal[n].recv = None
                        BY <4>2, <5>1, <5>4, <1>3, <3>0, Zenon DEF IsComplete
                    <5> QED
                        BY <4>2, <5>3, <5>4, Zenon DEF IInv, MessageInv
                <4> QED
                    BY <2>2, <1>5, <4>1, <4>2, Positions, Zenon
            <3>2. ASSUME NEW n \in 1..Len(internal'), NEW j \in 1..Len(internal'), NEW q \in Actor
                  PROVE  /\ IsShutdown(n, q)' /\ IsShutdown(j, q)' => n = j
                         /\ IsComplete(n, q)' /\ IsComplete(j, q)' => n = j
                         /\ IsShutdown(n, q)' /\ IsComplete(j, q)' => n < j
                <4>1. ASSUME NEW k \in 1..Len(internal')
                      PROVE  /\ IsComplete(k, q)' => \/ k \in 1..Len(internal) /\ IsComplete(k, q)
                                                     \/ k = Len(internal) + 1 /\ q = p
                             /\ IsShutdown(k, q)' => k \in 1..Len(internal) /\ IsShutdown(k, q)
                    <5>1. CASE k = Len(internal) + 1
                        BY <2>2, <1>4, <1>5, <5>1, Zenon DEF IsShutdown, IsComplete
                    <5>2. CASE k \in 1..Len(internal)
                        BY <2>2, <1>5, <5>2, Zenon DEF IsShutdown, IsComplete
                    <5> QED
                        BY <2>2, <1>5, <5>1, <5>2, Positions, Zenon
                <4>2. ASSUME n \in 1..Len(internal), j \in 1..Len(internal)
                      PROVE  /\ IsShutdown(n, q) /\ IsShutdown(j, q) => n = j
                             /\ IsComplete(n, q) /\ IsComplete(j, q) => n = j
                             /\ IsShutdown(n, q) /\ IsComplete(j, q) => n < j
                    BY <4>2, MessageOrder, Zenon
                <4> QED
                    BY <2>2, <1>5, <4>1, <4>2, <3>0
            <3>3. ASSUME NEW q \in Actor, pc'[q] \in Handing, live[ent[q]].status = "Live"
                  PROVE  \E n \in 1..Len(internal') : IsShutdown(n, q)'
                <4>1. pc[q] \in Handing
                    BY <1>1, <1>3, <3>3, Zenon DEF Handing
                <4>2. PICK n \in 1..Len(internal) : IsShutdown(n, q)
                    BY <2>2, <3>3, <4>1, Zenon DEF IInv, MessageInv
                <4> QED
                    BY <2>2, <4>2, <1>5 DEF IsShutdown
            <3> QED
                BY <1>2, <3>1, <3>2, <3>3, Zenon DEF MessageInv, mainVars
        <2> QED
            BY <2>1, <2>2, Zenon
    <1> QED
        BY <1>6, <1>7, <1>8, <1>9, <1>10, <1>11, Zenon DEF IInv

-----------------------------------------------------------------------------
(* The theorems *)

\* Every step of the main actor and of the entity actors preserves the
\* inductive invariant.
LEMMA NextIInv == IInv /\ [Next]_vars => IInv'
    <1> SUFFICES ASSUME IInv, [Next]_vars PROVE IInv'
        BY Zenon
    <1>1. CASE UserStep
        BY <1>1, UserStepIInv, Zenon
    <1>2. CASE HandleSpawn
        BY <1>2, SpawnLiveIInv, SpawnPooledIInv, SpawnNewIInv, Zenon DEF HandleSpawn
    <1>3. CASE CallbackReturns
        BY <1>3, CallbackReturnsIInv, Zenon
    <1>4. CASE Tick
        BY <1>4, TickShutdownIInv, TickShutdownCompleteIInv, Zenon DEF Tick
    <1>5. CASE MainShutdown
        <2>1. CASE StartSoftShutdown \/ NotifyEntity
            BY <2>1, SoftShutdownIInv, Zenon
        <2>2. CASE EndSoftShutdown \/ HardShutdown
            BY <2>2, DropStateIInv, Zenon DEF EndSoftShutdown, HardShutdown, StateOwned
        <2>3. CASE Joined
            BY <2>3, JoinedIInv, Zenon
        <2> QED
            BY <1>5, <2>1, <2>2, <2>3, Zenon DEF MainShutdown
    <1>6. ASSUME NEW p \in Actor, ActorStep(p) PROVE IInv'
        <2>1. CASE Receive(p)
            BY <2>1, ReceiveSpawnIInv, ReceiveShutdownIInv, ReceiveClosedIInv, Zenon DEF Receive
        <2>2. CASE \E k \in Call : TaskDone(p, k)
            BY <2>2, TaskDoneIInv, Zenon
        <2>3. CASE SendShutdown(p)
            BY <2>3, SendShutdownIInv, Zenon
        <2>4. CASE SendShutdownComplete(p)
            BY <2>4, SendShutdownCompleteIInv, Zenon
        <2>5. CASE ActorEnd(p) \/ Panic(p)
            BY <2>5, OnShutdownIdleIInv, ActorDiesIInv, Zenon DEF ActorEnd
        <2> QED
            BY <1>6, <2>1, <2>2, <2>3, <2>4, <2>5, Zenon DEF ActorStep
    <1>7. CASE UNCHANGED vars
        <2> USE <1>7 DEF vars, apiVars, mainVars
        <2>1. TypeOK'
            BY Zenon DEF IInv, TypeOK, actorVars
        <2>2. (ActorInv /\ LiveInv /\ MessageInv /\ OneActorPerEntity /\ NoMainError)'
            BY Frame, Zenon DEF StateOwned
        <2>3. PoolInv'
            BY Zenon DEF IInv, PoolInv, actorVars
        <2> QED
            BY <2>1, <2>2, <2>3, Zenon DEF IInv
    <1> QED
        BY <1>1, <1>2, <1>3, <1>4, <1>5, <1>6, <1>7, Zenon DEF Next

\* The inductive invariant of the entity manager: actors, handles, messages
\* and pool agree on who holds which end of an inbox.
THEOREM Invariance == Spec => []IInv
    BY InitIInv, NextIInv, PTL DEF Spec

\* Every variable of the entity manager keeps its type and every channel
\* stays within the size given in Options.
THEOREM TypeCorrect == Spec => []TypeOK
    <1>1. IInv => TypeOK
        BY Zenon DEF IInv
    <1> QED
        BY <1>1, Invariance, PTL

\* Never do two entity actors work on the same entity: spawn_boxed gets a new
\* actor only when the handle of the former has been removed by tick, after
\* its on_shutdown has returned.
THEOREM OneActor == Spec => []OneActorPerEntity
    <1>1. IInv => OneActorPerEntity
        BY Zenon DEF IInv
    <1> QED
        BY <1>1, Invariance, PTL

\* The error! paths of ActorState::tick are dead code.
THEOREM TickNeverFails == Spec => []NoMainError
    <1>1. IInv => NoMainError
        BY Zenon DEF IInv
    <1> QED
        BY <1>1, Invariance, PTL

\* recycle and tick put the sender and the receiver of one channel together.
THEOREM SenderReceiver == Spec => []SenderMatchesReceiver
    <1>1. IInv => SenderMatchesReceiver
        <2> SUFFICES ASSUME IInv PROVE SenderMatchesReceiver
            BY Zenon
        <2>1. \A i \in Id : live[i].status = "ShuttingDown" => live[i].send = live[i].recv
            BY Zenon DEF IInv, LiveInv
        <2>2. \A c, p \in Actor : <<c, p>> \in pool => recv[p] = c
            BY SMTT(30) DEF IInv, PoolInv, ActorInv
        <2>3. \A p \in Actor : StateOwned /\ pc[p] \in {"run", "recycle"} => live[ent[p]].send = recv[p]
            BY ZenonT(60) DEF IInv, LiveInv, ActorInv, Running
        <2> QED
            BY <2>1, <2>2, <2>3, Zenon DEF SenderMatchesReceiver
    <1> QED
        BY <1>1, Invariance, PTL

\* No callback gets a state that another entity has used or that on_shutdown
\* has closed.
THEOREM NoLeak == Spec => []StateNotLeaked
    <1>1. IInv => StateNotLeaked
        BY Zenon DEF IInv, StateNotLeaked, ActorInv
    <1> QED
        BY <1>1, Invariance, PTL

-----------------------------------------------------------------------------
(* Accepted callbacks *)

\* The callback k is in the channel with content s.
Mentions(s, k) == \E n \in 1..Len(s) : s[n].f = k

\* Where an accepted callback is, in terms of the actors: inductive given
\* IInv, which tells who holds the receiver of each inbox (HeldUnlessGone).
CallInv ==
    \A k \in Call : main \in {"run", "calling"} /\ call[k] = "sent" =>
        \/ Mentions(inbox, k)
        \/ \E c \in Actor : Mentions(chan[c], k) /\ pc[c] # "free"

\* Nothing is in an empty channel.
LEMMA MentionsEmpty == ASSUME NEW k PROVE ~Mentions(<<>>, k)
    BY EmptyFacts, Zenon DEF Mentions

\* Sending adds one callback.
LEMMA MentionsAppend ==
    ASSUME NEW s \in Seq(Commands), NEW e \in Commands, NEW k
    PROVE  Mentions(Append(s, e), k) <=> Mentions(s, k) \/ e.f = k
    <1>0. Len(s) \in Nat
        OBVIOUS
    <1>1. /\ Len(Append(s, e)) = Len(s) + 1
          /\ \A n \in 1..Len(s) : Append(s, e)[n] = s[n]
          /\ Append(s, e)[Len(s) + 1] = e
        BY AppendFacts, SMTT(30)
    <1>2. ASSUME Mentions(s, k) PROVE Mentions(Append(s, e), k)
        BY <1>0, <1>1, <1>2, Positions, Zenon DEF Mentions
    <1>3. ASSUME e.f = k PROVE Mentions(Append(s, e), k)
        BY <1>0, <1>1, <1>3, Positions, Zenon DEF Mentions
    <1>4. ASSUME Mentions(Append(s, e), k) PROVE Mentions(s, k) \/ e.f = k
        <2>1. PICK n \in 1..(Len(s) + 1) : Append(s, e)[n].f = k
            BY <1>1, <1>4, Zenon DEF Mentions
        <2>2. CASE n = Len(s) + 1
            BY <1>1, <2>1, <2>2, Zenon
        <2>3. CASE n \in 1..Len(s)
            BY <1>1, <2>1, <2>3, Zenon DEF Mentions
        <2> QED
            BY <1>0, <2>1, <2>2, <2>3, Positions, Zenon
    <1> QED
        BY <1>2, <1>3, <1>4, Zenon

\* Receiving takes the first callback and leaves the others.
LEMMA MentionsTail ==
    ASSUME NEW s \in Seq(Commands), s # <<>>, NEW k, Mentions(s, k), Head(s).f # k
    PROVE  Mentions(Tail(s), k)
    <1>1. PICK n \in 1..Len(s) : s[n].f = k
        BY Zenon DEF Mentions
    <1>2. /\ Len(s) \in Nat /\ Len(Tail(s)) = Len(s) - 1 /\ Head(s) = s[1]
          /\ \A j \in 1..Len(Tail(s)) : Tail(s)[j] = s[j + 1]
        BY TailFacts, Zenon
    <1>3. n # 1
        BY <1>1, <1>2, Zenon
    <1>4. n - 1 \in 1..Len(Tail(s)) /\ Tail(s)[n - 1] = s[n]
        BY <1>1, <1>2, <1>3
    <1> QED
        BY <1>1, <1>4, Zenon DEF Mentions

\* While the main actor owns its state, the receiver of an inbox is held by
\* its actor, a message or a handle, unless the actor is gone.
LEMMA HeldUnlessGone ==
    ASSUME IInv, StateOwned, NEW c \in Actor, pc[c] # "free", pc[c] # "dead"
    PROVE  ReceiverHeld(c)
    <1> USE NoneAssumption
    <1>0. pc[c] \in Running \cup Handing \cup {"pool"}
        <2>1. pc[c] \in Pcs
            BY Zenon DEF IInv, TypeOK
        <2>2. pc[c] # "drop"
            BY Zenon DEF IInv, LiveInv
        <2> QED
            BY <2>1, <2>2, Zenon DEF Pcs, Running, Handing
    <1>1. CASE pc[c] \in Running \cup {"pool"}
        BY <1>1, Zenon DEF IInv, ActorInv, ReceiverHeld
    <1>2. CASE pc[c] \in Handing
        <2>1. live[ent[c]].send = c /\ ent[c] \in Id
            <3>1. live[ent[c]].send = c
                BY <1>2, Zenon DEF IInv, LiveInv
            <3> QED
                BY <3>1, Zenon DEF IInv, ActorInv
        <2>2. live[ent[c]].status # "Absent"
            <3>1. live[ent[c]].status = "Absent" => live[ent[c]] = Absent
                BY <2>1, Zenon DEF IInv, LiveInv
            <3> QED
                BY <2>1, <3>1 DEF Absent
        <2>3. CASE live[ent[c]].status = "Live"
            <3>1. PICK n \in 1..Len(internal) : IsShutdown(n, c)
                BY <1>2, <2>3, Zenon DEF IInv, MessageInv
            <3> QED
                BY <3>1, Zenon DEF IsShutdown, ReceiverHeld
        <2>4. CASE live[ent[c]].status = "ShuttingDown"
            <3>1. live[ent[c]].recv = live[ent[c]].send
                BY <2>1, <2>4 DEF IInv, LiveInv
            <3> QED
                BY <2>1, <3>1, Zenon DEF ReceiverHeld
        <2> QED
            BY <2>1, <2>2, <2>3, <2>4, Zenon DEF IInv, TypeOK
    <1> QED
        BY <1>0, <1>1, <1>2, Zenon

\* What the property says of receivers follows from where the actors are.
LEMMA CallInvNoCallLost == IInv /\ CallInv => NoCallLost
    <1> SUFFICES ASSUME IInv, CallInv, NEW k \in Call, main \in {"run", "calling"}, call[k] = "sent"
                 PROVE  \/ InInbox(k)
                        \/ \E c \in Actor : InChannel(k, c) /\ (ReceiverHeld(c) \/ pc[c] = "dead")
        BY Zenon DEF NoCallLost
    <1>1. StateOwned
        BY Zenon DEF StateOwned
    <1>2. CASE Mentions(inbox, k)
        BY <1>2, Zenon DEF Mentions, InInbox
    <1>3. ASSUME NEW c \in Actor, Mentions(chan[c], k), pc[c] # "free"
          PROVE  InChannel(k, c) /\ (ReceiverHeld(c) \/ pc[c] = "dead")
        BY <1>1, <1>3, HeldUnlessGone, Zenon DEF Mentions, InChannel
    <1> QED
        BY <1>2, <1>3, Zenon DEF CallInv

\* A step that moves no callback: it frees no actor with a callback in its
\* inbox.
LEMMA CallsKept ==
    ASSUME CallInv, UNCHANGED <<inbox, chan>>,
           main' \in {"run", "calling"} => main \in {"run", "calling"},
           \A k \in Call : call'[k] = "sent" => call[k] = "sent",
           \A c \in Actor : pc[c] # "free" /\ chan[c] # <<>> => pc'[c] # "free"
    PROVE  CallInv'
    BY MentionsEmpty, Zenon DEF CallInv

\* EntityManager::spawn puts its callback into the inbox, nobody takes one out.
LEMMA UserStepCalls == ASSUME IInv, CallInv, UserStep PROVE CallInv'
    <1> USE DEF mainVars, actorVars
    <1>0. inbox \in Seq(Commands)
        BY Zenon DEF IInv, TypeOK
    <1>1. ASSUME NEW i \in Id, NEW k \in Call, UserSpawn(i, k) PROVE CallInv'
        <2>1. inbox' = Append(inbox, Spawn(i, k)) /\ Spawn(i, k) \in Commands /\ Spawn(i, k).f = k
            BY <1>1 DEF UserSpawn, Spawn, Commands
        <2>2. Mentions(inbox', k) /\ \A j : Mentions(inbox, j) => Mentions(inbox', j)
            BY <1>0, <2>1, MentionsAppend, Zenon
        <2>3. UNCHANGED <<main, chan, pc>> /\ \A j \in Call : j # k => call'[j] = call[j]
            BY <1>1, Zenon DEF UserSpawn, IInv, TypeOK
        <2> QED
            BY <2>2, <2>3, Zenon DEF CallInv
    <1>2. CASE UserShutdown
        <2>1. inbox' = Append(inbox, ShutdownAll) /\ ShutdownAll \in Commands
            BY <1>2 DEF UserShutdown, Commands
        <2>2. \A j : Mentions(inbox, j) => Mentions(inbox', j)
            BY <1>0, <2>1, MentionsAppend, Zenon
        <2>3. UNCHANGED <<main, chan, pc, call>>
            BY <1>2, Zenon DEF UserShutdown
        <2> QED
            BY <2>2, <2>3, Zenon DEF CallInv
    <1>3. CASE UserDrop
        BY <1>3, CallsKept, Zenon DEF UserDrop
    <1> QED
        BY <1>1, <1>2, <1>3, Zenon DEF UserStep

\* spawn_boxed takes the callback k from the inbox and queues or calls it.
LEMMA SpawnTakes ==
    ASSUME IInv, CallInv, NEW i \in Id, NEW k \in Call, Receives(i, k), inbox' = Tail(inbox),
           call'[k] = "sent" => \E c \in Actor : Mentions(chan'[c], k) /\ pc'[c] # "free",
           \A j \in Call : j # k => call'[j] = call[j],
           \A c \in Actor, j \in Call : pc[c] # "free" /\ Mentions(chan[c], j) =>
                                        pc'[c] # "free" /\ Mentions(chan'[c], j)
    PROVE  CallInv'
    <1>1. inbox \in Seq(Commands) /\ inbox # <<>> /\ main = "run"
        BY Zenon DEF IInv, TypeOK, Receives
    <1>2. Head(inbox).f = k
        BY DEF Receives, Spawn
    <1>3. ASSUME NEW j \in Call, j # k, Mentions(inbox, j) PROVE Mentions(inbox', j)
        BY <1>1, <1>2, <1>3, MentionsTail, Zenon
    <1> QED
        BY <1>1, <1>3, Zenon DEF CallInv

\* In each of its three cases it does: the receiver of a live, a pooled or a
\* new actor's inbox is not gone.
LEMMA SpawnCalls ==
    ASSUME IInv, CallInv, NEW i \in Id, NEW k \in Call,
           SpawnLive(i, k) \/ SpawnPooled(i, k) \/ SpawnNew(i, k)
    PROVE  CallInv'
    <1>0. chan \in [Actor -> Seq(Commands)] /\ pc \in [Actor -> Pcs] /\ call \in [Call -> {"idle", "sent", "running"}]
        BY Zenon DEF IInv, TypeOK
    <1>1. Spawn(i, k) \in Commands /\ Spawn(i, k).f = k
        BY DEF Spawn, Commands
    <1>2. ASSUME NEW c \in Actor, pc'[c] # "free", chan' = [chan EXCEPT ![c] = Append(chan[c], Spawn(i, k))]
          PROVE  /\ \E d \in Actor : Mentions(chan'[d], k) /\ pc'[d] # "free"
                 /\ \A d \in Actor, j \in Call : Mentions(chan[d], j) => Mentions(chan'[d], j)
        <2>1. chan'[c] = Append(chan[c], Spawn(i, k)) /\ \A d \in Actor : d # c => chan'[d] = chan[d]
            BY <1>0, <1>2, Zenon
        <2>2. Mentions(chan'[c], k) /\ \A j : Mentions(chan[c], j) => Mentions(chan'[c], j)
            <3>1. chan[c] \in Seq(Commands)
                BY <1>0, Zenon
            <3>2. \A j : Mentions(Append(chan[c], Spawn(i, k)), j) <=> Mentions(chan[c], j) \/ Spawn(i, k).f = j
                BY <1>1, <3>1, MentionsAppend
            <3> QED
                BY <1>1, <2>1, <3>2, Zenon
        <2> QED
            BY <1>2, <2>1, <2>2, Zenon
    <1>3. CASE SpawnLive(i, k)
        <2> DEFINE c == live[i].send
        <2>1. Receives(i, k) /\ inbox' = Tail(inbox) /\ pc' = pc
            BY <1>3, Zenon DEF SpawnLive, actorVars
        <2>2. c \in Actor /\ pc[c] # "free"
            BY <1>3, ZenonT(60) DEF SpawnLive, IInv, LiveInv, Running, Handing
        <2>3. CASE ReceiverHeld(c) /\ Len(chan[c]) < EntityInboxSize
            <3>1. chan' = [chan EXCEPT ![c] = Append(chan[c], Spawn(i, k))] /\ call' = call
                BY <1>3, <2>3, Zenon DEF SpawnLive
            <3> QED
                BY <1>2, <2>1, <2>2, <3>1, SpawnTakes, Zenon
        <2>4. CASE ~(ReceiverHeld(c) /\ Len(chan[c]) < EntityInboxSize)
            <3>1. chan' = chan /\ call' = [call EXCEPT ![k] = "running"]
                BY <1>3, <2>4, Zenon DEF SpawnLive
            <3>2. call'[k] # "sent" /\ \A j \in Call : j # k => call'[j] = call[j]
                BY <1>0, <3>1, Zenon
            <3> QED
                BY <2>1, <3>1, <3>2, SpawnTakes, Zenon
        <2> QED
            BY <2>3, <2>4, Zenon
    <1>4. CASE SpawnPooled(i, k)
        <2>1. PICK c, p \in Actor :
                /\ <<c, p>> \in pool /\ Receives(i, k) /\ inbox' = Tail(inbox) /\ call' = call
                /\ chan' = [chan EXCEPT ![c] = Append(chan[c], Spawn(i, k))]
                /\ pc' = [pc EXCEPT ![p] = "run"]
            BY <1>4, Zenon DEF SpawnPooled
        <2>2. c = p
            BY <2>1, Zenon DEF IInv, PoolInv
        <2>3. pc'[c] # "free" /\ \A d \in Actor : pc[d] # "free" => pc'[d] # "free"
            BY <1>0, <2>1, <2>2, Zenon
        <2> QED
            BY <1>2, <2>1, <2>3, SpawnTakes, Zenon
    <1>5. CASE SpawnNew(i, k)
        <2>1. PICK p \in Actor :
                /\ pc[p] = "free" /\ Receives(i, k) /\ inbox' = Tail(inbox) /\ call' = call
                /\ chan' = [chan EXCEPT ![p] = <<Spawn(i, k)>>]
                /\ pc' = [pc EXCEPT ![p] = "run"]
            BY <1>5, Zenon DEF SpawnNew
        <2>2. /\ pc'[p] # "free" /\ chan'[p] = <<Spawn(i, k)>>
              /\ \A d \in Actor : pc[d] # "free" => pc'[d] # "free" /\ chan'[d] = chan[d]
            BY <1>0, <2>1, Zenon
        <2>3. Mentions(chan'[p], k)
            BY <1>1, <2>2, SMTT(30) DEF Mentions
        <2> QED
            BY <2>1, <2>2, <2>3, SpawnTakes, Zenon
    <1> QED
        BY <1>3, <1>4, <1>5, Zenon

\* The steps of the main actor that take no callback from its inbox: recycle
\* drops an actor only when its inbox is empty.
LEMMA MainCalls ==
    ASSUME IInv, CallInv, CallbackReturns \/ Tick \/ MainShutdown PROVE CallInv'
    <1>0. pc \in [Actor -> Pcs] /\ call \in [Call -> {"idle", "sent", "running"}]
        BY Zenon DEF IInv, TypeOK
    <1>1. CASE CallbackReturns
        <2>1. /\ UNCHANGED <<inbox, chan, pc>> /\ main \in {"run", "calling"}
              /\ call' = [call EXCEPT ![calling] = "idle"]
            BY <1>1, Zenon DEF CallbackReturns, apiVars, actorVars
        <2>2. \A k \in Call : call'[k] = "sent" => call[k] = "sent"
            BY <1>0, <2>1, Zenon
        <2> QED
            BY <2>1, <2>2, CallsKept, Zenon
    <1>2. CASE TickShutdown
        BY <1>2, CallsKept, Zenon DEF TickShutdown, apiVars, actorVars
    <1>3. CASE TickShutdownComplete
        <2>1. internal # <<>> /\ Head(internal).type = "ShutdownComplete" /\ internal \in Seq(InternalCommands)
            BY <1>3, Zenon DEF TickShutdownComplete, IInv, TypeOK
        <2>2. Head(internal) = internal[1] /\ 1 \in 1..Len(internal)
            BY <2>1
        <2>3. PICK p \in Actor : Head(internal).actor = p
            BY <2>1, <2>2, MessageKind DEF IsShutdown, IsComplete
        <2>4. UNCHANGED <<inbox, chan, main, call>>
            BY <1>3, Zenon DEF TickShutdownComplete, apiVars
        <2>5. NoMainError'
            BY <1>3, TickShutdownCompleteIInv, Zenon DEF IInv
        <2>6. LET h == live[ent[p]] IN
              h.status = "ShuttingDown" /\ IF chan[h.recv] = <<>> THEN Recycle(h, p) ELSE Rerun(h, p)
            BY <1>3, <2>3, <2>5, Zenon DEF TickShutdownComplete, NoMainError
        <2>7. ent[p] \in Id /\ live[ent[p]].recv = p
            <3>1. IsComplete(1, p)
                BY <2>1, <2>2, <2>3, Zenon DEF IsComplete
            <3>2. pc[p] = "message"
                BY <2>2, <3>1, MessageSource, Zenon
            <3>3. ent[p] \in Id
                BY <3>2, Zenon DEF IInv, ActorInv
            <3>4. live[ent[p]].send = p
                BY <1>3, <3>2, Zenon DEF IInv, LiveInv, StateOwned, TickShutdownComplete, Handing
            <3> QED
                BY <2>6, <3>3, <3>4, SMTT(30) DEF IInv, LiveInv
        <2>8. \A c \in Actor : pc[c] # "free" /\ chan[c] # <<>> => pc'[c] # "free"
            BY <1>0, <2>6, <2>7, Zenon DEF Recycle, Rerun
        <2> QED
            BY <2>4, <2>8, CallsKept, Zenon
    <1>4. CASE MainShutdown
        <2>1. ~(main' \in {"run", "calling"})
            BY <1>4, Zenon DEF MainShutdown, StartSoftShutdown, NotifyEntity, EndSoftShutdown, HardShutdown, DropState, Joined
        <2> QED
            BY <2>1, Zenon DEF CallInv
    <1> QED
        BY <1>1, <1>2, <1>3, <1>4, Zenon DEF Tick

\* An entity actor takes a callback from its inbox to start it.
LEMMA ReceiveCalls ==
    ASSUME IInv, CallInv, NEW p \in Actor, ReceiveSpawn(p) \/ ReceiveShutdown(p) PROVE CallInv'
    <1> USE NoneAssumption
    <1>0. chan \in [Actor -> Seq(Commands)] /\ pc \in [Actor -> Pcs] /\ call \in [Call -> {"idle", "sent", "running"}]
        BY Zenon DEF IInv, TypeOK
    <1>1. recv[p] = p /\ chan[p] # <<>>
        BY Zenon DEF ReceiveSpawn, ReceiveShutdown, IInv, ActorInv, Running
    <1>2. /\ chan' = [chan EXCEPT ![p] = Tail(chan[p])]
          /\ UNCHANGED <<inbox, main>>
          /\ \A c \in Actor : pc[c] # "free" => pc'[c] # "free"
        BY <1>0, <1>1, Zenon DEF ReceiveSpawn, ReceiveShutdown, apiVars, mainVars
    <1>3. Head(chan[p]) \in Commands
        BY <1>0, <1>1, TailFacts, SMTT(30)
    <1>4. ASSUME NEW k \in Call, call'[k] = "sent" PROVE call[k] = "sent" /\ Head(chan[p]).f # k
        <2>1. CASE ReceiveSpawn(p)
            <3>1. call' = [call EXCEPT ![Head(chan[p]).f] = "running"]
                BY <1>1, <2>1, Zenon DEF ReceiveSpawn
            <3> QED
                BY <1>0, <1>4, <3>1, Zenon
        <2>2. CASE ReceiveShutdown(p)
            <3>1. call' = call /\ Head(chan[p]).type = "EntityShutdown"
                BY <1>1, <2>2, Zenon DEF ReceiveShutdown
            <3>2. Head(chan[p]).f = None
                BY <1>3, <3>1 DEF Commands, EntityShutdown, ShutdownAll
            <3> QED
                BY <1>4, <3>1, <3>2, Zenon
        <2> QED
            BY <2>1, <2>2, Zenon
    <1>5. ASSUME NEW c \in Actor, NEW k \in Call, Mentions(chan[c], k), Head(chan[p]).f # k
          PROVE  Mentions(chan'[c], k)
        <2>1. CASE c = p
            <3>1. Mentions(Tail(chan[p]), k)
                BY <1>0, <1>1, <1>5, <2>1, MentionsTail
            <3> QED
                BY <1>0, <1>2, <2>1, <3>1, Zenon
        <2>2. CASE c # p
            BY <1>0, <1>2, <1>5, <2>2, Zenon
        <2> QED
            BY <2>1, <2>2, Zenon
    <1> QED
        BY <1>2, <1>4, <1>5, Zenon DEF CallInv

\* The other steps of an entity actor leave its inbox alone and do not free it.
LEMMA ActorCalls ==
    ASSUME IInv, CallInv, NEW p \in Actor, ActorStep(p) PROVE CallInv'
    <1> USE DEF apiVars, mainVars
    <1>0. pc \in [Actor -> Pcs] /\ call \in [Call -> {"idle", "sent", "running"}]
        BY Zenon DEF IInv, TypeOK
    <1>1. ASSUME UNCHANGED <<inbox, chan, main>>, NEW x, x # "free", pc' = [pc EXCEPT ![p] = x],
                 \A k \in Call : call'[k] = "sent" => call[k] = "sent"
          PROVE  CallInv'
        <2>1. \A c \in Actor : pc[c] # "free" => pc'[c] # "free"
            BY <1>0, <1>1, Zenon
        <2> QED
            BY <1>1, <2>1, CallsKept, Zenon
    <1>2. CASE Receive(p)
        <2>1. CASE ReceiveClosed(p)
            BY <1>1, <2>1, Zenon DEF ReceiveClosed
        <2> QED
            BY <1>2, <2>1, ReceiveCalls, Zenon DEF Receive
    <1>3. ASSUME NEW k \in Call, TaskDone(p, k) PROVE CallInv'
        <2>1. /\ UNCHANGED <<inbox, chan, main>> /\ call' = [call EXCEPT ![k] = "idle"]
              /\ pc[p] \in {"run", "soft"} /\ \E x \in {"recycle", pc[p]} : pc' = [pc EXCEPT ![p] = x]
            BY <1>3, Zenon DEF TaskDone
        <2>2. \A j \in Call : call'[j] = "sent" => call[j] = "sent"
            BY <1>0, <2>1, Zenon
        <2> QED
            BY <1>1, <2>1, <2>2, Zenon
    <1>4. CASE SendShutdown(p)
        BY <1>1, <1>4, Zenon DEF SendShutdown
    <1>5. CASE SendShutdownComplete(p)
        BY <1>1, <1>5, Zenon DEF SendShutdownComplete
    <1>6. CASE OnShutdownIdle(p)
        BY <1>1, <1>6, Zenon DEF OnShutdownIdle
    <1>7. CASE OnShutdownSoft(p)
        BY <1>1, <1>7, Zenon DEF OnShutdownSoft
    <1>8. CASE OnShutdownDrop(p) \/ Panic(p)
        <2>1. UNCHANGED <<inbox, chan, main>> /\ DropActor(p)
            BY <1>8, Zenon DEF OnShutdownDrop, Panic
        <2>2. \A j \in Call : call'[j] = "sent" => call[j] = "sent"
            BY <2>1, Zenon DEF DropActor
        <2> QED
            BY <1>1, <2>1, <2>2, Zenon DEF DropActor
    <1> QED
        BY <1>2, <1>3, <1>4, <1>5, <1>6, <1>7, <1>8, Zenon DEF ActorStep, ActorEnd

\* As long as the manager runs, no accepted callback is lost: it is in the
\* inbox of the main actor or in one whose receiver is held by an actor, by
\* a message or by a handle, or whose actor has panicked.
THEOREM CallsNotLost == Spec => []NoCallLost
    <1>1. Init => CallInv
        BY Zenon DEF Init, CallInv
    <1>2. IInv /\ CallInv /\ [Next]_vars => CallInv'
        <2> SUFFICES ASSUME IInv, CallInv, [Next]_vars PROVE CallInv'
            BY Zenon
        <2>1. CASE UNCHANGED vars
            BY <2>1, CallsKept, Zenon DEF vars, apiVars, mainVars, actorVars
        <2>2. CASE HandleSpawn
            BY <2>2, SpawnCalls, Zenon DEF HandleSpawn
        <2> QED
            BY <2>1, <2>2, UserStepCalls, MainCalls, ActorCalls, Zenon DEF Next
    <1> QED
        BY <1>1, <1>2, Invariance, CallInvNoCallLost, PTL DEF Spec
=============================================================================
