--------------------------- MODULE WcsBridgeProofs ---------------------------
(***************************************************************************)
(* WcsBridge for every set of players, slots and groups, every size of the *)
(* two queues and of the set of request IDs, every number of sessions and  *)
(* generations: a generation stands for one group, a request is carried    *)
(* out at most once, on the player and, by the add-on, in the group that   *)
(* the companion was shown, and never for a session that was over.         *)
(***************************************************************************)
EXTENDS WcsBridge, SessionLayerProofs

(***************************************************************************)
(* The network's half                                                      *)
(***************************************************************************)
\* What a step does to the sessions and the queue is a step of SessionLayer,
\* or nothing.
LEMMA BridgeStepOfLayer == [Next]_vars => [SLNext]_slvars
<1> SUFFICES ASSUME [Next]_vars PROVE [SLNext]_slvars
  OBVIOUS
<1>1. CASE NetworkStep
  BY <1>1 DEF NetworkStep, SLNext, Network
<1>2. CASE OnUpdate
  BY <1>2 DEF OnUpdate, SLNext
<1>3. CASE ~NetworkStep /\ ~OnUpdate
  BY <1>3 DEF Next, vars, slvars, PublishParty, PublishSnapshot, WorldEnter, WorldLeave, Loading,
              LeavingWorld, Reload, ClientGroupChanges, CheckRemove, Remove, Forward, Input,
              DoReleaseAll, BatchEnd, TakePartyCommand, Tick
<1> QED BY <1>1, <1>2, <1>3

\* The bridge's sessions and its queue are SessionLayer's: what is proved of
\* SLSpec holds of the bridge (CommandSink of WebSocketServer.hpp).
THEOREM BridgeImplementsSessionLayer == Spec => SLSpec
<1>1. Init => SLInit
  BY DEF Init
<1> QED BY <1>1, BridgeStepOfLayer, PTL DEF Spec, SLSpec

(***************************************************************************)
(* The inductive invariant                                                 *)
(***************************************************************************)
\* What may wait for the add-on.
AddonCommands == {c \in Commands : IsRequest(c) /\ Operation(c) \in {"promote", "leave"}}

BridgeTypes ==
  /\ SLTypeOK
  /\ pending \in Seq(Commands) /\ partyCommands \in Seq(AddonCommands)
  /\ generation \in Nat /\ partyGeneration \in Nat /\ requestGeneration \in Nat
  /\ since \in Nat
  /\ gpc \in {"idle", "batch", "remove", "addon"}

\* The state that is published for the group the add-on's signature stands for.
Stamped ==
  [generation |-> generation, group |-> signature.group, leader |-> signature.leader,
   members |-> IF signature.group = "raid" THEN NoMembers ELSE signature.roster]

\* What was published under the add-on's present generation is what it would
\* publish now.
PublishedInv ==
  /\ generation <= partyGeneration
  /\ \A p \in published : p.generation \in Nat /\ 0 < p.generation
                            /\ p.generation <= partyGeneration
  /\ \A p \in published : p.generation = generation => p = Stamped
  /\ GenerationNamesOneGroup
  /\ party \in published \cup {EmptyParty}

\* Generations go up only: that of the IDs spent, that of the state the store
\* has, that of the add-on, that of the counter.  0 is none.
OrderInv ==
  /\ requestGeneration <= partyGeneration
  /\ generation # 0 => requestGeneration <= generation
  /\ party.generation # 0 => requestGeneration <= party.generation
  /\ generation # 0 => party.generation <= generation

\* Whatever was carried out in the generation of the IDs spent is among them.
SpentInv ==
  /\ \A d \in done :
       /\ d.request.generation \in Nat /\ d.request.generation <= requestGeneration
       /\ d.request.generation = requestGeneration => d.request.id \in partyRequests
  /\ ~repeated

Checking == gpc \in {"remove", "addon"}

\* The request that has passed its checks: what was checked still is the state
\* the store has, and the request's ID has been spent, but not used.
CheckedInv ==
  Checking =>
    LET r == checked.command.payload
    IN /\ r.kind \in (IF gpc = "remove" THEN {"remove"} ELSE {"promote", "leave"})
       /\ party \in published
       /\ r.generation = party.generation /\ r.generation = requestGeneration
       /\ IF r.kind = "leave" THEN MayLeave(party)
          ELSE MayManage(party) /\ checked.guid = party.members[r.slot]
       /\ r.id \in partyRequests
       /\ \A d \in done : ~(d.request.id = r.id /\ d.request.generation = r.generation)

\* A callback serves sessions that were not over when it began.
SessionInv ==
  /\ since <= session
  /\ Checking => checked.command.session \in Nat /\ since <= checked.command.session
  /\ DeadSessionsAreNotServed

DoneInv == ActsOnWhatWasShown /\ AddonActsInTheGroupShown

BridgeInv ==
  /\ BridgeTypes
  /\ PublishedInv
  /\ OrderInv
  /\ SpentInv
  /\ CheckedInv
  /\ SessionInv
  /\ DoneInv

(***************************************************************************)
(* What the operations do                                                  *)
(***************************************************************************)
\* A published group is a raid exactly if the client's is.
LEMMA RaidFacts == \A l : GroupType(l) = "raid" <=> l.raid
BY DEF GroupType

\* Management:State: the generation it leaves behind is no older than any in
\* use, and what was published under it, if anything, is what it returns.
LEMMA StateFacts ==
  ASSUME BridgeTypes, PublishedInv, OrderInv, State
  PROVE  /\ generation' \in Nat /\ generation' # 0
         /\ partyGeneration' \in Nat
         /\ partyGeneration <= partyGeneration' /\ generation' <= partyGeneration'
         /\ requestGeneration <= generation' /\ party.generation <= generation'
         /\ PartyState(live, CurrentGeneration(NextPartyGeneration)) = Stamped'
         /\ \A p \in published : p.generation = generation' => p = Stamped'
<1>t. generation \in Nat /\ partyGeneration \in Nat /\ requestGeneration \in Nat
  BY DEF BridgeTypes
<1>p. party.generation \in Nat /\ party.generation <= partyGeneration
  BY <1>t DEF PublishedInv, EmptyParty
<1>1. PartyState(live, CurrentGeneration(NextPartyGeneration)) = Stamped'
  BY RaidFacts DEF State, ReadState, PartyState, Stamped, Signature
<1>2. CASE Renewed
  <2>1. generation' = partyGeneration + 1 /\ partyGeneration' = partyGeneration + 1
    BY <1>2 DEF State, ReadState, CurrentGeneration, NextPartyGeneration
  <2>2. \A p \in published : p.generation # generation'
    BY <1>t, <2>1 DEF PublishedInv
  <2>3. requestGeneration <= partyGeneration
    BY DEF OrderInv
  <2> QED BY <1>t, <1>p, <1>1, <2>1, <2>2, <2>3
<1>3. CASE ~Renewed
  <2>1. generation' = generation /\ partyGeneration' = partyGeneration /\ generation # 0
        /\ signature' = signature
    BY <1>3 DEF State, ReadState, CurrentGeneration, Renewed
  <2>2. Stamped' = Stamped
    BY <2>1 DEF Stamped
  <2> QED BY <1>t, <1>p, <1>1, <2>1, <2>2 DEF PublishedInv, OrderInv
<1> QED BY <1>2, <1>3

\* The add-on reads the group, and publishes it or not.
Published ==
  /\ State
  /\ \/ Store(Stamped')
     \/ UNCHANGED <<party, published>>

LEMMA PublishedFacts ==
  ASSUME BridgeTypes, PublishedInv, OrderInv, PublishParty \/ PublishSnapshot \/ Tick
  PROVE  Published
<1>1. State
  BY DEF PublishParty, PublishSnapshot, Tick, PublishPartyEffect
<1>2. PartyState(live, CurrentGeneration(NextPartyGeneration)) = Stamped'
  BY <1>1, StateFacts
<1> QED
  BY <1>1, <1>2 DEF PublishParty, PublishSnapshot, Tick, PublishPartyEffect, Published

\* ValidatePartyCommand lets through only what names a published state.
LEMMA ValidFacts ==
  ASSUME BridgeTypes, PublishedInv, NEW r, Valid(r)
  PROVE  /\ party \in published /\ r.generation = party.generation
         /\ party.generation \in Nat /\ party.generation # 0
         /\ party.generation <= partyGeneration
         /\ IF r.kind = "leave" THEN MayLeave(party) ELSE MayManage(party)
<1>1. party # EmptyParty
  BY DEF Valid, MayLeave, MayManage, EmptyParty
<1>2. party \in published /\ partyGeneration \in Nat
  BY <1>1 DEF PublishedInv, BridgeTypes
<1> QED BY <1>2 DEF Valid, PublishedInv

\* PreparePartyCommand: the spent IDs of a generation are forgotten only for
\* those of a later one.
LEMMA PrepareFacts ==
  ASSUME BridgeTypes, PublishedInv, OrderInv, NEW r, Prepare(r)
  PROVE  /\ requestGeneration' \in Nat /\ requestGeneration <= requestGeneration'
         /\ requestGeneration' = requestGeneration => partyRequests \subseteq partyRequests'
         /\ \/ requestGeneration' = requestGeneration
            \/ requestGeneration' = party.generation /\ party.generation # 0
         /\ Accepted(r) => /\ requestGeneration' = r.generation
                           /\ r.id \in partyRequests' /\ r.id \notin Spent(r)
<1>t. requestGeneration \in Nat
  BY DEF BridgeTypes
<1>1. CASE Valid(r)
  <2>1. requestGeneration' = r.generation /\ r.generation = party.generation
        /\ party.generation \in Nat /\ party.generation # 0
    BY <1>1, ValidFacts DEF Prepare
  <2>2. requestGeneration <= party.generation
    BY <2>1 DEF OrderInv
  <2>3. partyRequests' = IF Accepted(r) THEN Spent(r) \cup {r.id} ELSE Spent(r)
    BY <1>1 DEF Prepare
  <2>4. Accepted(r) => r.id \notin Spent(r)
    BY DEF Accepted
  <2>5. requestGeneration' = requestGeneration => partyRequests \subseteq partyRequests'
    BY <2>1, <2>3 DEF Spent
  <2> QED BY <1>t, <2>1, <2>2, <2>3, <2>4, <2>5
<1>2. CASE ~Valid(r)
  BY <1>t, <1>2 DEF Prepare, Accepted
<1> QED BY <1>1, <1>2

\* Check: the request passes with its ID spent, or nothing is checked.
LEMMA CheckFacts ==
  ASSUME BridgeTypes, PublishedInv, OrderInv, NEW c, NEW next, Check(c, next)
  PROVE  /\ \/ Prepare(c.payload) \/ UNCHANGED <<requestGeneration, partyRequests>>
         /\ \/ UNCHANGED <<checked, gpc>>
            \/ /\ Live(c) /\ Accepted(c.payload) /\ Prepare(c.payload)
               /\ checked'.command = c /\ checked'.guid = Target(c.payload)
               /\ gpc' = next
BY DEF Check

\* The steps that check a request.
Checks == CheckRemove \/ TakePartyCommand

\* What they do to the spent IDs.
SpentGrow ==
  /\ requestGeneration' \in Nat /\ requestGeneration <= requestGeneration'
  /\ requestGeneration' = requestGeneration => partyRequests \subseteq partyRequests'
  /\ \/ requestGeneration' = requestGeneration
     \/ requestGeneration' = party.generation /\ party.generation # 0

LEMMA ChecksFacts ==
  ASSUME BridgeTypes, PublishedInv, OrderInv, Checks
  PROVE  SpentGrow
<1>t. requestGeneration \in Nat
  BY DEF BridgeTypes
<1>1. PICK c, next : Check(c, next)
  BY DEF Checks, CheckRemove, TakePartyCommand
<1>2. CASE Prepare(c.payload)
  BY <1>2, PrepareFacts DEF SpentGrow
<1>3. CASE UNCHANGED <<requestGeneration, partyRequests>>
  BY <1>t, <1>3 DEF SpentGrow
<1> QED BY <1>1, <1>2, <1>3, CheckFacts

(***************************************************************************)
(* Every step keeps the invariant                                          *)
(***************************************************************************)
\* A queue that loses its head or gains a command at its end.
LEMMA QueueFacts ==
  ASSUME NEW S, NEW q \in Seq(S)
  PROVE  /\ q # <<>> => Head(q) \in S /\ Tail(q) \in Seq(S)
         /\ <<>> \in Seq(S) /\ \A c \in S : Append(q, c) \in Seq(S)
OBVIOUS

LEMMA BridgeTypesStep ==
  ASSUME BridgeTypes, PublishedInv, OrderInv, [Next]_vars
  PROVE  BridgeTypes'
<1>1. SLTypeOK'
  BY BridgeStepOfLayer, SLTypeStep DEF BridgeTypes
<1>2. pending' \in Seq(Commands)
  <2>1. \/ pending' = pending \/ pending' = commands
        \/ pending # <<>> /\ pending' = Tail(pending)
    BY DEF Next, vars, NetworkStep, PublishParty, PublishSnapshot, WorldEnter, WorldLeave, Loading,
           LeavingWorld, Reload, ClientGroupChanges, OnUpdate, CheckRemove, Remove, Forward, Input,
           DoReleaseAll, BatchEnd, TakePartyCommand, Tick, Batch, Popped
  <2> QED BY <2>1, QueueFacts DEF BridgeTypes, SLTypeOK
<1>3. partyCommands' \in Seq(AddonCommands)
  <2>1. CASE Forward
    <3>1. Head(pending) \in AddonCommands
      BY <2>1, QueueFacts DEF Forward, Batch, BridgeTypes, AddonCommands
    <3> QED BY <2>1, <3>1, QueueFacts DEF Forward, BridgeTypes
  <2>2. CASE TakePartyCommand
    BY <2>2, QueueFacts DEF TakePartyCommand, BridgeTypes
  <2>3. CASE ~Forward /\ ~TakePartyCommand
    <3>1. partyCommands' = partyCommands \/ partyCommands' = <<>>
      BY <2>3 DEF Next, vars, nativevars, NetworkStep, PublishParty, PublishSnapshot, WorldEnter,
             WorldLeave, Loading, LeavingWorld, Reload, ClientGroupChanges, OnUpdate, CheckRemove,
             Remove, Input, DoReleaseAll, BatchEnd, Tick
    <3> QED BY <3>1, QueueFacts DEF BridgeTypes
  <2> QED BY <2>1, <2>2, <2>3
<1>4. generation' \in Nat /\ partyGeneration' \in Nat
  <2>1. CASE PublishParty \/ PublishSnapshot \/ Tick
    BY <2>1, PublishedFacts, StateFacts DEF Published
  <2>2. CASE ~(PublishParty \/ PublishSnapshot \/ Tick)
    <3>1. (generation' = generation \/ generation' = 0) /\ partyGeneration' = partyGeneration
      BY <2>2 DEF Next, vars, addonvars, NetworkStep, WorldEnter, WorldLeave, Loading, LeavingWorld,
             Invalidate, Reload, ClientGroupChanges, GroupChanges, OnUpdate, CheckRemove, Remove,
             Forward, Input, DoReleaseAll, BatchEnd, TakePartyCommand
    <3> QED BY <3>1 DEF BridgeTypes
  <2> QED BY <2>1, <2>2
<1>5. requestGeneration' \in Nat
  <2>1. CASE Checks
    BY <2>1, ChecksFacts DEF SpentGrow
  <2>2. CASE ~Checks
    BY <2>2 DEF Checks, BridgeTypes, Next, vars, nativevars, NetworkStep, PublishParty,
           PublishSnapshot, WorldEnter, WorldLeave, Loading, LeavingWorld, Reload,
           ClientGroupChanges, OnUpdate, Remove, Forward, Input, DoReleaseAll, BatchEnd, Tick
  <2> QED BY <2>1, <2>2
<1>6. since' \in Nat
  <2>1. since' = since \/ since' = session \/ since' = 0
    BY DEF Next, vars, histvars, NetworkStep, PublishParty, PublishSnapshot, WorldEnter, WorldLeave,
           Loading, LeavingWorld, Reload, ClientGroupChanges, OnUpdate, CheckRemove, Remove, Forward,
           Input, DoReleaseAll, BatchEnd, TakePartyCommand, Tick
  <2> QED BY <2>1 DEF BridgeTypes, SLTypeOK
<1>7. gpc' \in {"idle", "batch", "remove", "addon"}
  BY DEF BridgeTypes, Next, vars, NetworkStep, PublishParty, PublishSnapshot, WorldEnter, WorldLeave,
         Loading, LeavingWorld, Reload, ClientGroupChanges, OnUpdate, CheckRemove, Remove, Forward,
         Input, DoReleaseAll, BatchEnd, TakePartyCommand, Tick, Check
<1> QED BY <1>1, <1>2, <1>3, <1>4, <1>5, <1>6, <1>7 DEF BridgeTypes

\* The steps that leave the add-on, the counter and what is published alone.
LEMMA QuietSteps ==
  ASSUME [Next]_vars, ~(PublishParty \/ PublishSnapshot \/ Tick), ~(WorldLeave \/ Reload),
         ~LeavingWorld
  PROVE  UNCHANGED <<signature, generation, partyGeneration, party, published>>
BY DEF Next, vars, addonvars, storevars, histvars, NetworkStep, WorldEnter, Loading,
       ClientGroupChanges, GroupChanges, OnUpdate, CheckRemove, Remove, Forward, Input, DoReleaseAll,
       BatchEnd, TakePartyCommand

\* Generations keep naming one group each.
LEMMA PublishedStep ==
  ASSUME BridgeTypes, PublishedInv, OrderInv, [Next]_vars
  PROVE  PublishedInv'
<1>t. generation \in Nat /\ partyGeneration \in Nat
  BY DEF BridgeTypes
<1>1. CASE PublishParty \/ PublishSnapshot \/ Tick
  <2>1. Published
    BY <1>1, PublishedFacts
  <2>2. /\ generation' \in Nat /\ generation' # 0 /\ partyGeneration' \in Nat
        /\ partyGeneration <= partyGeneration' /\ generation' <= partyGeneration'
        /\ \A p \in published : p.generation = generation' => p = Stamped'
    BY <2>1, StateFacts DEF Published
  <2>3. Stamped'.generation = generation'
    BY DEF Stamped
  <2>4. \A p \in published' : p \in published \/ p = Stamped'
    BY <2>1 DEF Published, Store
  <2>5. \A p \in published' : p.generation \in Nat /\ 0 < p.generation
                                /\ p.generation <= partyGeneration'
    BY <1>t, <2>2, <2>3, <2>4 DEF PublishedInv
  <2>6. \A p \in published' : p.generation = generation' => p = Stamped'
    BY <2>2, <2>4
  <2>7. GenerationNamesOneGroup'
    BY <2>3, <2>4, <2>6 DEF PublishedInv, GenerationNamesOneGroup
  <2>8. party' \in published' \cup {EmptyParty'}
    BY <2>1 DEF Published, Store, PublishedInv, EmptyParty, NoMembers
  <2> QED BY <2>2, <2>5, <2>6, <2>7, <2>8 DEF PublishedInv
<1>2. CASE WorldLeave \/ Reload \/ LeavingWorld
  <2>1. /\ published' = published /\ partyGeneration' = partyGeneration
        /\ party' = party \/ party' = EmptyParty
    BY <1>2 DEF WorldLeave, Reload, LeavingWorld, histvars, storevars
  <2>2. \/ generation' = generation /\ signature' = signature
        \/ generation' = 0
    BY <1>2 DEF WorldLeave, Reload, LeavingWorld, Invalidate, addonvars
  <2>3. \A p \in published : p.generation = generation' => p = Stamped'
    BY <2>2 DEF PublishedInv, Stamped
  <2>4. EmptyParty' = EmptyParty
    BY DEF EmptyParty, NoMembers
  <2> QED BY <1>t, <2>1, <2>2, <2>3, <2>4 DEF PublishedInv, GenerationNamesOneGroup
<1>3. CASE ~(PublishParty \/ PublishSnapshot \/ Tick) /\ ~(WorldLeave \/ Reload) /\ ~LeavingWorld
  BY <1>3, QuietSteps DEF PublishedInv, GenerationNamesOneGroup, Stamped, EmptyParty, NoMembers
<1> QED BY <1>1, <1>2, <1>3

\* Generations keep their order.
LEMMA OrderStep ==
  ASSUME BridgeTypes, PublishedInv, OrderInv, [Next]_vars
  PROVE  OrderInv'
<1>t. /\ generation \in Nat /\ partyGeneration \in Nat /\ requestGeneration \in Nat
      /\ party.generation \in Nat /\ party.generation <= partyGeneration
  BY DEF BridgeTypes, PublishedInv, EmptyParty
<1>1. CASE PublishParty \/ PublishSnapshot \/ Tick
  <2>1. Published /\ requestGeneration' = requestGeneration
    BY <1>1, PublishedFacts DEF PublishParty, PublishSnapshot, Tick, nativevars
  <2>2. /\ generation' \in Nat /\ generation' # 0 /\ partyGeneration' \in Nat
        /\ partyGeneration <= partyGeneration' /\ generation' <= partyGeneration'
        /\ requestGeneration <= generation' /\ party.generation <= generation'
    BY <2>1, StateFacts DEF Published
  <2>3. party'.generation = generation' \/ party'.generation = party.generation
    BY <2>1 DEF Published, Store, Stamped
  <2> QED BY <1>t, <2>1, <2>2, <2>3 DEF OrderInv
<1>2. CASE WorldLeave \/ Reload \/ LeavingWorld
  <2>1. /\ requestGeneration' = requestGeneration /\ partyGeneration' = partyGeneration
        /\ party' = party \/ party'.generation = 0
    BY <1>2 DEF WorldLeave, Reload, LeavingWorld, nativevars, storevars, EmptyParty
  <2>2. generation' = generation \/ generation' = 0
    BY <1>2 DEF WorldLeave, Reload, LeavingWorld, Invalidate, addonvars
  <2> QED BY <1>t, <2>1, <2>2 DEF OrderInv
<1>3. CASE ~(PublishParty \/ PublishSnapshot \/ Tick) /\ ~(WorldLeave \/ Reload) /\ ~LeavingWorld
  <2>1. UNCHANGED <<generation, partyGeneration, party>>
    BY <1>3, QuietSteps
  <2>2. CASE Checks
    BY <1>t, <2>1, <2>2, ChecksFacts DEF OrderInv, SpentGrow
  <2>3. CASE ~Checks
    <3>1. requestGeneration' = requestGeneration
      BY <1>3, <2>3 DEF Checks, Next, vars, nativevars, NetworkStep, WorldEnter, Loading,
             ClientGroupChanges, OnUpdate, Remove, Forward, Input, DoReleaseAll, BatchEnd
    <3> QED BY <2>1, <3>1 DEF OrderInv
  <2> QED BY <2>2, <2>3
<1> QED BY <1>1, <1>2, <1>3

\* No ID of a generation is used twice.
LEMMA SpentStep ==
  ASSUME BridgeTypes, PublishedInv, OrderInv, SpentInv, CheckedInv, [Next]_vars
  PROVE  SpentInv'
<1>t. requestGeneration \in Nat
  BY DEF BridgeTypes
<1>1. CASE Remove \/ Tick
  <2> DEFINE r == checked.command.payload
  <2>1. Checking /\ requestGeneration' = requestGeneration /\ partyRequests' = partyRequests
    BY <1>1 DEF Remove, Tick, Checking
  <2>2. /\ r.generation = requestGeneration /\ r.id \in partyRequests
        /\ \A d \in done : ~(d.request.id = r.id /\ d.request.generation = r.generation)
    BY <2>1 DEF CheckedInv
  <2>3. \/ done' = done /\ repeated' = repeated
        \/ \E player : Carry(player)
    BY <1>1 DEF Remove, Tick
  <2>4. ASSUME NEW player, Carry(player) PROVE SpentInv'
    <3>1. \A d \in done' : d \in done \/ d.request = r
      BY <2>4 DEF Carry
    <3>2. ~repeated'
      BY <2>2, <2>4 DEF Carry, SpentInv
    <3> QED BY <1>t, <2>1, <2>2, <3>1, <3>2 DEF SpentInv
  <2> QED BY <2>1, <2>3, <2>4 DEF SpentInv
<1>2. CASE Checks
  <2>1. done' = done /\ repeated' = repeated
    BY <1>2 DEF Checks, CheckRemove, TakePartyCommand, histvars
  <2> QED BY <1>t, <1>2, <2>1, ChecksFacts DEF SpentInv, SpentGrow
<1>3. CASE ~(Remove \/ Tick) /\ ~Checks
  <2>1. UNCHANGED <<done, repeated, requestGeneration, partyRequests>>
    BY <1>3 DEF Checks, Next, vars, nativevars, histvars, NetworkStep, PublishParty, PublishSnapshot,
           WorldEnter, WorldLeave, Loading, LeavingWorld, Reload, ClientGroupChanges, OnUpdate,
           Forward, Input, DoReleaseAll, BatchEnd
  <2> QED BY <2>1 DEF SpentInv
<1> QED BY <1>1, <1>2, <1>3

\* The command that is checked: one of OnUpdate's batch, or of the add-on's queue.
LEMMA ChecksCommand ==
  ASSUME BridgeTypes, Checks
  PROVE  \E c \in Commands, next \in {"remove", "addon"} :
           /\ Check(c, next) /\ IsRequest(c)
           /\ c.payload.kind \in (IF next = "remove" THEN {"remove"} ELSE {"promote", "leave"})
<1>1. CASE CheckRemove
  BY <1>1, QueueFacts DEF CheckRemove, Batch, Operation, BridgeTypes
<1>2. CASE TakePartyCommand
  BY <1>2, QueueFacts DEF TakePartyCommand, Operation, AddonCommands, BridgeTypes
<1> QED BY <1>1, <1>2 DEF Checks

\* While a request is between its checks and its being carried out, the state
\* it was checked against stays: no other callback runs.
LEMMA CheckedStep ==
  ASSUME BridgeTypes, PublishedInv, OrderInv, SpentInv, CheckedInv, [Next]_vars
  PROVE  CheckedInv'
<1>1. CASE Checks
  <2>1. /\ gpc \in {"idle", "batch"} /\ party' = party /\ published' = published /\ done' = done
    BY <1>1 DEF Checks, CheckRemove, Batch, TakePartyCommand, storevars, histvars
  <2>2. PICK c \in Commands, next \in {"remove", "addon"} :
           /\ Check(c, next) /\ IsRequest(c)
           /\ c.payload.kind \in (IF next = "remove" THEN {"remove"} ELSE {"promote", "leave"})
    BY <1>1, ChecksCommand
  <2>3. CASE UNCHANGED <<checked, gpc>>
    BY <2>1, <2>3 DEF CheckedInv, Checking
  <2>4. CASE /\ Accepted(c.payload) /\ Prepare(c.payload)
             /\ checked'.command = c /\ checked'.guid = Target(c.payload) /\ gpc' = next
    <3> DEFINE r == c.payload
    <3>1. /\ party \in published /\ r.generation = party.generation /\ party.generation \in Nat
          /\ IF r.kind = "leave" THEN MayLeave(party) ELSE MayManage(party)
      BY <2>4, ValidFacts DEF Accepted
    <3>2. requestGeneration' = r.generation /\ r.id \in partyRequests' /\ r.id \notin Spent(r)
      BY <2>4, PrepareFacts
    <3>3. requestGeneration \in Nat /\ requestGeneration <= requestGeneration'
      BY <2>4, PrepareFacts DEF BridgeTypes
    <3>4. ASSUME NEW d \in done, d.request.id = r.id, d.request.generation = r.generation
          PROVE  FALSE
      <4>1. d.request.generation = requestGeneration
        BY <3>1, <3>2, <3>3, <3>4 DEF SpentInv
      <4>2. d.request.id \in Spent(r)
        BY <3>4, <4>1 DEF SpentInv, Spent
      <4> QED BY <3>2, <3>4, <4>2
    <3>5. r.kind # "leave" => checked'.guid = party.members[r.slot]
      BY <2>4 DEF Target
    <3>6. r.kind \in (IF gpc' = "remove" THEN {"remove"} ELSE {"promote", "leave"})
      BY <2>2, <2>4
    <3> QED BY <2>1, <2>4, <3>1, <3>2, <3>4, <3>5, <3>6 DEF CheckedInv, MayLeave, MayManage
  <2> QED BY <2>2, <2>3, <2>4, CheckFacts
<1>2. CASE NetworkStep
  BY <1>2 DEF NetworkStep, nativevars, storevars, histvars, CheckedInv, Checking, MayLeave, MayManage
<1>3. CASE UNCHANGED vars
  BY <1>3 DEF vars, nativevars, storevars, histvars, CheckedInv, Checking, MayLeave, MayManage
<1>4. CASE ~Checks /\ ~NetworkStep /\ ~UNCHANGED vars
  <2>1. gpc' \in {"idle", "batch"}
    BY <1>4 DEF Checks, Next, PublishParty, PublishSnapshot, WorldEnter, WorldLeave, Loading,
           LeavingWorld, Reload, ClientGroupChanges, OnUpdate, Remove, Forward, Input, DoReleaseAll,
           BatchEnd, Tick, Batch
  <2> QED BY <2>1 DEF CheckedInv, Checking
<1> QED BY <1>1, <1>2, <1>3, <1>4

\* What is carried out is recorded as it was checked, for a session that was
\* not over.
LEMMA CarryFacts ==
  ASSUME BridgeTypes, SessionInv, Checking, NEW player, Carry(player)
  PROVE  \A d \in done' :
           \/ d \in done
           \/ /\ d.request = checked.command.payload /\ d.player = player
              /\ d.group = live /\ ~d.over
<1>1. since \in Nat /\ checked.command.session \in Nat /\ since <= checked.command.session
  BY DEF BridgeTypes, SessionInv
<1> DEFINE e == [request |-> checked.command.payload, player |-> player,
                 over |-> checked.command.session < since,
                 group |-> live]
<1>2. done' = done \cup {e}
  BY DEF Carry
<1>3. ~(checked.command.session < since)
  BY <1>1
<1>4. ~e.over
  BY <1>3, Zenon
<1> QED BY <1>2, <1>4

\* No session is served that was over when the callback began.
LEMMA SessionStep ==
  ASSUME BridgeTypes, PublishedInv, OrderInv, SessionInv, [Next]_vars
  PROVE  SessionInv'
<1>t. session \in Nat /\ since \in Nat /\ session' \in Nat
  BY BridgeTypesStep DEF BridgeTypes, SLTypeOK
<1>1. session <= session'
  <2>1. [SLNext]_slvars
    BY BridgeStepOfLayer
  <2> QED BY <1>t, <2>1 DEF SLNext, Network, slvars, Activate, Receive, EndSession, Disconnect,
                            Release, TakeAll
<1>2. CASE Checks
  <2>1. /\ session' = session /\ done' = done /\ gpc \in {"idle", "batch"}
        /\ CheckRemove => since' = since
        /\ TakePartyCommand => since' = IF gpc' = "addon" THEN session ELSE 0
    BY <1>2 DEF Checks, CheckRemove, Batch, TakePartyCommand, slvars, histvars
  <2>2. since' <= session' /\ (Checking' => since' <= session)
    BY <1>2, <1>t, <2>1 DEF SessionInv, Checks
  <2>3. Checking' => checked'.command.session = session
    <3>1. PICK c, next : Check(c, next)
      BY <1>2 DEF Checks, CheckRemove, TakePartyCommand
    <3> QED BY <2>1, <3>1, CheckFacts DEF Live, Checking
  <2> QED BY <1>t, <2>1, <2>2, <2>3 DEF SessionInv, DeadSessionsAreNotServed
<1>3. CASE Remove \/ Tick
  <2>1. Checking /\ ~Checking'
    BY <1>3 DEF Checking, Remove, Tick
  <2>2. session' = session /\ (since' = since \/ since' = 0)
    BY <1>3 DEF Remove, Tick, slvars
  <2>3. done' = done \/ \E player : Carry(player)
    BY <1>3 DEF Remove, Tick
  <2>4. DeadSessionsAreNotServed'
    BY <2>1, <2>3, CarryFacts DEF SessionInv, DeadSessionsAreNotServed
  <2> QED BY <1>t, <2>1, <2>2, <2>4 DEF SessionInv
<1>4. CASE ~Checks /\ ~(Remove \/ Tick)
  <2>1. /\ done' = done
        /\ since' = since \/ since' = 0 \/ since' = session
        /\ ~Checking' \/ (checked' = checked /\ gpc' = gpc /\ since' = since)
    BY <1>4 DEF Checks, Checking, Next, vars, nativevars, histvars, slvars, NetworkStep, PublishParty,
           PublishSnapshot, WorldEnter, WorldLeave, Loading, LeavingWorld, Reload,
           ClientGroupChanges, OnUpdate, Forward, Input, DoReleaseAll, BatchEnd, TakeAll, Batch
  <2>2. since' <= session'
    BY <1>t, <1>1, <2>1 DEF SessionInv
  <2> QED BY <1>t, <2>1, <2>2 DEF SessionInv, DeadSessionsAreNotServed, Checking
<1> QED BY <1>2, <1>3, <1>4

\* What is published stays published.
LEMMA PublishedGrows ==
  ASSUME [Next]_vars, BridgeTypes, PublishedInv, OrderInv
  PROVE  published \subseteq published'
<1>1. CASE PublishParty \/ PublishSnapshot \/ Tick
  BY <1>1, PublishedFacts DEF Published, Store
<1>2. CASE ~(PublishParty \/ PublishSnapshot \/ Tick)
  <2>1. published' = published
    BY <1>2 DEF Next, vars, histvars, NetworkStep, WorldEnter, WorldLeave, Loading, LeavingWorld,
           Reload, ClientGroupChanges, OnUpdate, CheckRemove, Remove, Forward, Input, DoReleaseAll,
           BatchEnd, TakePartyCommand
  <2> QED BY <2>1
<1> QED BY <1>1, <1>2

\* Players are those the companion was shown, and the group that the add-on
\* acts in is the one published under the generation of the request.
LEMMA DoneStep ==
  ASSUME BridgeTypes, PublishedInv, OrderInv, CheckedInv, SessionInv, DoneInv, [Next]_vars
  PROVE  DoneInv'
<1> DEFINE r == checked.command.payload
<1>p. published \subseteq published'
  BY PublishedGrows
<1>a. \A p \in published : p \in published'
  BY <1>p
<1>1. ASSUME \/ done' = done
             \/ /\ Checking
                /\ \E player :
                     /\ Carry(player)
                     /\ r.kind # "leave" => player = party.members[r.slot]
                     /\ r.kind \in {"promote", "leave"} => PartyState(live, r.generation) \in published
      PROVE  DoneInv'
  <2>1. CASE done' = done
    BY <1>a, <2>1 DEF DoneInv, ActsOnWhatWasShown, AddonActsInTheGroupShown, MayLeave, MayManage
  <2>2. CASE done' # done
    <3>1. PICK player :
            /\ Carry(player)
            /\ r.kind # "leave" => player = party.members[r.slot]
            /\ r.kind \in {"promote", "leave"} => PartyState(live, r.generation) \in published
      BY <1>1, <2>2
    <3>2. \A d \in done' :
           \/ d \in done
           \/ d.request = r /\ d.player = player /\ d.group = live
      BY <1>1, <2>2, <3>1, CarryFacts
    <3>3. /\ party \in published' /\ party.generation = r.generation
          /\ IF r.kind = "leave" THEN MayLeave(party) ELSE MayManage(party)
      BY <1>1, <1>a, <2>2 DEF CheckedInv
    <3>4. ASSUME NEW d \in done'
          PROVE  \E p \in published' :
                   /\ p.generation = d.request.generation
                   /\ IF d.request.kind = "leave" THEN MayLeave(p)
                      ELSE MayManage(p) /\ p.members[d.request.slot] = d.player
      <4>1. CASE d \in done
        BY <1>a, <4>1 DEF DoneInv, ActsOnWhatWasShown
      <4>2. CASE d.request = r /\ d.player = player
        BY <3>1, <3>3, <4>2
      <4> QED BY <3>2, <4>1, <4>2
    <3>5. ASSUME NEW d \in done', d.request.kind \in {"promote", "leave"}
          PROVE  PartyState(d.group, d.request.generation) \in published'
      <4>1. CASE d \in done
        BY <1>a, <3>5, <4>1 DEF DoneInv, AddonActsInTheGroupShown
      <4>2. CASE d.request = r /\ d.group = live
        BY <1>a, <3>1, <3>5, <4>2
      <4> QED BY <3>2, <4>1, <4>2
    <3>6. ActsOnWhatWasShown'
      BY <3>4 DEF ActsOnWhatWasShown, MayLeave, MayManage
    <3> QED BY <3>5, <3>6 DEF DoneInv, AddonActsInTheGroupShown
  <2> QED BY <2>1, <2>2
<1>2. CASE Remove
  <2>1. Checking /\ r.kind = "remove"
    BY <1>2 DEF Remove, Checking, CheckedInv
  <2>2. done' = done \/ Carry(party.members[r.slot])
    BY <1>2 DEF Remove
  <2> QED BY <1>1, <2>1, <2>2
<1>3. CASE Tick
  <2>1. /\ Checking /\ r.kind \in {"promote", "leave"}
        /\ r.kind # "leave" => checked.guid = party.members[r.slot]
    BY <1>3 DEF Tick, Checking, CheckedInv
  <2>2. CASE done' # done
    <3> DEFINE player == IF r.kind = "leave" THEN Nobody ELSE live.roster[r.slot]
    <3>1. Confirmed(r, checked.guid) /\ Carry(player)
      BY <1>3, <2>2 DEF Tick
    <3>2. /\ r.kind # "leave" => live.roster[r.slot] = checked.guid
          /\ r.generation = CurrentGeneration(NextPartyGeneration)
      BY <2>1, <3>1 DEF Confirmed
    <3>3. State
      BY <1>3 DEF Tick, PublishPartyEffect
    <3>4. PartyState(live, r.generation) \in published
      <4>1. party \in published /\ party.generation = r.generation
        BY <2>1 DEF CheckedInv
      <4>2. generation' = r.generation
        BY <3>2, <3>3 DEF State, ReadState
      <4>3. PartyState(live, r.generation) = Stamped' /\ party = Stamped'
        BY <3>2, <3>3, <4>1, <4>2, StateFacts
      <4> QED BY <4>1, <4>3
    <3>5. r.kind # "leave" => player = party.members[r.slot]
      BY <2>1, <3>2
    <3> QED BY <1>1, <2>1, <3>1, <3>4, <3>5
  <2> QED BY <1>1, <2>2
<1>4. CASE ~Remove /\ ~Tick
  <2>1. done' = done
    BY <1>4 DEF Next, vars, histvars, NetworkStep, PublishParty, PublishSnapshot, WorldEnter,
           WorldLeave, Loading, LeavingWorld, Reload, ClientGroupChanges, OnUpdate, CheckRemove,
           Forward, Input, DoReleaseAll, BatchEnd, TakePartyCommand
  <2> QED BY <1>1, <2>1
<1> QED BY <1>2, <1>3, <1>4

-----------------------------------------------------------------------------
LEMMA BridgeInit == Init => BridgeInv
<1> SUFFICES ASSUME Init PROVE BridgeInv
  OBVIOUS
<1>1. BridgeTypes
  <2>1. SLTypeOK
    BY SLInitInv DEF Init, SLInv
  <2> QED BY <2>1 DEF Init, PMInit, BridgeTypes
<1>2. PublishedInv
  BY DEF Init, PMInit, PublishedInv, GenerationNamesOneGroup
<1>3. OrderInv
  BY DEF Init, PMInit, OrderInv, EmptyParty
<1>4. SpentInv /\ CheckedInv /\ DoneInv
  BY DEF Init, SpentInv, CheckedInv, Checking, DoneInv, ActsOnWhatWasShown, AddonActsInTheGroupShown
<1>5. SessionInv
  BY DEF Init, SLInit, SessionInv, Checking, DeadSessionsAreNotServed
<1> QED BY <1>1, <1>2, <1>3, <1>4, <1>5 DEF BridgeInv

LEMMA BridgeStep == BridgeInv /\ [Next]_vars => BridgeInv'
BY BridgeTypesStep, PublishedStep, OrderStep, SpentStep, CheckedStep, SessionStep, DoneStep
DEF BridgeInv

THEOREM BridgeInvariant == Spec => []BridgeInv
BY BridgeInit, BridgeStep, PTL DEF Spec

-----------------------------------------------------------------------------
\* A generation stands for one group, for all time (GenerationNamesOneGroup).
THEOREM GenerationsNameGroups == Spec => []GenerationNamesOneGroup
<1>1. BridgeInv => GenerationNamesOneGroup
  BY DEF BridgeInv, PublishedInv
<1> QED BY <1>1, BridgeInvariant, PTL

\* Requests hit the player the companion was shown (ActsOnWhatWasShown).
THEOREM ShownPlayersAreHit == Spec => []ActsOnWhatWasShown
<1>1. BridgeInv => ActsOnWhatWasShown
  BY DEF BridgeInv, DoneInv
<1> QED BY <1>1, BridgeInvariant, PTL

\* The add-on acts in the group the companion was shown
\* (AddonActsInTheGroupShown).
THEOREM AddonActsWhereShown == Spec => []AddonActsInTheGroupShown
<1>1. BridgeInv => AddonActsInTheGroupShown
  BY DEF BridgeInv, DoneInv
<1> QED BY <1>1, BridgeInvariant, PTL

\* No request ID is carried out twice in a generation
\* (RequestsAreCarriedOutOnce).
THEOREM RequestsAreNotRepeated == Spec => []RequestsAreCarriedOutOnce
<1>1. BridgeInv => RequestsAreCarriedOutOnce
  BY DEF BridgeInv, SpentInv, RequestsAreCarriedOutOnce
<1> QED BY <1>1, BridgeInvariant, PTL

\* Nothing is carried out for a session that was over when the callback began
\* (DeadSessionsAreNotServed).
THEOREM DeadSessionsGetNothing == Spec => []DeadSessionsAreNotServed
<1>1. BridgeInv => DeadSessionsAreNotServed
  BY DEF BridgeInv, SessionInv
<1> QED BY <1>1, BridgeInvariant, PTL
=============================================================================
