------------------------------ MODULE WcsBridge ------------------------------
(***************************************************************************)
(* Party management from the companion's request to the client's group     *)
(* (WcsBridge.cpp, the party half of StateStore, PartyManagement.lua).     *)
(*                                                                         *)
(* Requests arrive through SessionLayer, whose steps interleave with the   *)
(* game thread's.  OnUpdate works off one batch of commands: a removal is  *)
(* carried out natively, a promotion or a departure waits in partyCommands *)
(* until the add-on's Tick takes it.  gpc is the game thread:              *)
(*   "idle"   in none of the callbacks below                               *)
(*   "batch"  OnUpdate, going through pending                              *)
(*   "remove" OnUpdate, between the checks of a removal and the removal    *)
(*   "addon"  Tick, between TakePartyCommand and the stock call            *)
(* activePartyRequest_ is the request in `checked`; what the companion is  *)
(* told (party.result) is left out.                                        *)
(* A request is [kind, slot, generation, id]; kind "input" stands for all  *)
(* commands that have nothing to do with the party.                        *)
(***************************************************************************)
EXTENDS SessionLayer, PartyManagement, FiniteSets

CONSTANTS PartyQueue,     \* capacity of partyCommands_ (256)
          RequestIds,     \* capacity of partyRequests_ (4096)
          Generations     \* bound: the generations explored

ASSUME WcsBridgeAssumption ==
  /\ PartyQueue \in Nat /\ RequestIds \in Nat
  /\ Generations \subseteq Nat \ {0}
  /\ \A p \in Payload : p.kind \in {"remove", "promote", "leave", "input"}

VARIABLES
  gpc, pending,       \* OnUpdate's batch
  partyCommands,      \* partyCommands_: for the add-on
  checked,            \* the request that has passed its checks, with its GUID
  requestGeneration,  \* requestGeneration_
  partyRequests,      \* partyRequests_: request IDs spent in that generation
  partyGeneration,    \* partyGeneration_: the last one handed out
  inWorld,            \* StateStore: gameState_ = "world"
  party,              \* StateStore: party_
  \* history, for the properties only
  published,          \* every party state that was ever published
  done,               \* the requests carried out, on whom and in which live group
  repeated,           \* a request ID was carried out twice in one generation
  since               \* the session when the callback under way began, 0 for none

nativevars == <<partyCommands, checked, requestGeneration, partyRequests>>
storevars == <<inWorld, party>>
histvars == <<published, done, repeated, since>>
vars == <<slvars, live, addonvars, gpc, pending, nativevars, partyGeneration,
          storevars, histvars>>

None == [kind |-> "none"]

Operation(c) == c.payload.kind

-----------------------------------------------------------------------------
Init ==
  /\ SLInit /\ PMInit
  /\ gpc = "idle" /\ pending = <<>> /\ partyCommands = <<>> /\ checked = None
  /\ requestGeneration = 0 /\ partyRequests = {} /\ partyGeneration = 0
  /\ inWorld = FALSE /\ party = EmptyParty
  /\ published = {} /\ done = {} /\ repeated = FALSE /\ since = 0

-----------------------------------------------------------------------------
(* Publishing, by the add-on, of what it reads in the live group.          *)

\* NextPartyGeneration: the counter outlives every Lua state.
NextPartyGeneration == partyGeneration + 1

\* Management:State.  The result is PartyState(live, generation').
State ==
  /\ Renewed => NextPartyGeneration \in Generations
  /\ ReadState(NextPartyGeneration)
  /\ partyGeneration' = IF Renewed THEN NextPartyGeneration ELSE partyGeneration

\* The party state reaches StateStore.
Store(p) == party' = p /\ lastParty' = p /\ published' = published \cup {p}

\* Bridge:PublishParty, which keeps what has not changed to itself.
PublishPartyEffect ==
  /\ State
  /\ LET p == PartyState(live, CurrentGeneration(NextPartyGeneration))
     IN IF p = lastParty THEN UNCHANGED <<party, lastParty, published>> ELSE Store(p)

PublishParty ==
  /\ gpc = "idle"
  /\ PublishPartyEffect
  /\ UNCHANGED <<slvars, live, gpc, pending, nativevars, inWorld, done, repeated, since>>

\* Bridge:PublishSnapshot, also lifecycle evidence for the store.
PublishSnapshot ==
  /\ gpc = "idle"
  /\ State
  /\ Store(PartyState(live, CurrentGeneration(NextPartyGeneration)))
  /\ inWorld' = TRUE
  /\ UNCHANGED <<slvars, live, gpc, pending, nativevars, done, repeated, since>>

-----------------------------------------------------------------------------
(* The world comes and goes.                                               *)

WorldEnter ==
  /\ gpc = "idle" /\ ~inWorld
  /\ inWorld' = TRUE
  /\ UNCHANGED <<slvars, live, addonvars, gpc, pending, nativevars, partyGeneration,
                 party, histvars>>

\* OnWorldLeave clears the world state and what waits for the add-on.
WorldLeave ==
  /\ gpc = "idle"
  /\ inWorld' = FALSE /\ party' = EmptyParty /\ partyCommands' = <<>>
  /\ UNCHANGED <<slvars, live, addonvars, gpc, pending, checked, requestGeneration,
                 partyRequests, partyGeneration, histvars>>

\* OnLoading changes the game state only.
Loading ==
  /\ gpc = "idle" /\ inWorld
  /\ inWorld' = FALSE
  /\ UNCHANGED <<slvars, live, addonvars, gpc, pending, nativevars, partyGeneration,
                 party, histvars>>

LeavingWorld ==
  /\ gpc = "idle"
  /\ Invalidate
  /\ UNCHANGED <<slvars, gpc, pending, nativevars, partyGeneration, storevars, histvars>>

\* A new Lua state: RegisterLua clears the world state, the add-on starts anew.
Reload ==
  /\ gpc = "idle"
  /\ party' = EmptyParty
  /\ signature' = NoSignature /\ generation' = 0 /\ lastParty' = EmptyParty
  /\ UNCHANGED <<slvars, live, gpc, pending, nativevars, partyGeneration, inWorld, histvars>>

ClientGroupChanges ==
  /\ gpc = "idle"
  /\ \E l \in Situations : GroupChanges(l)
  /\ UNCHANGED <<slvars, gpc, pending, nativevars, partyGeneration, storevars, histvars>>

-----------------------------------------------------------------------------
(* Carrying requests out.                                                  *)

\* Faulty: the generation is not compared.
FaultyValid(r) ==
  /\ inWorld
  /\ \/ r.kind = "leave" /\ MayLeave(party)
     \/ r.kind \in {"remove", "promote"} /\ MayManage(party) /\ party.members[r.slot] # Nobody

\* ValidatePartyCommand: the request names the generation that is published,
\* and what is published allows it.
Valid(r) ==
  /\ inWorld /\ r.generation = party.generation
  /\ \/ r.kind = "leave" /\ MayLeave(party)
     \/ r.kind \in {"remove", "promote"} /\ MayManage(party) /\ party.members[r.slot] # Nobody

\* The request IDs spent in the generation of the request.
Spent(r) == IF requestGeneration = r.generation THEN partyRequests ELSE {}

\* PreparePartyCommand succeeds.
Accepted(r) == Valid(r) /\ Cardinality(Spent(r)) < RequestIds /\ r.id \notin Spent(r)

\* PreparePartyCommand, whether it succeeds or not.
Prepare(r) ==
  IF Valid(r)
  THEN /\ requestGeneration' = r.generation
       /\ partyRequests' = IF Accepted(r) THEN Spent(r) \cup {r.id} ELSE Spent(r)
  ELSE UNCHANGED <<requestGeneration, partyRequests>>

\* Faulty: whoever is connected now will do.
FaultyLive(c) == Connected

\* Connected() && command.session == Session().
Live(c) == Connected /\ c.session = session

Target(r) == IF r.kind = "leave" THEN Nobody ELSE party.members[r.slot]

\* A live request goes through PreparePartyCommand and on to `next`.
Check(c, next) ==
  IF Live(c) /\ Accepted(c.payload)
  THEN /\ Prepare(c.payload)
       /\ checked' = [command |-> c, guid |-> Target(c.payload)]
       /\ gpc' = next
  ELSE /\ IF Live(c) THEN Prepare(c.payload) ELSE UNCHANGED <<requestGeneration, partyRequests>>
       /\ UNCHANGED <<checked, gpc>>

\* The checked request is carried out on `player`.
Carry(player) ==
  LET r == checked.command.payload
  IN /\ done' = done \cup {[request |-> r, player |-> player,
                             over |-> checked.command.session < since,
                             group |-> live]}
     /\ repeated' = (repeated \/ \E d \in done : d.request.id = r.id
                                              /\ d.request.generation = r.generation)

\* OnUpdate takes the queue.
OnUpdate ==
  /\ gpc = "idle" /\ commands # <<>>
  /\ TakeAll
  /\ pending' = commands /\ gpc' = "batch" /\ since' = session
  /\ UNCHANGED <<live, addonvars, nativevars, partyGeneration, storevars, published, done,
                 repeated>>

Popped == pending' = Tail(pending)

Batch(kinds) ==
  gpc = "batch" /\ pending # <<>> /\ IsRequest(Head(pending))
    /\ Operation(Head(pending)) \in kinds

\* A removal is checked here and now.
CheckRemove ==
  /\ Batch({"remove"})
  /\ Popped /\ Check(Head(pending), "remove")
  /\ UNCHANGED <<slvars, live, addonvars, partyCommands, partyGeneration, storevars, histvars>>

\* group::Remove, by the GUID the store has for the slot, unless the client
\* has no player object.
Remove ==
  /\ gpc = "remove"
  /\ \/ Carry(party.members[checked.command.payload.slot])
     \/ UNCHANGED <<done, repeated>>
  /\ checked' = None /\ gpc' = "batch"
  /\ UNCHANGED <<slvars, live, addonvars, pending, partyCommands, requestGeneration,
                 partyRequests, partyGeneration, storevars, published, since>>

\* Promotions and departures are left to the add-on, unless it lags behind.
Forward ==
  /\ Batch({"promote", "leave"})
  /\ Popped
  /\ partyCommands' = IF Len(partyCommands) < PartyQueue
                      THEN Append(partyCommands, Head(pending)) ELSE partyCommands
  /\ UNCHANGED <<slvars, live, addonvars, gpc, checked, requestGeneration, partyRequests,
                 partyGeneration, storevars, histvars>>

\* Input commands go to the InputDispatcher.
Input ==
  /\ Batch({"input"})
  /\ Popped
  /\ UNCHANGED <<slvars, live, addonvars, gpc, nativevars, partyGeneration, storevars, histvars>>

\* Faulty: the next session starts with no request IDs spent.
FaultyDoReleaseAll ==
  /\ gpc = "batch" /\ pending # <<>> /\ ~IsRequest(Head(pending))
  /\ Popped /\ partyCommands' = <<>> /\ partyRequests' = {}
  /\ UNCHANGED <<slvars, live, addonvars, gpc, checked, requestGeneration,
                 partyGeneration, storevars, histvars>>

\* ReleaseAll drops what waits for the add-on.
DoReleaseAll ==
  /\ gpc = "batch" /\ pending # <<>> /\ ~IsRequest(Head(pending))
  /\ Popped /\ partyCommands' = <<>>
  /\ UNCHANGED <<slvars, live, addonvars, gpc, checked, requestGeneration, partyRequests,
                 partyGeneration, storevars, histvars>>

BatchEnd ==
  /\ gpc = "batch" /\ pending = <<>>
  /\ gpc' = "idle" /\ since' = 0
  /\ UNCHANGED <<slvars, live, addonvars, pending, nativevars, partyGeneration, storevars,
                 published, done, repeated>>

\* Management:Tick, first half: TakePartyCommand hands out one request.
TakePartyCommand ==
  /\ gpc = "idle" /\ partyCommands # <<>>
  /\ partyCommands' = Tail(partyCommands)
  /\ Check(Head(partyCommands), "addon")
  /\ since' = IF gpc' = "addon" THEN session ELSE 0
  /\ UNCHANGED <<slvars, live, addonvars, pending, partyGeneration, storevars, published,
                 done, repeated>>

\* Faulty: that the live group allows it is enough.
FaultyConfirmed(r, guid) ==
  \/ r.kind = "leave" /\ CanLeave(live)
  \/ r.kind = "promote" /\ CanManage(live) /\ live.roster[r.slot] = guid

\* The add-on's own checks of the request against the live group.
Confirmed(r, guid) ==
  /\ r.generation = CurrentGeneration(NextPartyGeneration)
  /\ \/ r.kind = "leave" /\ CanLeave(live)
     \/ r.kind = "promote" /\ CanManage(live) /\ live.roster[r.slot] = guid

\* Management:Tick, second half: the stock call if the group still is the one
\* the companion saw, then PublishParty.
Tick ==
  /\ gpc = "addon"
  /\ LET r == checked.command.payload
     IN \/ /\ Confirmed(r, checked.guid)
           /\ Carry(IF r.kind = "leave" THEN Nobody ELSE live.roster[r.slot])
        \/ UNCHANGED <<done, repeated>>   \* not confirmed, or the call fails
  /\ PublishPartyEffect
  /\ checked' = None /\ gpc' = "idle" /\ since' = 0
  /\ UNCHANGED <<slvars, live, pending, partyCommands, requestGeneration, partyRequests,
                 inWorld>>

-----------------------------------------------------------------------------
\* A companion names generations it has been shown.
Companion(p) == p.kind # "input" => \E s \in published : s.generation = p.generation

NetworkStep ==
  /\ \/ Activate
     \/ \E p \in Payload : Companion(p) /\ Receive(p)
     \/ EndSession \/ Disconnect \/ Release
  /\ UNCHANGED <<live, addonvars, gpc, pending, nativevars, partyGeneration, storevars, histvars>>

Next ==
  \/ NetworkStep
  \/ PublishParty \/ PublishSnapshot
  \/ WorldEnter \/ WorldLeave \/ Loading \/ LeavingWorld \/ Reload \/ ClientGroupChanges
  \/ OnUpdate \/ CheckRemove \/ Remove \/ Forward \/ Input \/ DoReleaseAll \/ BatchEnd
  \/ TakePartyCommand \/ Tick

Spec == Init /\ [][Next]_vars

-----------------------------------------------------------------------------
\* One generation never stands for two groups, whatever reloads, loading
\* screens and changes unseen by the add-on lie between: what a companion
\* confirms by naming a generation is exactly what it was shown.
GenerationNamesOneGroup ==
  \A p, q \in published : p.generation = q.generation => p = q

\* Every removal or promotion hits the player the companion was shown in that
\* slot, in a group it was shown it may manage.
ActsOnWhatWasShown ==
  \A d \in done :
    \E p \in published :
      /\ p.generation = d.request.generation
      /\ IF d.request.kind = "leave" THEN MayLeave(p)
         ELSE MayManage(p) /\ p.members[d.request.slot] = d.player

\* README.md: "duplicate request IDs are rejected within a generation".  Across
\* sessions, reloads and the two ways of carrying requests out, no request ID
\* is carried out twice in one generation.
RequestsAreCarriedOutOnce == ~repeated

\* README.md: "Requests from disconnected sessions are discarded".  When a
\* callback carries a request out, the session it came from was not over when
\* the callback began; also if the ReleaseAll of that session's end was refused
\* by a full queue, or another session has begun since.
DeadSessionsAreNotServed == \A d \in done : ~d.over

\* The add-on promotes and departs in the very group the companion was shown:
\* kind, leadership and all members.  However the group changed while the
\* request was sent, queued, held over a reload or a loading screen and checked,
\* the player leaves no other group than the one the companion meant.
AddonActsInTheGroupShown ==
  \A d \in done : d.request.kind \in {"promote", "leave"} =>
    PartyState(d.group, d.request.generation) \in published

\* README.md: "The bounded native queue executes management on the game thread
\* after rechecking live identity, generation and permissions": a removal is
\* carried out only if the live group allows it, on that player.
RemovalFollowsLiveGroup ==
  \A d \in done : d.request.kind = "remove" =>
    CanManage(d.group) /\ d.group.roster[d.request.slot] = d.player
=============================================================================
