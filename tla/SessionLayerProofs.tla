------------------------- MODULE SessionLayerProofs --------------------------
(***************************************************************************)
(* SessionLayer for every queue size, payload and number of sessions: its  *)
(* type invariant, QueuedRequestIsLive and ReleaseBetweenSessions.         *)
(***************************************************************************)
EXTENDS SessionLayer, TLAPS

\* What Enqueue does to a queue: it leaves it alone if it is full, and adds one
\* command at its end otherwise.  (WcsBridge::Enqueue.)
LEMMA EnqueueFacts ==
  ASSUME NEW q \in Seq(Commands), NEW c \in Commands, Len(q) <= MaxCommands
  PROVE  /\ Enqueue(q, c) \in Seq(Commands)
         /\ Len(Enqueue(q, c)) <= MaxCommands
         /\ Len(Enqueue(q, c)) >= Len(q)
         /\ \A i \in 1..Len(q) : Enqueue(q, c)[i] = q[i]
         /\ \/ Enqueue(q, c) = q /\ Len(q) >= MaxCommands
            \/ Len(Enqueue(q, c)) = Len(q) + 1 /\ Enqueue(q, c)[Len(q) + 1] = c
<1> MaxCommands \in Nat BY SessionLayerAssumption
<1> QED BY DEF Enqueue

\* Every step keeps the types.  (session_, connected_ and commands_ together.)
LEMMA SLTypeStep == SLTypeOK /\ [SLNext]_slvars => SLTypeOK'
<1> SUFFICES ASSUME SLTypeOK, [SLNext]_slvars PROVE SLTypeOK'
  OBVIOUS
<1> USE SessionLayerAssumption DEF SLTypeOK, Links
<1>1. CASE Activate
  BY <1>1 DEF Activate
<1>2. ASSUME NEW p \in Payload, Receive(p) PROVE SLTypeOK'
  <2>1. Request(session, p) \in Commands
    BY DEF Request, Commands
  <2> QED BY <1>2, <2>1, EnqueueFacts DEF Receive
<1>3. CASE EndSession
  BY <1>3 DEF EndSession
<1>4. CASE Disconnect
  BY <1>4 DEF Disconnect
<1>5. CASE Release
  <2>1. ReleaseAll \in Commands
    BY DEF Commands
  <2> QED BY <1>5, <2>1, EnqueueFacts DEF Release
<1>6. CASE TakeAll
  BY <1>6 DEF TakeAll
<1>7. CASE UNCHANGED slvars
  BY <1>7 DEF slvars
<1> QED BY <1>1, <1>2, <1>3, <1>4, <1>5, <1>6, <1>7 DEF SLNext, Network
-----------------------------------------------------------------------------
\* The commands of the session that is up, or has just been ended without its
\* ReleaseAll queued yet.
Open(c) ==
  \/ link = "up" /\ c.session = session
  \/ link \in {"closing", "releasing"} /\ c.session + 1 = session

\* Nothing can be queued after what a session left behind before a ReleaseAll
\* is: either one follows it already, or the queue is full and only TakeAll,
\* which empties it, will make room.
LeftoversAreFollowed ==
  \A i \in 1..Len(commands) :
    IsRequest(commands[i]) =>
      \/ Open(commands[i])
      \/ Len(commands) >= MaxCommands
      \/ \E k \in i..Len(commands) : ~IsRequest(commands[k])

\* No request is from a session that has not begun.
RequestsArePast ==
  \A i \in 1..Len(commands) :
    IsRequest(commands[i]) => commands[i].session <= session

\* The inductive invariant.
SLInv ==
  /\ SLTypeOK
  /\ RequestsArePast
  /\ QueuedRequestIsLive
  /\ LeftoversAreFollowed
  /\ ReleaseBetweenSessions

LEMMA SLInitInv == SLInit => SLInv
BY SessionLayerAssumption
DEF SLInit, SLInv, SLTypeOK, Links, RequestsArePast, QueuedRequestIsLive,
    LeftoversAreFollowed, ReleaseBetweenSessions

\* A request is a request of its own session, a ReleaseAll is none.
LEMMA KindFacts ==
  /\ \A s, p : IsRequest(Request(s, p)) /\ Request(s, p).session = s
  /\ ~IsRequest(ReleaseAll)
BY DEF IsRequest, Request, ReleaseAll

\* A request that is queued by the session that is up.
LEMMA ReceiveStep ==
  ASSUME SLInv, NEW p \in Payload, Receive(p)
  PROVE  SLInv'
<1> DEFINE c == Request(session, p)
<1>1. SLTypeOK'
  BY SLTypeStep DEF SLInv, SLNext, Network
<1>2. /\ link = "up" /\ link' = link /\ session' = session
      /\ session \in Nat /\ commands \in Seq(Commands) /\ commands' \in Seq(Commands)
      /\ Len(commands) <= MaxCommands /\ MaxCommands \in Nat
  BY <1>1, SessionLayerAssumption DEF Receive, SLInv, SLTypeOK
<1>3. IsRequest(c) /\ c.session = session
  BY KindFacts
<1>4. CASE commands' = commands
  BY <1>1, <1>2, <1>4
  DEF SLInv, RequestsArePast, QueuedRequestIsLive, LeftoversAreFollowed,
      ReleaseBetweenSessions, Open
<1>5. CASE commands' = Append(commands, c) /\ Len(commands) < MaxCommands
  <2>1. /\ Len(commands') = Len(commands) + 1
        /\ \A i \in 1..Len(commands) : commands'[i] = commands[i]
        /\ commands'[Len(commands) + 1] = c
    BY <1>2, <1>5
  <2>2. \A i \in 1..Len(commands') : i \in 1..Len(commands) \/ i = Len(commands) + 1
    BY <1>2, <2>1
  <2>3. RequestsArePast'
    BY <1>2, <1>3, <2>1, <2>2 DEF SLInv, RequestsArePast
  <2>4. QueuedRequestIsLive'
    BY <1>2 DEF QueuedRequestIsLive
  <2>5. \A i \in 1..Len(commands) :
          IsRequest(commands[i]) /\ commands[i].session # session
            => \E k \in i..Len(commands) : ~IsRequest(commands[k])
    BY <1>2, <1>5 DEF SLInv, LeftoversAreFollowed, Open
  <2>6. LeftoversAreFollowed'
    <3> SUFFICES ASSUME NEW i \in 1..Len(commands'), IsRequest(commands'[i]),
                        commands'[i].session # session
                 PROVE  \E k \in i..Len(commands') : ~IsRequest(commands'[k])
      BY <1>2 DEF LeftoversAreFollowed, Open
    <3>1. i \in 1..Len(commands)
      BY <1>3, <2>1, <2>2
    <3>2. PICK k \in i..Len(commands) : ~IsRequest(commands[k])
      BY <2>1, <2>5, <3>1
    <3> QED BY <1>2, <2>1, <3>1, <3>2
  <2>7. ReleaseBetweenSessions'
    <3> SUFFICES ASSUME NEW i \in 1..Len(commands'), NEW j \in 1..Len(commands'), i < j,
                        IsRequest(commands'[i]), IsRequest(commands'[j]),
                        commands'[i].session # commands'[j].session
                 PROVE  \E k \in i..j : ~IsRequest(commands'[k])
      BY DEF ReleaseBetweenSessions
    <3>1. i \in 1..Len(commands)
      BY <1>2, <2>1, <2>2
    <3>2. CASE j \in 1..Len(commands)
      <4>1. PICK k \in i..j : ~IsRequest(commands[k])
        BY <2>1, <3>1, <3>2 DEF SLInv, ReleaseBetweenSessions
      <4> QED BY <1>2, <2>1, <3>1, <3>2, <4>1
    <3>3. CASE j = Len(commands) + 1
      <4>1. PICK k \in i..Len(commands) : ~IsRequest(commands[k])
        BY <1>3, <2>1, <2>5, <3>1, <3>3
      <4> QED BY <1>2, <2>1, <3>1, <3>3, <4>1
    <3> QED BY <2>2, <3>2, <3>3
  <2> QED BY <1>1, <2>3, <2>4, <2>6, <2>7 DEF SLInv
<1> QED BY <1>2, <1>4, <1>5 DEF Receive, Enqueue

\* The ReleaseAll of a session's end.
LEMMA ReleaseStep ==
  ASSUME SLInv, Release
  PROVE  SLInv'
<1>1. SLTypeOK'
  BY SLTypeStep DEF SLInv, SLNext, Network
<1>2. /\ link = "releasing" /\ link' = "down" /\ session' = session
      /\ session \in Nat /\ commands \in Seq(Commands) /\ commands' \in Seq(Commands)
      /\ Len(commands) <= MaxCommands /\ MaxCommands \in Nat
  BY <1>1, SessionLayerAssumption DEF Release, SLInv, SLTypeOK
<1>3. \A i \in 1..Len(commands) : ~(IsRequest(commands[i]) /\ commands[i].session = session)
  BY <1>2 DEF SLInv, QueuedRequestIsLive
<1>4. CASE commands' = commands /\ Len(commands) >= MaxCommands
  BY <1>1, <1>2, <1>3, <1>4
  DEF SLInv, RequestsArePast, QueuedRequestIsLive, LeftoversAreFollowed,
      ReleaseBetweenSessions, Open
<1>5. CASE commands' = Append(commands, ReleaseAll)
  <2>1. /\ Len(commands') = Len(commands) + 1
        /\ \A i \in 1..Len(commands) : commands'[i] = commands[i]
        /\ ~IsRequest(commands'[Len(commands) + 1])
    BY <1>2, <1>5, KindFacts
  <2>2. \A i \in 1..Len(commands') :
          IsRequest(commands'[i]) => i \in 1..Len(commands)
    BY <1>2, <2>1
  <2>3. RequestsArePast' /\ QueuedRequestIsLive'
    BY <1>2, <1>3, <2>1, <2>2 DEF SLInv, RequestsArePast, QueuedRequestIsLive
  <2>4. LeftoversAreFollowed'
    BY <1>2, <2>1 DEF LeftoversAreFollowed
  <2>5. ReleaseBetweenSessions'
    <3> SUFFICES ASSUME NEW i \in 1..Len(commands'), NEW j \in 1..Len(commands'), i < j,
                        IsRequest(commands'[i]), IsRequest(commands'[j]),
                        commands'[i].session # commands'[j].session
                 PROVE  \E k \in i..j : ~IsRequest(commands'[k])
      BY DEF ReleaseBetweenSessions
    <3>1. i \in 1..Len(commands) /\ j \in 1..Len(commands)
      BY <2>2
    <3>2. PICK k \in i..j : ~IsRequest(commands[k])
      BY <2>1, <3>1 DEF SLInv, ReleaseBetweenSessions
    <3> QED BY <1>2, <2>1, <3>1, <3>2
  <2> QED BY <1>1, <2>3, <2>4, <2>5 DEF SLInv
<1> QED BY <1>2, <1>4, <1>5 DEF Release, Enqueue

\* Every step keeps the invariant.
LEMMA SLStep == SLInv /\ [SLNext]_slvars => SLInv'
<1> SUFFICES ASSUME SLInv, [SLNext]_slvars PROVE SLInv'
  OBVIOUS
<1>t. SLTypeOK /\ SLTypeOK'
  BY SLTypeStep DEF SLInv
<1> USE DEF SLInv, SLTypeOK, RequestsArePast, QueuedRequestIsLive,
            LeftoversAreFollowed, ReleaseBetweenSessions, Open
<1>1. CASE Activate
  BY <1>t, <1>1 DEF Activate
<1>2. ASSUME NEW p \in Payload, Receive(p) PROVE SLInv'
  BY <1>2, ReceiveStep
<1>3. CASE EndSession
  <2>1. /\ session' = session + 1 /\ commands' = commands /\ session \in Nat
        /\ \/ link = "up" /\ link' = "closing"
           \/ link = "down" /\ link' = "down"
    BY <1>t, <1>3 DEF EndSession
  <2>2. \A i \in 1..Len(commands) :
          IsRequest(commands[i]) => commands[i].session \in Nat
    BY <1>t DEF Commands, IsRequest, ReleaseAll
  <2>3. RequestsArePast' /\ QueuedRequestIsLive'
    BY <2>1, <2>2
  <2>4. LeftoversAreFollowed'
    BY <2>1, <2>2
  <2> QED BY <1>t, <2>1, <2>3, <2>4
<1>4. CASE Disconnect
  BY <1>t, <1>4 DEF Disconnect
<1>5. CASE Release
  BY <1>5, ReleaseStep
<1>6. CASE TakeAll
  BY <1>t, <1>6 DEF TakeAll
<1>7. CASE UNCHANGED slvars
  BY <1>t, <1>7 DEF slvars
<1> QED BY <1>1, <1>2, <1>3, <1>4, <1>5, <1>6, <1>7 DEF SLNext, Network

THEOREM SessionLayerInvariant == SLSpec => []SLInv
BY SLInitInv, SLStep, PTL DEF SLSpec

\* The types of the link and of the queue, which never exceeds its capacity.
THEOREM SessionLayerTypes == SLSpec => []SLTypeOK
BY SessionLayerInvariant, PTL DEF SLInv

\* The game thread's comparison with Session() tells the requests of the session
\* that is up from all others.
THEOREM RequestsAreLive == SLSpec => []QueuedRequestIsLive
BY SessionLayerInvariant, PTL DEF SLInv

\* A ReleaseAll stands between the commands of two sessions, also when the
\* ReleaseAll of a session's end was refused by a full queue.
THEOREM SessionsAreSeparated == SLSpec => []ReleaseBetweenSessions
BY SessionLayerInvariant, PTL DEF SLInv
=============================================================================
