------------------------ MODULE WebSocketServerProofs ------------------------
(***************************************************************************)
(* WebSocketServer for every capacity, set of topics and commands, number  *)
(* of sessions and of credentials: a revoked session is on its way out;    *)
(* the network thread implements SessionLayer, from which the properties   *)
(* of its command queue follow; a client converges to the state, and one   *)
(* message at most gets from one session into the next.                    *)
(***************************************************************************)
EXTENDS WebSocketServer, FiniteSetTheorems, SequenceTheorems, WellFoundedInduction, TLAPS

SLP == INSTANCE SessionLayerProofs WITH link <- Link, Sessions <- Nat

-----------------------------------------------------------------------------
(* Where the network thread stands and what that says of the client.       *)

Resumptions == {"select", "deadline", "revoked", "drain", "exit"}

\* connected_ says that a client is let in, except between the two steps of
\* closeClient that close the socket and clear the flag.
Control ==
  /\ npc \in NetworkSteps /\ resume \in Resumptions
  /\ client \in BOOLEAN /\ connected \in BOOLEAN
  /\ phase \in {"hello", "authentication", "active"}
  /\ connected => client \/ npc = "exchange"
  /\ client => npc \notin {"start", "exchange", "release", "clear", "reset", "exit", "stopped"}
  /\ client => (connected <=> phase = "active")
  /\ npc = "activate" => client /\ phase # "active"
  /\ npc = "snapshot" => client /\ phase = "active"

LEMMA ControlInit == Init => Control
BY DEF Init, Control, NetworkSteps, Resumptions

\* The calls of the game thread touch nothing that Control speaks of.
LEMMA GameKeepsControl ==
  Game => UNCHANGED <<npc, resume, client, phase, connected, session, authed>>
BY DEF Game, PublishEvent, PublishSnapshot, Lifecycle, SendResult, SendCheck, SendPush, Forget,
       DisconnectClient, TakeAll, Stop, StopDisconnect, Join, netvars

LEMMA ControlStep == Control /\ [Next]_vars => Control'
<1> SUFFICES ASSUME Control, [Next]_vars PROVE Control'
  OBVIOUS
<1> USE DEF Control, NetworkSteps, Resumptions, CloseTo, Reading
<1>1. CASE Listen
  BY <1>1 DEF Listen
<1>2. CASE ListenFails
  BY <1>2 DEF ListenFails
<1>3. CASE LeaveLoop
  BY <1>3 DEF LeaveLoop
<1>4. CASE Accept
  BY <1>4 DEF Accept
<1>5. CASE Selected
  BY <1>5 DEF Selected
<1>6. CASE Lost
  BY <1>6 DEF Lost
<1>7. CASE BadFrame
  BY <1>7 DEF BadFrame
<1>8. CASE FramesDone
  BY <1>8 DEF FramesDone
<1>9. CASE Hello
  BY <1>9 DEF Hello
<1>10. CASE Authenticate
  BY <1>10 DEF Authenticate
<1>11. CASE Pair
  BY <1>11 DEF Pair
<1>12. CASE Activate
  BY <1>12 DEF Activate
<1>13. CASE SendSnapshot
  BY <1>13 DEF SendSnapshot
<1>14. CASE StateRequest
  BY <1>14 DEF StateRequest
<1>15. CASE Deadline
  BY <1>15 DEF Deadline
<1>16. CASE Revoked
  BY <1>16 DEF Revoked
<1>17. CASE Drain
  BY <1>17 DEF Drain
<1>18. CASE CloseBegin
  BY <1>18 DEF CloseBegin
<1>19. CASE CloseExchange
  BY <1>19 DEF CloseExchange
<1>20. CASE CloseRelease
  BY <1>20 DEF CloseRelease
<1>21. CASE CloseClear
  BY <1>21 DEF CloseClear
<1>22. CASE CloseReset
  BY <1>22 DEF CloseReset
<1>23. CASE Exit
  BY <1>23 DEF Exit
<1>24. ASSUME NEW p \in Payload, Receive(p) PROVE Control'
  BY <1>24 DEF Receive
<1>25. CASE Game
  BY <1>25, GameKeepsControl
<1>26. CASE UNCHANGED vars
  BY <1>26 DEF vars, netvars
<1> QED
  BY <1>1, <1>2, <1>3, <1>4, <1>5, <1>6, <1>7, <1>8, <1>9, <1>10, <1>11,
     <1>12, <1>13, <1>14, <1>15, <1>16, <1>17, <1>18, <1>19, <1>20, <1>21,
     <1>22, <1>23, <1>24, <1>25, <1>26
  DEF Next, Network

\* The network thread's control, for any instance.
THEOREM ControlInvariant == Spec => []Control
BY ControlInit, ControlStep, PTL DEF Spec

\* Only closeClient gives the session its number.
SessionNumber == session \in Nat

LEMMA SessionStep == SessionNumber /\ [Next]_vars => SessionNumber'
<1> SUFFICES ASSUME SessionNumber, [Next]_vars PROVE SessionNumber'
  OBVIOUS
<1>1. CASE CloseBegin
  BY <1>1 DEF CloseBegin, SessionNumber
<1>2. CASE UNCHANGED session
  BY <1>2 DEF SessionNumber
<1>3. CloseBegin \/ UNCHANGED session
  <2>1. CASE Game
    BY <2>1, GameKeepsControl
  <2>2. CASE UNCHANGED vars
    BY <2>2 DEF vars
  <2>3. CASE Network
    BY <2>3 DEF Network, Listen, ListenFails, LeaveLoop, Accept, Selected, Lost, BadFrame,
                Hello, Authenticate, Pair, Activate, SendSnapshot, StateRequest, Receive,
                FramesDone, Deadline, Revoked, Drain, CloseExchange, CloseRelease,
                CloseClear, CloseReset, Exit
  <2> QED BY <2>1, <2>2, <2>3 DEF Next
<1> QED BY <1>1, <1>2, <1>3

THEOREM SessionInvariant == Spec => []SessionNumber
<1>1. Init => SessionNumber
  BY DEF Init, SessionNumber
<1> QED BY <1>1, SessionStep, PTL DEF Spec

-----------------------------------------------------------------------------
(* Revocation.                                                             *)

\* The credential that lets a client in is the one that is paired, from the
\* moment it is compared until it is forgotten; and once it is forgotten the
\* request to close the session is pending, or about to be made.
Revocation ==
  /\ Control
  /\ (connected \/ npc = "activate") /\ authed # token => disconnect \/ gpc = "forget"
  /\ ~Required => token = 0 /\ phase # "authentication"

LEMMA RevocationInit == Init => Revocation
BY ControlInit DEF Init, Revocation

LEMMA RevocationStep == Revocation /\ [Next]_vars => Revocation'
<1> SUFFICES ASSUME Revocation, [Next]_vars PROVE Revocation'
  OBVIOUS
<1>c. Control /\ Control'
  BY ControlStep DEF Revocation
<1> USE <1>c DEF Revocation, Control, NetworkSteps, Resumptions, CloseTo, Reading,
                 NextMessage, netvars, flags, gamevars
<1>1. CASE Listen
  BY <1>1 DEF Listen
<1>2. CASE ListenFails
  BY <1>2 DEF ListenFails
<1>3. CASE LeaveLoop
  BY <1>3 DEF LeaveLoop
<1>4. CASE Accept
  BY <1>4 DEF Accept
<1>5. CASE Selected
  BY <1>5 DEF Selected
<1>6. CASE Lost
  BY <1>6 DEF Lost
<1>7. CASE BadFrame
  BY <1>7 DEF BadFrame
<1>8. CASE FramesDone
  BY <1>8 DEF FramesDone
<1>9. CASE Hello
  BY <1>9 DEF Hello
<1>10. CASE Authenticate
  BY <1>10 DEF Authenticate
<1>11. CASE Pair
  BY <1>11 DEF Pair
<1>12. CASE Activate
  BY <1>12 DEF Activate
<1>13. CASE SendSnapshot
  BY <1>13 DEF SendSnapshot
<1>14. CASE StateRequest
  BY <1>14 DEF StateRequest
<1>15. CASE Deadline
  BY <1>15 DEF Deadline
<1>16. CASE Revoked
  BY <1>16 DEF Revoked
<1>17. CASE Drain
  BY <1>17 DEF Drain
<1>18. CASE CloseBegin
  BY <1>18 DEF CloseBegin
<1>19. CASE CloseExchange
  BY <1>19 DEF CloseExchange
<1>20. CASE CloseRelease
  BY <1>20 DEF CloseRelease
<1>21. CASE CloseClear
  BY <1>21 DEF CloseClear
<1>22. CASE CloseReset
  BY <1>22 DEF CloseReset
<1>23. CASE Exit
  BY <1>23 DEF Exit
<1>24. ASSUME NEW p \in Payload, Receive(p) PROVE Revocation'
  BY <1>24 DEF Receive
<1>25. ASSUME NEW t \in Topics, PublishEvent(t) PROVE Revocation'
  BY <1>25 DEF PublishEvent
<1>26. ASSUME NEW changed \in SUBSET Topics, PublishSnapshot(changed) PROVE Revocation'
  BY <1>26 DEF PublishSnapshot
<1>27. ASSUME NEW t \in Topics, NEW changed \in {{t}, Topics}, Lifecycle(t, changed) PROVE Revocation'
  BY <1>27 DEF Lifecycle
<1>28. CASE SendResult
  BY <1>28 DEF SendResult
<1>29. CASE SendCheck
  BY <1>29 DEF SendCheck
<1>30. CASE SendPush
  BY <1>30 DEF SendPush
<1>31. CASE Forget
  BY <1>31 DEF Forget
<1>32. CASE DisconnectClient
  BY <1>32 DEF DisconnectClient
<1>33. CASE TakeAll
  BY <1>33 DEF TakeAll
<1>34. CASE Stop
  BY <1>34 DEF Stop
<1>35. CASE StopDisconnect
  BY <1>35 DEF StopDisconnect
<1>36. CASE Join
  BY <1>36 DEF Join
<1>37. CASE UNCHANGED vars
  BY <1>37 DEF vars
<1> QED
  BY <1>1, <1>2, <1>3, <1>4, <1>5, <1>6, <1>7, <1>8, <1>9, <1>10, <1>11,
     <1>12, <1>13, <1>14, <1>15, <1>16, <1>17, <1>18, <1>19, <1>20, <1>21,
     <1>22, <1>23, <1>24, <1>25, <1>26, <1>27, <1>28, <1>29, <1>30, <1>31,
     <1>32, <1>33, <1>34, <1>35, <1>36, <1>37
  DEF Next, Network, Game

\* A session whose credential is forgotten is on its way out, whatever the
\* interleaving of ForgetDevice, authentication and closeClient.
THEOREM RevokedSessionsAreClosed == Spec => []RevokedSessionIsClosed
<1>1. Revocation => RevokedSessionIsClosed
  BY DEF Revocation, RevokedSessionIsClosed
<1> QED BY <1>1, RevocationInit, RevocationStep, PTL DEF Spec

-----------------------------------------------------------------------------
(* The refinement of SessionLayer.                                         *)

\* The link that SessionLayer speaks of, in the steps where it can change.
LEMMA LinkFacts ==
  ASSUME Control
  PROVE  /\ Link \in SL!Links
         /\ npc = "release" <=> Link = "releasing"
         /\ npc = "exchange" /\ connected <=> Link = "closing"
         /\ client /\ phase = "active" <=> Link = "up"
BY DEF Control, Link, SL!Links

LEMMA RefinementInit == Init => SL!SLInit
BY DEF Init, SL!SLInit, Link

LEMMA RefinementStep ==
  Control /\ SessionNumber /\ [Next]_vars => [SL!SLNext]_(SL!slvars)
<1> SUFFICES ASSUME Control, SessionNumber, [Next]_vars
             PROVE  [SL!SLNext]_(SL!slvars)
  OBVIOUS
<1>c. Control'
  BY ControlStep
<1> USE <1>c DEF Control, SessionNumber, Link, SL!slvars, NetworkSteps, Resumptions, CloseTo,
                 Reading, netvars, flags, queues, gamevars
<1>1. CASE Listen
  BY <1>1 DEF Listen
<1>2. CASE ListenFails
  BY <1>2 DEF ListenFails
<1>3. CASE LeaveLoop
  BY <1>3 DEF LeaveLoop
<1>4. CASE Accept
  BY <1>4 DEF Accept
<1>5. CASE Selected
  BY <1>5 DEF Selected
<1>6. CASE Lost
  BY <1>6 DEF Lost
<1>7. CASE BadFrame
  BY <1>7 DEF BadFrame
<1>8. CASE FramesDone
  BY <1>8 DEF FramesDone
<1>9. CASE Hello
  BY <1>9 DEF Hello
<1>10. CASE Authenticate
  BY <1>10 DEF Authenticate
<1>11. CASE Pair
  BY <1>11 DEF Pair
<1>12. CASE Activate
  BY <1>12 DEF Activate, SL!SLNext, SL!Network, SL!Activate
<1>13. CASE SendSnapshot
  BY <1>13 DEF SendSnapshot
<1>14. CASE StateRequest
  BY <1>14 DEF StateRequest
<1>15. CASE Deadline
  BY <1>15 DEF Deadline
<1>16. CASE Revoked
  BY <1>16 DEF Revoked
<1>17. CASE Drain
  BY <1>17 DEF Drain
<1>18. CASE CloseBegin
  BY <1>18 DEF CloseBegin, SL!SLNext, SL!Network, SL!EndSession
<1>19. CASE CloseExchange
  BY <1>19 DEF CloseExchange, SL!SLNext, SL!Network, SL!Disconnect
<1>20. CASE CloseRelease
  BY <1>20 DEF CloseRelease, SL!SLNext, SL!Network, SL!Release
<1>21. CASE CloseClear
  BY <1>21 DEF CloseClear
<1>22. CASE CloseReset
  BY <1>22 DEF CloseReset
<1>23. CASE Exit
  BY <1>23 DEF Exit
<1>24. ASSUME NEW p \in Payload, Receive(p) PROVE [SL!SLNext]_(SL!slvars)
  BY <1>24 DEF Receive, SL!SLNext, SL!Network, SL!Receive
<1>25. ASSUME NEW t \in Topics, PublishEvent(t) PROVE [SL!SLNext]_(SL!slvars)
  BY <1>25 DEF PublishEvent
<1>26. ASSUME NEW changed \in SUBSET Topics, PublishSnapshot(changed) PROVE [SL!SLNext]_(SL!slvars)
  BY <1>26 DEF PublishSnapshot
<1>27. ASSUME NEW t \in Topics, NEW changed \in {{t}, Topics}, Lifecycle(t, changed) PROVE [SL!SLNext]_(SL!slvars)
  BY <1>27 DEF Lifecycle
<1>28. CASE SendResult
  BY <1>28 DEF SendResult
<1>29. CASE SendCheck
  BY <1>29 DEF SendCheck
<1>30. CASE SendPush
  BY <1>30 DEF SendPush
<1>31. CASE Forget
  BY <1>31 DEF Forget
<1>32. CASE DisconnectClient
  BY <1>32 DEF DisconnectClient
<1>33. CASE TakeAll
  BY <1>33 DEF TakeAll, SL!SLNext, SL!TakeAll
<1>34. CASE Stop
  BY <1>34 DEF Stop
<1>35. CASE StopDisconnect
  BY <1>35 DEF StopDisconnect
<1>36. CASE Join
  BY <1>36 DEF Join
<1>37. CASE UNCHANGED vars
  BY <1>37 DEF vars
<1> QED
  BY <1>1, <1>2, <1>3, <1>4, <1>5, <1>6, <1>7, <1>8, <1>9, <1>10, <1>11,
     <1>12, <1>13, <1>14, <1>15, <1>16, <1>17, <1>18, <1>19, <1>20, <1>21,
     <1>22, <1>23, <1>24, <1>25, <1>26, <1>27, <1>28, <1>29, <1>30, <1>31,
     <1>32, <1>33, <1>34, <1>35, <1>36, <1>37
  DEF Next, Network, Game

\* What the game thread can see of the network thread, through Session(),
\* Connected() and the queue, is what SessionLayer allows.
THEOREM ServerImplementsSessionLayer == Spec => ImplementsSessionLayer
<1>1. Spec => []Control /\ []SessionNumber
  BY ControlInvariant, SessionInvariant
<1> QED
  BY <1>1, RefinementInit, RefinementStep, PTL DEF Spec, ImplementsSessionLayer, SL!SLSpec

\* SessionLayer and its proofs, seen from here, are about the same steps.
LEMMA SameLayer ==
  /\ SL!SLInit <=> SLP!SLInit
  /\ [SL!SLNext]_(SL!slvars) <=> [SLP!SLNext]_(SLP!slvars)
BY DEF SL!SLInit, SLP!SLInit, SL!slvars, SLP!slvars, SL!SLNext, SLP!SLNext, SL!Network,
       SLP!Network, SL!Activate, SLP!Activate, SL!Receive, SLP!Receive, SL!EndSession,
       SLP!EndSession, SL!Disconnect, SLP!Disconnect, SL!Release, SLP!Release, SL!TakeAll,
       SLP!TakeAll, SL!Enqueue, SLP!Enqueue, SL!Request, SLP!Request, SL!ReleaseAll,
       SLP!ReleaseAll

LEMMA LayerAssumption == SLP!SessionLayerAssumption
BY ServerAssumption DEF SLP!SessionLayerAssumption

\* The invariant of SessionLayer, in the terms of this module.
LEMMA LayerInvariant == Spec => []SLP!SLInv
<1>1. Spec => SLP!SLSpec
  BY ServerImplementsSessionLayer, SameLayer, PTL
  DEF ImplementsSessionLayer, SL!SLSpec, SLP!SLSpec
<1>2. SLP!SLSpec => []SLP!SLInv
  BY LayerAssumption, SLP!SessionLayerInvariant
<1> QED BY <1>1, <1>2, PTL

\* A request in commands_ carries the current session_ only while its client is
\* connected.
THEOREM RequestsAreLive == Spec => []QueuedRequestIsLive
<1>1. SLP!SLInv => QueuedRequestIsLive
  BY DEF SLP!SLInv, SLP!QueuedRequestIsLive, QueuedRequestIsLive, SL!QueuedRequestIsLive,
         SLP!IsRequest, SL!IsRequest
<1> QED BY <1>1, LayerInvariant, PTL

\* A ReleaseAll stands between the commands of two sessions.
THEOREM SessionsAreSeparated == Spec => []ReleaseBetweenSessions
<1>1. SLP!SLInv => ReleaseBetweenSessions
  BY DEF SLP!SLInv, SLP!ReleaseBetweenSessions, ReleaseBetweenSessions,
         SL!ReleaseBetweenSessions, SLP!IsRequest, SL!IsRequest
<1> QED BY <1>1, LayerInvariant, PTL
-----------------------------------------------------------------------------
(* The outbound queue: what a queue of messages shows, and what Send makes *)
(* of it.                                                                  *)

\* A bounded set of positions has a last one.
LEMMA LastExists ==
  ASSUME NEW n \in Nat, NEW S \in SUBSET (1..n), S # {}
  PROVE  \E i \in S : \A j \in S : j <= i
<1> DEFINE T == {n - i : i \in S}
<1>s. \A i \in S : i \in Nat /\ n - i \in Nat
  OBVIOUS
<1>1. T \subseteq Nat /\ T # {}
  BY <1>s
<1>2. IsWellFoundedOn(OpToRel(<, Nat), Nat)
  BY NatLessThanWellFounded
<1>3. PICK x \in T : \A y \in T : ~(<<y, x>> \in OpToRel(<, Nat))
  BY <1>1, <1>2, WFMin
<1>4. \A y \in T : ~(y < x)
  <2>1. ASSUME NEW y \in T, y < x PROVE <<y, x>> \in OpToRel(<, Nat)
    BY <1>1, <2>1 DEF OpToRel
  <2> QED BY <1>3, <2>1
<1>5. PICK i \in S : x = n - i
  OBVIOUS
<1>6. \A j \in S : n - j \in T /\ ~(n - j < n - i)
  BY <1>4, <1>5
<1>7. \A j \in S : j <= i
  <2> TAKE j \in S
  <2>1. ~(n - j < n - i)
    BY <1>6
  <2>2. i \in Nat /\ j \in Nat
    BY <1>s
  <2> HIDE DEF T
  <2> QED BY <2>1, <2>2
<1> QED BY <1>7

\* The last message that reports a topic says v[t] (Shown), in terms without CHOOSE.
Tells(v, q, t, s) ==
  \/ Reports(q, t) = {} /\ v[t] = s
  \/ \E i \in Reports(q, t) : (\A j \in Reports(q, t) : j <= i) /\ q[i].data[t] = s

LEMMA TellsFacts ==
  ASSUME NEW S, NEW q \in Seq(S), NEW v, NEW t, NEW s
  PROVE  Tells(v, q, t, s) <=> Shown(v, q, t) = s
<1>1. CASE Reports(q, t) = {}
  BY <1>1 DEF Tells, Shown
<1>2. CASE Reports(q, t) # {}
  <2>1. Reports(q, t) \in SUBSET (1..Len(q)) /\ Len(q) \in Nat
    BY DEF Reports
  <2>2. PICK i \in Reports(q, t) : \A j \in Reports(q, t) : j <= i
    BY <1>2, <2>1, LastExists
  <2>3. /\ LastReport(q, t) \in Reports(q, t)
        /\ \A j \in Reports(q, t) : j <= LastReport(q, t)
    BY <2>2 DEF LastReport
  <2>4. \A i1 \in Reports(q, t) : (\A j \in Reports(q, t) : j <= i1) => i1 = LastReport(q, t)
    BY <2>1, <2>3
  <2> QED BY <1>2, <2>3, <2>4 DEF Tells, Shown
<1> QED BY <1>1, <1>2

\* What a topic's last report says is one of the versions there are.
LEMMA ShownIsVersion ==
  ASSUME NEW q \in Seq(Messages), NEW v \in [Topics -> Versions], NEW t \in Topics
  PROVE  Shown(v, q, t) \in Versions
<1>1. CASE Reports(q, t) = {}
  BY <1>1 DEF Shown
<1>2. CASE Reports(q, t) # {}
  <2>1. Tells(v, q, t, Shown(v, q, t))
    BY TellsFacts
  <2>2. PICK i \in Reports(q, t) : q[i].data[t] = Shown(v, q, t)
    BY <1>2, <2>1 DEF Tells
  <2>3. q[i] \in Messages /\ t \in DOMAIN q[i].data
    BY DEF Reports
  <2>4. q[i].data \in Data
    BY <2>3 DEF Messages
  <2>5. PICK T \in SUBSET Topics : q[i].data \in [T -> Versions]
    BY <2>4 DEF Data
  <2> QED BY <2>2, <2>3, <2>5
<1> QED BY <1>1, <1>2

\* Nothing but reports says anything of the state.
PlainResults(q) == \A i \in 1..Len(q) : q[i].kind = "result" => DOMAIN q[i].data = {}

LEMMA MessageFacts ==
  /\ ResultMessage \in Messages /\ ResultMessage.kind = "result"
  /\ DOMAIN ResultMessage.data = {}
<1>1. [t \in {} |-> 0] \in [{} -> Versions]
  OBVIOUS
<1>2. [t \in {} |-> 0] \in Data
  BY <1>1 DEF Data
<1> QED BY <1>2 DEF ResultMessage, Messages

\* A snapshot leaves results only, no more messages than there were
\* (Outbound: a snapshot supersedes every replaceable message).
LEMMA SupersededFacts ==
  ASSUME NEW q \in Seq(Messages)
  PROVE  /\ Superseded(q) \in Seq(Messages) /\ Len(Superseded(q)) <= Len(q)
         /\ PlainResults(Superseded(q)) /\ \A t : Reports(Superseded(q), t) = {}
<1> DEFINE R == {j \in 1..Len(q) : ~Replaceable(q[j])}
<1>n. Len(q) \in Nat
  OBVIOUS
<1>1. IsFiniteSet(1..Len(q)) /\ Cardinality(1..Len(q)) = Len(q)
  <2> DEFINE n == Len(q)
  <2>1. n \in Nat
    BY <1>n
  <2> HIDE DEF n
  <2>2. IsFiniteSet(1..n) /\ Cardinality(1..n) = IF 1 > n THEN 0 ELSE n - 1 + 1
    BY <2>1, FS_Interval
  <2>3. Cardinality(1..n) = n
    BY <2>1, <2>2
  <2> QED BY <2>2, <2>3 DEF n
<1>2. IsFiniteSet(R) /\ Cardinality(R) <= Len(q)
  BY <1>1, FS_Subset
<1>3. Cardinality(R) \in Nat
  BY <1>2, FS_CardinalityType
<1> DEFINE c == Cardinality(R)
           s == [i \in 1..c |-> ResultMessage]
<1>4. c \in Nat /\ c <= Len(q)
  BY <1>2, <1>3
<1>5. Superseded(q) = s
  BY DEF Superseded
<1> HIDE DEF c
<1>6. s \in Seq(Messages) /\ Len(s) = c /\ \A i \in 1..Len(s) : s[i] = ResultMessage
  BY <1>4, MessageFacts
<1>7. PlainResults(s)
  BY <1>6, MessageFacts DEF PlainResults
<1>8. \A t : Reports(s, t) = {}
  BY <1>6, MessageFacts DEF Reports
<1> QED BY <1>4, <1>5, <1>6, <1>7, <1>8

\* A queue without one of its messages.
LEMMA WithoutOne ==
  ASSUME NEW S, NEW q \in Seq(S), NEW k \in 1..Len(q)
  PROVE  LET r == SubSeq(q, 1, k - 1) \o SubSeq(q, k + 1, Len(q))
         IN /\ r \in Seq(S) /\ Len(r) = Len(q) - 1
            /\ \A i \in 1..Len(r) : r[i] = IF i < k THEN q[i] ELSE q[i + 1]
<1> DEFINE a == SubSeq(q, 1, k - 1)
           b == SubSeq(q, k + 1, Len(q))
<1>n. Len(q) \in Nat /\ k \in Nat
  OBVIOUS
<1>1. a \in Seq(S) /\ Len(a) = k - 1 /\ \A i \in 1..(k - 1) : a[i] = q[i]
  OBVIOUS
<1>2. b \in Seq(S) /\ Len(b) = Len(q) - k /\ \A i \in 1..(Len(q) - k) : b[i] = q[k + i]
  OBVIOUS
<1> HIDE DEF a, b
<1>3. a \o b \in Seq(S) /\ Len(a \o b) = Len(q) - 1
  <2>1. a \o b \in Seq(S)
    BY <1>1, <1>2
  <2>2. Len(a \o b) = Len(a) + Len(b)
    BY <1>1, <1>2, ConcatProperties
  <2> QED BY <1>n, <1>1, <1>2, <2>1, <2>2
<1>4. ASSUME NEW i \in 1..Len(a \o b)
      PROVE  (a \o b)[i] = IF i < k THEN q[i] ELSE q[i + 1]
  <2>1. CASE i < k
    BY <1>n, <1>1, <1>2, <1>3, <2>1
  <2>2. CASE ~(i < k)
    <3>1. (a \o b)[i] = b[i - (k - 1)]
      BY <1>n, <1>1, <1>2, <1>3, <2>2
    <3>2. i - (k - 1) \in 1..(Len(q) - k)
      BY <1>n, <1>3, <2>2
    <3>3. k + (i - (k - 1)) = i + 1
      BY <1>n
    <3>4. b[i - (k - 1)] = q[k + (i - (k - 1))]
      BY <1>2, <3>2
    <3> QED BY <2>2, <3>1, <3>3, <3>4
  <2> QED BY <2>1, <2>2
<1> QED BY <1>3, <1>4 DEF a, b

\* Above the soft limit the last replaceable message goes: what is left of the
\* reports is where it was (Outbound: delta coalescing).
LEMMA ThinnedFacts ==
  ASSUME NEW q \in Seq(Messages), PlainResults(q)
  PROVE  /\ Thinned(q) \in Seq(Messages) /\ Len(Thinned(q)) <= Len(q)
         /\ PlainResults(Thinned(q))
         /\ \A t : \A i \in Reports(Thinned(q), t) : i \in 1..Len(q) /\ Thinned(q)[i] = q[i]
<1> DEFINE R == {i \in 1..Len(q) : Replaceable(q[i])}
           last == CHOOSE i \in R : \A j \in R : j <= i
<1>n. Len(q) \in Nat
  OBVIOUS
<1>1. CASE R = {}
  BY <1>1 DEF Thinned, Reports
<1>2. CASE R # {}
  <2>1. last \in R /\ \A j \in R : j <= last
    <3>1. \E i \in R : \A j \in R : j <= i
      BY <1>n, <1>2, LastExists
    <3> QED BY <3>1
  <2> DEFINE k == last
             r == SubSeq(q, 1, k - 1) \o SubSeq(q, k + 1, Len(q))
  <2>2. Thinned(q) = r
    BY <1>2 DEF Thinned
  <2>k. k \in R /\ \A j \in R : j <= k
    BY <2>1
  <2> HIDE DEF k
  <2>3. k \in 1..Len(q) /\ \A j \in 1..Len(q) : j > k => q[j].kind = "result"
    <3>1. k \in 1..Len(q)
      BY <2>k
    <3>2. ASSUME NEW j \in 1..Len(q), j > k PROVE j \notin R
      BY <1>n, <2>k, <3>1, <3>2
    <3> QED BY <3>1, <3>2 DEF Replaceable
  <2>4. /\ r \in Seq(Messages) /\ Len(r) = Len(q) - 1
        /\ \A i \in 1..Len(r) : r[i] = IF i < k THEN q[i] ELSE q[i + 1]
    BY <2>3, WithoutOne
  <2> HIDE DEF r, R
  <2>5. \A i \in 1..Len(r) : i >= k => r[i].kind = "result" /\ DOMAIN r[i].data = {}
    <3> TAKE i \in 1..Len(r)
    <3> HAVE i >= k
    <3>1. i + 1 \in 1..Len(q) /\ i + 1 > k /\ r[i] = q[i + 1]
      BY <1>n, <2>3, <2>4
    <3> QED BY <2>3, <3>1 DEF PlainResults
  <2>6. PlainResults(r)
    <3> SUFFICES ASSUME NEW i \in 1..Len(r), r[i].kind = "result" PROVE DOMAIN r[i].data = {}
      BY DEF PlainResults
    <3>1. CASE i < k
      <4>1. i \in 1..Len(q) /\ r[i] = q[i]
        BY <1>n, <2>3, <2>4, <3>1
      <4> QED BY <4>1 DEF PlainResults
    <3>2. CASE ~(i < k)
      BY <1>n, <2>3, <2>4, <2>5, <3>2
    <3> QED BY <3>1, <3>2
  <2>7. \A t : \A i \in Reports(r, t) : i \in 1..Len(q) /\ r[i] = q[i]
    <3> TAKE t
    <3> TAKE i \in Reports(r, t)
    <3>1. i \in 1..Len(r) /\ t \in DOMAIN r[i].data
      BY DEF Reports
    <3>2. i < k
      BY <1>n, <2>3, <2>4, <2>5, <3>1
    <3> QED BY <1>n, <2>3, <2>4, <3>1, <3>2
  <2>8. Len(r) <= Len(q)
    BY <1>n, <2>4
  <2> QED BY <2>2, <2>4, <2>6, <2>7, <2>8
<1> QED BY <1>1, <1>2

\* Whatever Send does to the queue before it adds a message, no report is
\* moved, none is made up, and the queue gets no longer.
LEMMA MakeRoomFacts ==
  ASSUME NEW q \in Seq(Messages), PlainResults(q), NEW m \in Messages
  PROVE  /\ MakeRoom(q, m) \in Seq(Messages) /\ Len(MakeRoom(q, m)) <= Len(q)
         /\ PlainResults(MakeRoom(q, m))
         /\ \A t : \A i \in Reports(MakeRoom(q, m), t) :
              i \in 1..Len(q) /\ MakeRoom(q, m)[i] = q[i]
         /\ m.kind = "snapshot" => \A t : Reports(MakeRoom(q, m), t) = {}
<1>1. CASE m.kind = "snapshot"
  BY <1>1, SupersededFacts DEF MakeRoom
<1>2. CASE m.kind # "snapshot" /\ MakeRoom(q, m) = Thinned(q)
  BY <1>2, ThinnedFacts
<1>3. CASE m.kind # "snapshot" /\ MakeRoom(q, m) = q
  BY <1>3 DEF Reports
<1> QED BY <1>1, <1>2, <1>3 DEF MakeRoom

-----------------------------------------------------------------------------
(* The types of the data, and what the messages of a call say.             *)

\* A message that says what is so in state s.
IsCurrent(m, s) ==
  /\ m \in Messages
  /\ m.kind = "snapshot" => DOMAIN m.data = Topics
  /\ m.kind = "result" => DOMAIN m.data = {}
  /\ \A t \in DOMAIN m.data : m.data[t] = s[t]

\* What a call of the game thread has still to send is the state it left.
SendingIsCurrent ==
  /\ sending \in Seq(Messages)
  /\ \A k \in 1..Len(sending) : IsCurrent(sending[k], store)

StateTypes == store \in [Topics -> Versions] /\ view \in [Topics -> Versions]

CallTypes == gpc \in GameSteps /\ (gpc \in {"send", "push"} <=> sending # <<>>)

QueueTypes ==
  outbound \in Seq(Messages) /\ Len(outbound) <= Capacity /\ PlainResults(outbound)

\* A report of the topic is about to be queued.
ToCome(t) == \E k \in 1..Len(sending) : t \in DOMAIN sending[k].data

LEMMA InData ==
  ASSUME NEW T \in SUBSET Topics, NEW d \in [T -> Versions]
  PROVE  d \in Data
BY DEF Data

LEMMA MessagesAreCurrent ==
  ASSUME NEW s \in [Topics -> Versions]
  PROVE  /\ \A t \in Topics : IsCurrent(EventMessage(t, s[t]), s)
         /\ IsCurrent([kind |-> "snapshot", data |-> s], s)
         /\ IsCurrent(ResultMessage, s)
<1>1. ASSUME NEW t \in Topics PROVE IsCurrent(EventMessage(t, s[t]), s)
  <2>1. [u \in {t} |-> s[t]] \in [{t} -> Versions] /\ {t} \in SUBSET Topics
    OBVIOUS
  <2>2. [u \in {t} |-> s[t]] \in Data
    BY <2>1, InData
  <2> QED BY <2>2 DEF IsCurrent, EventMessage, Messages
<1>2. IsCurrent([kind |-> "snapshot", data |-> s], s)
  BY InData DEF IsCurrent, Messages
<1>3. IsCurrent(ResultMessage, s)
  BY MessageFacts DEF IsCurrent
<1> QED BY <1>1, <1>2, <1>3

\* The calls that begin to send.
Calls ==
  \/ \E t \in Topics : PublishEvent(t)
  \/ \E changed \in SUBSET Topics : PublishSnapshot(changed)
  \/ \E t \in Topics : \E changed \in {{t}, Topics} : Lifecycle(t, changed)
  \/ SendResult

\* A call reports every topic it changes, as it leaves it (StateStore and
\* WcsBridge::PublishEvent, PublishSnapshot, OnWorldEnter, OnWorldLeave).
LEMMA CallsFacts ==
  ASSUME StateTypes, CallTypes, Calls
  PROVE  /\ gpc = "idle" /\ gpc' = "send" /\ sending = <<>> /\ sending' # <<>>
         /\ store' \in [Topics -> Versions] /\ SendingIsCurrent'
         /\ \A t \in Topics : store'[t] = store[t] \/ ToCome(t)'
         /\ UNCHANGED <<netvars, flags, session, connected, queues, token, view, histvars>>
<1>0. gpc = "idle" /\ sending = <<>>
  BY DEF Calls, PublishEvent, PublishSnapshot, Lifecycle, SendResult, CallTypes
<1>1. ASSUME NEW t \in Topics, PublishEvent(t)
      PROVE  /\ store' \in [Topics -> Versions]
             /\ sending' = <<EventMessage(t, store'[t])>>
             /\ \A u \in Topics : store'[u] = store[u] \/ u = t
  BY <1>1 DEF PublishEvent, StateTypes
<1>2. ASSUME NEW changed \in SUBSET Topics, PublishSnapshot(changed)
      PROVE  /\ store' \in [Topics -> Versions]
             /\ sending' = <<[kind |-> "snapshot", data |-> store']>>
  BY <1>2 DEF PublishSnapshot, StateTypes
<1>3. ASSUME NEW t \in Topics, NEW changed \in {{t}, Topics}, Lifecycle(t, changed)
      PROVE  /\ store' \in [Topics -> Versions]
             /\ sending' = <<EventMessage(t, store'[t]), [kind |-> "snapshot", data |-> store']>>
  BY <1>3 DEF Lifecycle, StateTypes
<1>4. CASE SendResult
  <2>1. sending' = <<ResultMessage>> /\ store' = store /\ store \in [Topics -> Versions]
    BY <1>4 DEF SendResult, StateTypes
  <2>2. IsCurrent(ResultMessage, store') /\ ResultMessage \in Messages
    BY <2>1, MessagesAreCurrent, MessageFacts
  <2>3. sending' \in Seq(Messages) /\ Len(sending') = 1 /\ sending'[1] = ResultMessage
    BY <2>1, <2>2
  <2>4. SendingIsCurrent'
    BY <2>2, <2>3 DEF SendingIsCurrent, IsCurrent
  <2> QED BY <1>0, <1>4, <2>1, <2>3, <2>4 DEF SendResult
<1>5. CASE \E t \in Topics : PublishEvent(t)
  <2>1. PICK t \in Topics : PublishEvent(t)
    BY <1>5
  <2> DEFINE m == EventMessage(t, store'[t])
  <2>2. sending' = <<m>> /\ IsCurrent(m, store') /\ m \in Messages
    BY <1>1, <2>1, MessagesAreCurrent DEF IsCurrent
  <2>3. t \in DOMAIN m.data
    BY DEF EventMessage
  <2> HIDE DEF m
  <2>4. sending' \in Seq(Messages) /\ Len(sending') = 1 /\ sending'[1] = m
    BY <2>2
  <2>5. SendingIsCurrent'
    BY <2>2, <2>4 DEF SendingIsCurrent, IsCurrent
  <2>6. ToCome(t)'
    BY <2>3, <2>4 DEF ToCome
  <2> QED BY <1>0, <1>1, <2>1, <2>4, <2>5, <2>6 DEF PublishEvent
<1>6. CASE \E changed \in SUBSET Topics : PublishSnapshot(changed)
  <2>1. PICK changed \in SUBSET Topics : PublishSnapshot(changed)
    BY <1>6
  <2> DEFINE m == [kind |-> "snapshot", data |-> store']
  <2>2. sending' = <<m>> /\ IsCurrent(m, store') /\ m \in Messages
    BY <1>2, <2>1, MessagesAreCurrent DEF IsCurrent
  <2>3. DOMAIN m.data = Topics
    BY <1>2, <2>1
  <2> HIDE DEF m
  <2>4. sending' \in Seq(Messages) /\ Len(sending') = 1 /\ sending'[1] = m
    BY <2>2
  <2>5. SendingIsCurrent'
    BY <2>2, <2>4 DEF SendingIsCurrent, IsCurrent
  <2>6. \A t \in Topics : ToCome(t)'
    BY <2>3, <2>4 DEF ToCome
  <2> QED BY <1>0, <1>2, <2>1, <2>4, <2>5, <2>6 DEF PublishSnapshot
<1>7. CASE \E t \in Topics : \E changed \in {{t}, Topics} : Lifecycle(t, changed)
  <2>1. PICK t \in Topics : \E changed \in {{t}, Topics} : Lifecycle(t, changed)
    BY <1>7
  <2>2. PICK changed \in {{t}, Topics} : Lifecycle(t, changed)
    BY <2>1
  <2> DEFINE e == EventMessage(t, store'[t])
             m == [kind |-> "snapshot", data |-> store']
  <2>3. /\ sending' = <<e, m>> /\ IsCurrent(e, store') /\ IsCurrent(m, store')
        /\ e \in Messages /\ m \in Messages
    <3>1. sending' = <<e, m>> /\ store' \in [Topics -> Versions]
      BY <1>3, <2>2
    <3>2. IsCurrent(e, store') /\ IsCurrent(m, store')
      BY <3>1, MessagesAreCurrent
    <3> QED BY <3>1, <3>2 DEF IsCurrent
  <2>4. DOMAIN m.data = Topics
    BY <1>3, <2>2
  <2> HIDE DEF e, m
  <2>5. sending' \in Seq(Messages) /\ Len(sending') = 2 /\ sending'[1] = e /\ sending'[2] = m
    BY <2>3
  <2>6. \A k \in 1..Len(sending') : sending'[k] = e \/ sending'[k] = m
    BY <2>5
  <2>7. SendingIsCurrent'
    BY <2>3, <2>5, <2>6 DEF SendingIsCurrent, IsCurrent
  <2>8. \A u \in Topics : ToCome(u)'
    BY <2>4, <2>5 DEF ToCome
  <2> QED BY <1>0, <1>3, <2>2, <2>5, <2>7, <2>8 DEF Lifecycle
<1> QED BY <1>4, <1>5, <1>6, <1>7 DEF Calls

\* A call goes on to its next message.
LEMMA NextFacts ==
  ASSUME SendingIsCurrent, gpc \in {"send", "push"}, CallTypes, NextMessage, store' = store
  PROVE  /\ IsCurrent(Head(sending), store)
         /\ SendingIsCurrent' /\ CallTypes' /\ gpc' \in {"send", "idle"}
         /\ \A t : ToCome(t) => t \in DOMAIN Head(sending).data \/ ToCome(t)'
<1>1. sending \in Seq(Messages) /\ sending # <<>>
  BY DEF CallTypes, SendingIsCurrent
<1>2. /\ Head(sending) = sending[1] /\ Len(sending) \in Nat /\ Len(sending) >= 1
      /\ sending' = Tail(sending) /\ sending' \in Seq(Messages) /\ Len(sending') = Len(sending) - 1
      /\ \A k \in 1..Len(sending') : k + 1 \in 1..Len(sending) /\ sending'[k] = sending[k + 1]
  BY <1>1 DEF NextMessage
<1>3. IsCurrent(Head(sending), store)
  BY <1>2 DEF SendingIsCurrent
<1>4. SendingIsCurrent'
  BY <1>2 DEF SendingIsCurrent, IsCurrent
<1>5. sending' # <<>> <=> Len(sending) > 1
  <2>1. sending' = <<>> <=> Len(sending') = 0
    BY <1>2, EmptySeq
  <2> QED BY <1>2, <2>1
<1>6. CallTypes' /\ gpc' \in {"send", "idle"}
  BY <1>5 DEF NextMessage, CallTypes, GameSteps
<1>7. ASSUME NEW t, ToCome(t) PROVE t \in DOMAIN Head(sending).data \/ ToCome(t)'
  <2>1. PICK k \in 1..Len(sending) : t \in DOMAIN sending[k].data
    BY <1>7 DEF ToCome
  <2>2. CASE k = 1
    BY <1>2, <2>1, <2>2
  <2>3. CASE k # 1
    <3>1. k - 1 \in 1..Len(sending') /\ sending'[k - 1] = sending[(k - 1) + 1] /\ (k - 1) + 1 = k
      BY <1>2, <2>3
    <3> QED BY <2>1, <3>1 DEF ToCome
  <2> QED BY <2>2, <2>3
<1> QED BY <1>3, <1>4, <1>6, <1>7

\* SendPush: the queue keeps to its capacity, and shows of every topic either
\* what the message says of it or, with nothing dropped, what it showed before.
LEMMA PushFacts ==
  ASSUME QueueTypes, NEW m, IsCurrent(m, store),
         NEW q, q = MakeRoom(outbound, m),
         outbound' = IF Fits(q) THEN Append(q, m) ELSE q
  PROVE  /\ QueueTypes' /\ Len(outbound') <= Len(outbound) + 1
         /\ \A v : \A t \in Topics :
              /\ Fits(q) /\ t \in DOMAIN m.data => Tells(v, outbound', t, store[t])
              /\ /\ t \notin DOMAIN m.data /\ Reports(q, t) = Reports(outbound, t)
                 /\ Tells(v, outbound, t, store[t])
                 => Tells(v, outbound', t, store[t])
<1>m. m \in Messages /\ (m.kind = "result" => DOMAIN m.data = {})
  BY DEF IsCurrent
<1>o. outbound \in Seq(Messages) /\ Len(outbound) \in Nat /\ Capacity \in Nat
      /\ Len(outbound) <= Capacity /\ PlainResults(outbound)
  BY ServerAssumption DEF QueueTypes
<1>1. /\ q \in Seq(Messages) /\ Len(q) <= Len(outbound) /\ Len(q) \in Nat /\ PlainResults(q)
      /\ \A t : \A i \in Reports(q, t) : i \in 1..Len(outbound) /\ q[i] = outbound[i]
  <2>1. /\ q \in Seq(Messages) /\ Len(q) <= Len(outbound) /\ PlainResults(q)
        /\ \A t : \A i \in Reports(q, t) : i \in 1..Len(outbound) /\ q[i] = outbound[i]
    BY <1>m, <1>o, MakeRoomFacts, Zenon
  <2>2. Len(q) \in Nat
    BY <2>1
  <2> QED BY <2>1, <2>2
<1>2. CASE Fits(q)
  <2>1. /\ outbound' \in Seq(Messages) /\ Len(outbound') = Len(q) + 1
        /\ \A i \in 1..Len(q) : outbound'[i] = q[i]
        /\ outbound'[Len(q) + 1] = m
    BY <1>m, <1>1, <1>2
  <2>2. Len(outbound') <= Capacity /\ Len(outbound') <= Len(outbound) + 1
    BY <1>o, <1>1, <1>2, <2>1 DEF Fits
  <2>3. \A i \in 1..Len(outbound') : i \in 1..Len(q) \/ i = Len(q) + 1
    BY <1>1, <2>1
  <2>4. PlainResults(outbound')
    BY <1>m, <1>1, <2>1, <2>3 DEF PlainResults
  <2>5. QueueTypes'
    BY <2>1, <2>2, <2>4 DEF QueueTypes, PlainResults
  <2>6. ASSUME NEW v, NEW t \in Topics, t \in DOMAIN m.data
        PROVE  Tells(v, outbound', t, store[t])
    <3>1. Len(q) + 1 \in Reports(outbound', t)
      BY <1>1, <2>1, <2>6 DEF Reports
    <3>2. \A j \in Reports(outbound', t) : j <= Len(q) + 1
      BY <1>1, <2>1 DEF Reports
    <3>3. outbound'[Len(q) + 1].data[t] = store[t]
      BY <2>1, <2>6 DEF IsCurrent
    <3> QED BY <3>1, <3>2, <3>3 DEF Tells
  <2>7. ASSUME NEW v, NEW t \in Topics, t \notin DOMAIN m.data,
               Reports(q, t) = Reports(outbound, t), Tells(v, outbound, t, store[t])
        PROVE  Tells(v, outbound', t, store[t])
    <3>1. Reports(outbound', t) = Reports(q, t)
      <4>1. ASSUME NEW i PROVE i \in Reports(outbound', t) <=> i \in Reports(q, t)
        <5>1. i \in Reports(outbound', t) => i \in Reports(q, t)
          BY <2>1, <2>3, <2>7 DEF Reports
        <5>2. i \in Reports(q, t) => i \in Reports(outbound', t)
          BY <1>1, <2>1 DEF Reports
        <5> QED BY <5>1, <5>2
      <4> QED BY <4>1
    <3>2. \A i \in Reports(q, t) : outbound'[i] = outbound[i]
      BY <1>1, <2>1 DEF Reports
    <3> QED BY <2>7, <3>1, <3>2 DEF Tells
  <2> QED BY <2>2, <2>5, <2>6, <2>7
<1>3. CASE ~Fits(q)
  <2>1. outbound' = q
    BY <1>3
  <2>2. QueueTypes' /\ Len(outbound') <= Len(outbound) + 1
    BY <1>o, <1>1, <2>1 DEF QueueTypes, PlainResults
  <2>3. ASSUME NEW v, NEW t \in Topics, Reports(q, t) = Reports(outbound, t),
               Tells(v, outbound, t, store[t])
        PROVE  Tells(v, outbound', t, store[t])
    BY <1>1, <2>1, <2>3 DEF Tells
  <2> QED BY <1>3, <2>2, <2>3
<1> QED BY <1>2, <1>3

\* What the network thread leaves alone, and what it does to the queue.
LEMMA NetworkData ==
  Network =>
    /\ UNCHANGED <<gpc, store, sending>>
    /\ outbound' = outbound \/ outbound' = <<>>
    /\ \/ view' = view \/ view' = store
       \/ view' = [t \in Topics |-> Shown(view, outbound, t)]
BY DEF Network, Listen, ListenFails, LeaveLoop, Accept, Selected, Lost, BadFrame, Hello,
       Authenticate, Pair, Activate, SendSnapshot, StateRequest, Receive, FramesDone, Deadline,
       Revoked, Drain, CloseBegin, CloseExchange, CloseRelease, CloseClear, CloseReset, Exit,
       gamevars, queues

\* The calls of the game thread that send nothing.
OtherCalls == Forget \/ DisconnectClient \/ TakeAll \/ Stop \/ StopDisconnect \/ Join

LEMMA OtherCallsFacts ==
  OtherCalls => UNCHANGED <<npc, client, phase, connected, outbound, store, sending, view, lossy,
                            carried>>
                /\ gpc \notin {"send", "push"} /\ gpc' \notin {"send", "push"} /\ gpc' \in GameSteps
BY DEF OtherCalls, Forget, DisconnectClient, TakeAll, Stop, StopDisconnect, Join, netvars, gamevars,
       histvars, queues, GameSteps

LEMMA GameParts == Game <=> Calls \/ SendCheck \/ SendPush \/ OtherCalls
BY DEF Game, Calls, OtherCalls

DataInv == StateTypes /\ CallTypes /\ QueueTypes /\ SendingIsCurrent

LEMMA DataInit == Init => DataInv
<1> SUFFICES ASSUME Init PROVE DataInv
  OBVIOUS
<1>1. outbound = <<>> /\ sending = <<>> /\ gpc = "idle"
  BY DEF Init
<1>2. StateTypes
  BY ServerAssumption DEF Init, StateTypes
<1>3. CallTypes
  BY <1>1 DEF CallTypes, GameSteps
<1>4. outbound \in Seq(Messages) /\ sending \in Seq(Messages) /\ Len(outbound) = 0
      /\ Len(sending) = 0
  BY <1>1
<1>5. QueueTypes
  BY <1>4, ServerAssumption DEF QueueTypes, PlainResults
<1>6. SendingIsCurrent
  BY <1>4 DEF SendingIsCurrent
<1> QED BY <1>2, <1>3, <1>5, <1>6 DEF DataInv

\* A message is queued.
LEMMA SendPushFacts ==
  ASSUME DataInv, SendPush
  PROVE  LET m == Head(sending)
             q == MakeRoom(outbound, m)
         IN /\ gpc = "push" /\ store' = store /\ NextMessage
            /\ IsCurrent(m, store)
            /\ outbound' = IF Fits(q) THEN Append(q, m) ELSE q
            /\ UNCHANGED <<npc, client, phase, connected, view>>
<1>1. gpc = "push" /\ store' = store /\ NextMessage
  BY DEF SendPush
<1>2. IsCurrent(Head(sending), store)
  BY <1>1, NextFacts DEF DataInv
<1> QED BY <1>1, <1>2 DEF SendPush, netvars

LEMMA DataStep == DataInv /\ [Next]_vars => DataInv'
<1> SUFFICES ASSUME DataInv, [Next]_vars PROVE DataInv'
  OBVIOUS
<1> USE DEF DataInv
<1>1. CASE Network
  <2>1. CallTypes' /\ SendingIsCurrent'
    BY <1>1, NetworkData DEF CallTypes, SendingIsCurrent, IsCurrent
  <2>2. QueueTypes'
    <3>1. CASE outbound' = outbound
      BY <3>1 DEF QueueTypes, PlainResults
    <3>2. CASE outbound' = <<>>
      <4>1. outbound' \in Seq(Messages) /\ Len(outbound') = 0
        BY <3>2
      <4> QED BY <4>1, ServerAssumption DEF QueueTypes, PlainResults
    <3> QED BY <1>1, <3>1, <3>2, NetworkData
  <2>3. StateTypes'
    <3>1. \A t \in Topics : Shown(view, outbound, t) \in Versions
      BY ShownIsVersion DEF StateTypes, QueueTypes
    <3>2. [t \in Topics |-> Shown(view, outbound, t)] \in [Topics -> Versions]
      BY <3>1
    <3> QED BY <1>1, <3>2, NetworkData DEF StateTypes
  <2> QED BY <2>1, <2>2, <2>3
<1>2. CASE Calls
  <2>1. CallTypes' /\ SendingIsCurrent' /\ StateTypes'
    BY <1>2, CallsFacts DEF CallTypes, GameSteps, StateTypes
  <2>2. outbound' = outbound
    BY <1>2, CallsFacts DEF queues
  <2> QED BY <2>1, <2>2 DEF QueueTypes, PlainResults
<1>3. CASE SendCheck
  <2>1. gpc = "send" /\ UNCHANGED <<store, view, outbound>>
    BY <1>3 DEF SendCheck, queues
  <2>2. CallTypes' /\ SendingIsCurrent'
    <3>1. CASE NextMessage
      BY <2>1, <3>1, NextFacts
    <3>2. CASE gpc' = "push" /\ sending' = sending
      BY <2>1, <3>2 DEF CallTypes, GameSteps, SendingIsCurrent, IsCurrent
    <3> QED BY <1>3, <3>1, <3>2 DEF SendCheck
  <2> QED BY <2>1, <2>2 DEF QueueTypes, PlainResults, StateTypes
<1>4. CASE SendPush
  <2>1. QueueTypes'
    BY <1>4, SendPushFacts, PushFacts
  <2>2. CallTypes' /\ SendingIsCurrent'
    BY <1>4, SendPushFacts, NextFacts
  <2> QED BY <1>4, <2>1, <2>2, SendPushFacts DEF StateTypes
<1>5. CASE OtherCalls
  BY <1>5, OtherCallsFacts
  DEF CallTypes, SendingIsCurrent, IsCurrent, QueueTypes, PlainResults, StateTypes
<1>6. CASE UNCHANGED vars
  BY <1>6 DEF vars, gamevars, CallTypes, SendingIsCurrent, IsCurrent, QueueTypes, PlainResults,
              StateTypes
<1> QED BY <1>1, <1>2, <1>3, <1>4, <1>5, <1>6, GameParts DEF Next

THEOREM DataInvariant == Spec => []DataInv
BY DataInit, DataStep, PTL DEF Spec

\* Credentials are numbers.
Credentials == authed \in Nat /\ token \in Nat /\ issued \in Nat

LEMMA CredentialsStep == Credentials /\ [Next]_vars => Credentials'
BY DEF Credentials, Next, vars, Network, Game, Listen, ListenFails, LeaveLoop, Accept, Selected,
       Lost, BadFrame, Hello, Authenticate, Pair, Activate, SendSnapshot, StateRequest, Receive,
       FramesDone, Deadline, Revoked, Drain, CloseBegin, CloseExchange, CloseRelease, CloseClear,
       CloseReset, Exit, PublishEvent, PublishSnapshot, Lifecycle, SendResult, SendCheck, SendPush,
       Forget, DisconnectClient, TakeAll, Stop, StopDisconnect, Join, netvars, histvars

\* Flags are flags.
FlagTypes ==
  /\ running \in BOOLEAN /\ disconnect \in BOOLEAN
  /\ lossy \in BOOLEAN /\ carried \in BOOLEAN

LEMMA FlagStep == FlagTypes /\ [Next]_vars => FlagTypes'
BY DEF FlagTypes, HasData, Next, vars, Network, Game, Listen, ListenFails, LeaveLoop, Accept, Selected,
       Lost, BadFrame, Hello, Authenticate, Pair, Activate, SendSnapshot, StateRequest, Receive,
       FramesDone, Deadline, Revoked, Drain, CloseBegin, CloseExchange, CloseRelease, CloseClear,
       CloseReset, Exit, PublishEvent, PublishSnapshot, Lifecycle, SendResult, SendCheck, SendPush,
       Forget, DisconnectClient, TakeAll, Stop, StopDisconnect, Join, flags, histvars

-----------------------------------------------------------------------------
(* The boundary between two sessions.                                      *)

\* With no session, there is one message at most between the queue and the
\* Send that had seen connected_ set before closeClient cleared the queue.
GapInv ==
  ~connected /\ npc \notin {"release", "clear"} =>
    Len(outbound) + (IF gpc = "push" THEN 1 ELSE 0) <= 1

LEMMA GapStep == GapInv /\ DataInv /\ Control /\ [Next]_vars => GapInv'
<1> SUFFICES ASSUME GapInv, DataInv, Control, [Next]_vars,
                    ~connected', npc' \notin {"release", "clear"}
             PROVE  Len(outbound') + (IF gpc' = "push" THEN 1 ELSE 0) <= 1
  BY DEF GapInv
<1>c. Control'
  BY ControlStep
<1>1. CASE CloseClear
  <2>1. Len(outbound') = 0
    BY <1>1 DEF CloseClear
  <2> QED BY <2>1
<1>2. CASE Network /\ ~CloseClear
  <2>1. npc # "clear"
    BY <1>2 DEF Network, Listen, ListenFails, LeaveLoop, Accept, Selected, Lost, BadFrame, Hello,
       Authenticate, Pair, Activate, SendSnapshot, StateRequest, Receive, FramesDone, Deadline,
       Revoked, Drain, CloseBegin, CloseExchange, CloseRelease, CloseReset, Exit, Reading
  <2>2. npc # "release" /\ ~connected
    BY <1>2, <2>1 DEF Network, Listen, ListenFails, LeaveLoop, Accept, Selected, Lost, BadFrame, Hello,
       Authenticate, Pair, Activate, SendSnapshot, StateRequest, Receive, FramesDone, Deadline,
       Revoked, Drain, CloseBegin, CloseExchange, CloseRelease, CloseReset, Exit, Reading
  <2>3. outbound' = outbound
    BY <1>2, <2>2 DEF Control, Network, Listen, ListenFails, LeaveLoop, Accept, Selected, Lost, BadFrame, Hello,
       Authenticate, Pair, Activate, SendSnapshot, StateRequest, Receive, FramesDone, Deadline,
       Revoked, Drain, CloseBegin, CloseExchange, CloseRelease, CloseReset, Exit, queues
  <2> QED BY <1>2, <2>1, <2>2, <2>3, NetworkData DEF GapInv
<1>3. CASE Game \/ UNCHANGED vars
  <2>0. UNCHANGED <<npc, connected>>
    BY <1>3, GameKeepsControl DEF vars, netvars
  <2>1. Len(outbound) + (IF gpc = "push" THEN 1 ELSE 0) <= 1
    BY <2>0 DEF GapInv
  <2>2. CASE SendPush
    <3>1. gpc = "push" /\ Len(outbound) \in Nat
      BY <2>2, SendPushFacts DEF DataInv, QueueTypes
    <3>2. Len(outbound') <= Len(outbound) + 1
      BY <2>2, SendPushFacts, PushFacts DEF DataInv
    <3>3. gpc' # "push" /\ Len(outbound') \in Nat
      BY <2>2, DataStep DEF SendPush, NextMessage, DataInv, QueueTypes
    <3> QED BY <2>1, <3>1, <3>2, <3>3
  <2>3. CASE ~SendPush
    <3>1. outbound' = outbound /\ (gpc' = "push" => gpc = "push")
      <4>1. CASE Calls
        BY <4>1, CallsFacts DEF DataInv, queues
      <4>2. CASE SendCheck
        BY <2>0, <4>2 DEF SendCheck, NextMessage, queues
      <4>3. CASE OtherCalls
        BY <4>3, OtherCallsFacts
      <4>4. CASE UNCHANGED vars
        BY <4>4 DEF vars, gamevars
      <4> QED BY <1>3, <2>3, <4>1, <4>2, <4>3, <4>4, GameParts
    <3> QED BY <2>1, <3>1
  <2> QED BY <2>2, <2>3
<1> QED BY <1>1, <1>2, <1>3 DEF Next

-----------------------------------------------------------------------------
(* Convergence.                                                            *)

\* A client that shows v will show the state: what it does not yet show of it is
\* queued, or about to be.
Converging(v) == \A t \in Topics : ToCome(t) \/ Tells(v, outbound, t, store[t])

\* With nothing dropped and nothing left of the session before, a snapshot
\* taken now would do, and after it what the client has been sent does.
ConvInv ==
  ~lossy /\ ~carried => /\ npc = "snapshot" => Converging(store)
                        /\ Serving => Converging(view)

\* Where nothing is queued, what the client shows is all there is.
LEMMA NothingQueued ==
  ASSUME StateTypes, ~HasData(outbound)
  PROVE  \A t \in Topics : Tells(store, outbound, t, store[t])
BY DEF HasData, Tells

\* A snapshot that overtakes the queue is as good as what it takes the place of.
LEMMA SnapshotTells ==
  ASSUME NEW v, NEW t, Tells(v, outbound, t, store[t])
  PROVE  Tells(store, outbound, t, store[t])
BY DEF Tells

\* The steps of the network thread that neither send nor begin a session.
LEMMA OtherNetworkFacts ==
  ASSUME Control, Network, ~Activate, ~SendSnapshot, ~StateRequest, ~Drain
  PROVE  /\ npc' # "snapshot"
         /\ Serving' => Serving /\ outbound' = outbound
         /\ UNCHANGED <<view, lossy, carried>>
<1>1. UNCHANGED <<view, lossy, carried>>
  BY DEF Network, Listen, ListenFails, LeaveLoop, Accept, Selected, Lost, BadFrame, Hello,
         Authenticate, Pair, Receive, FramesDone, Deadline, Revoked, CloseBegin, CloseExchange,
         CloseRelease, CloseClear, CloseReset, Exit, histvars
<1>2. npc' # "snapshot"
  BY DEF Control, Resumptions, Network, Listen, ListenFails, LeaveLoop, Accept, Selected, Lost,
         BadFrame, Hello, Authenticate, Pair, Receive, FramesDone, Deadline, Revoked, CloseBegin,
         CloseExchange, CloseRelease, CloseClear, CloseReset, Exit, CloseTo, Reading
<1>3. Serving' => Serving
  BY DEF Serving, Control, Resumptions, Network, Listen, ListenFails, LeaveLoop, Accept, Selected, Lost,
         BadFrame, Hello, Authenticate, Pair, Receive, FramesDone, Deadline, Revoked, CloseBegin,
         CloseExchange, CloseRelease, CloseClear, CloseReset, Exit, CloseTo, Reading
<1>4. Serving' => outbound' = outbound
  BY DEF Serving, Control, Network, Listen, ListenFails, LeaveLoop, Accept, Selected, Lost,
         BadFrame, Hello, Authenticate, Pair, Receive, FramesDone, Deadline, Revoked, CloseBegin,
         CloseExchange, CloseRelease, CloseClear, CloseReset, Exit, queues
<1> QED BY <1>1, <1>2, <1>3, <1>4

\* What a message does to a client that would converge on v.
LEMMA PushConverges ==
  ASSUME DataInv, SendPush, ~lossy', ~carried', NEW v,
         ~lossy /\ ~carried => Converging(v)
  PROVE  \A t \in Topics : ToCome(t)' \/ Tells(v, outbound', t, store[t])
<1> DEFINE m == Head(sending)
           q == MakeRoom(outbound, m)
<1>0. /\ gpc = "push" /\ store' = store /\ NextMessage /\ IsCurrent(m, store)
      /\ outbound' = IF Fits(q) THEN Append(q, m) ELSE q
  BY SendPushFacts
<1>1. \A t \in Topics :
        /\ Fits(q) /\ t \in DOMAIN m.data => Tells(v, outbound', t, store[t])
        /\ /\ t \notin DOMAIN m.data /\ Reports(q, t) = Reports(outbound, t)
           /\ Tells(v, outbound, t, store[t])
           => Tells(v, outbound', t, store[t])
  BY <1>0, PushFacts DEF DataInv
<1>2. \A t : ToCome(t) => t \in DOMAIN m.data \/ ToCome(t)'
  BY <1>0, NextFacts DEF DataInv
<1>3. \/ Fits(q) /\ m.kind = "snapshot"
      \/ /\ ~lossy /\ ~carried
         /\ Fits(q) \/ ~Replaceable(m)
         /\ \A t \in Topics \ DOMAIN m.data : Reports(q, t) = Reports(outbound, t)
  BY DEF SendPush
<1>4. m.kind = "snapshot" => DOMAIN m.data = Topics
  BY <1>0 DEF IsCurrent
<1>5. ~Replaceable(m) => DOMAIN m.data = {}
  BY <1>0 DEF IsCurrent, Replaceable
<1> HIDE DEF m, q
<1> TAKE t \in Topics
<1>6. CASE Fits(q) /\ t \in DOMAIN m.data
  BY <1>1, <1>6
<1>7. CASE ~(Fits(q) /\ t \in DOMAIN m.data)
  <2>1. ~lossy /\ ~carried /\ t \notin DOMAIN m.data /\ Reports(q, t) = Reports(outbound, t)
    BY <1>3, <1>4, <1>5, <1>7
  <2>2. ToCome(t) \/ Tells(v, outbound, t, store[t])
    BY <2>1 DEF Converging
  <2> QED BY <1>1, <1>2, <2>1, <2>2
<1> QED BY <1>6, <1>7

LEMMA ConvStep == ConvInv /\ DataInv /\ Control /\ [Next]_vars => ConvInv'
<1> SUFFICES ASSUME ConvInv, DataInv, Control, [Next]_vars, ~lossy', ~carried'
             PROVE  /\ npc' = "snapshot" => Converging(store)'
                    /\ Serving' => Converging(view)'
  BY DEF ConvInv
<1>c. Control' /\ StateTypes
  BY ControlStep DEF DataInv
<1>1. CASE Activate
  <2>1. /\ ~HasData(outbound) /\ UNCHANGED <<outbound, store, sending>>
        /\ npc' = "snapshot"
    BY <1>1 DEF Activate, queues, gamevars
  <2> QED BY <1>c, <2>1, NothingQueued DEF Converging, Serving
<1>2. CASE SendSnapshot
  <2>1. /\ npc = "snapshot" /\ npc' = "read" /\ UNCHANGED <<outbound, store, sending>>
        /\ view' = store /\ ~lossy /\ ~carried
    BY <1>2 DEF SendSnapshot, queues, gamevars
  <2>2. Converging(store)
    BY <2>1 DEF ConvInv
  <2> QED BY <2>1, <2>2 DEF Converging, ToCome
<1>3. CASE StateRequest
  <2>1. /\ npc' = npc /\ npc = "read" /\ UNCHANGED <<outbound, store, sending, client, phase>>
        /\ view' = store /\ Serving
        /\ ~HasData(outbound) \/ (~lossy /\ ~carried)
    BY <1>3 DEF StateRequest, Reading, queues, gamevars, Serving
  <2>2. \A t \in Topics : ToCome(t) \/ Tells(store, outbound, t, store[t])
    <3>1. CASE ~HasData(outbound)
      BY <1>c, <3>1, NothingQueued
    <3>2. CASE ~lossy /\ ~carried
      BY <2>1, <3>2, SnapshotTells DEF ConvInv, Converging
    <3> QED BY <2>1, <3>1, <3>2
  <2> QED BY <2>1, <2>2 DEF Converging, ToCome
<1>4. CASE Drain
  <2>1. npc = "drain" /\ npc' # "snapshot" /\ ~lossy /\ ~carried /\ UNCHANGED <<store, sending>>
    BY <1>4 DEF Drain, CloseTo, gamevars, histvars
  <2>2. ASSUME Serving' PROVE Converging(view)'
    <3>1. /\ Serving /\ outbound' = <<>>
          /\ view' = [t \in Topics |-> Shown(view, outbound, t)]
      BY <1>4, <2>2 DEF Drain, CloseTo, Serving
    <3>2. \A t \in Topics : ToCome(t) \/ Tells(view, outbound, t, store[t])
      BY <2>1, <3>1 DEF ConvInv, Converging
    <3>3. \A t \in Topics : ToCome(t) \/ view'[t] = store[t]
      BY <3>1, <3>2, TellsFacts DEF DataInv, QueueTypes
    <3>4. \A t : Reports(outbound', t) = {}
      BY <3>1 DEF Reports
    <3> QED BY <2>1, <3>3, <3>4 DEF Converging, Tells, ToCome
  <2> QED BY <2>1, <2>2
<1>5. CASE Network /\ ~Activate /\ ~SendSnapshot /\ ~StateRequest /\ ~Drain
  <2>1. /\ npc' # "snapshot" /\ UNCHANGED <<view, lossy, carried, store, sending>>
        /\ Serving' => Serving /\ outbound' = outbound
    BY <1>5, OtherNetworkFacts, NetworkData
  <2> QED BY <2>1 DEF ConvInv, Converging, ToCome
<1>6. CASE Calls
  <2>1. /\ \A t \in Topics : store'[t] = store[t] \/ ToCome(t)'
        /\ UNCHANGED <<npc, client, phase, outbound, view, lossy, carried>>
        /\ sending = <<>>
    BY <1>6, CallsFacts DEF DataInv, netvars, queues, histvars
  <2>2. \A t : ~ToCome(t)
    BY <2>1 DEF ToCome
  <2>3. /\ npc = "snapshot" => \A t \in Topics : Tells(store, outbound, t, store[t])
        /\ Serving => \A t \in Topics : Tells(view, outbound, t, store[t])
    BY <2>1, <2>2 DEF ConvInv, Converging
  <2>4. ASSUME NEW t \in Topics, Tells(store, outbound, t, store[t]), store'[t] = store[t]
        PROVE  Tells(store', outbound, t, store'[t])
    BY <2>4 DEF Tells
  <2> QED BY <2>1, <2>3, <2>4 DEF Converging, Serving
<1>7. CASE SendCheck
  <2>1. UNCHANGED <<npc, client, phase, outbound, store, view, lossy, carried>>
    BY <1>7 DEF SendCheck, netvars, queues, histvars
  <2>2. CASE connected
    <3>1. sending' = sending
      BY <1>7, <2>2 DEF SendCheck
    <3> QED BY <2>1, <3>1 DEF ConvInv, Converging, ToCome, Serving
  <2>3. CASE ~connected
    BY <2>1, <2>3 DEF Control, Serving
  <2> QED BY <2>2, <2>3
<1>8. CASE SendPush
  <2>1. UNCHANGED <<npc, client, phase, store, view>>
    BY <1>8, SendPushFacts
  <2>2. npc = "snapshot" => \A t \in Topics : ToCome(t)' \/ Tells(store, outbound', t, store[t])
    BY <1>8, PushConverges DEF ConvInv
  <2>3. Serving => \A t \in Topics : ToCome(t)' \/ Tells(view, outbound', t, store[t])
    BY <1>8, PushConverges DEF ConvInv
  <2> QED BY <2>1, <2>2, <2>3 DEF Converging, Serving
<1>9. CASE OtherCalls
  BY <1>9, OtherCallsFacts DEF ConvInv, Converging, ToCome, Serving
<1>10. CASE UNCHANGED vars
  BY <1>10 DEF vars, netvars, gamevars, histvars, ConvInv, Converging, ToCome, Serving
<1> QED BY <1>1, <1>2, <1>3, <1>4, <1>5, <1>6, <1>7, <1>8, <1>9, <1>10, GameParts DEF Next

\* What is queued and what is to be queued, read as one queue.
LEMMA QueueTells ==
  ASSUME DataInv, NEW t \in Topics, ToCome(t) \/ Tells(view, outbound, t, store[t])
  PROVE  Shown(view, outbound \o sending, t) = store[t]
<1> DEFINE s == outbound \o sending
           n == Len(outbound)
<1>o. outbound \in Seq(Messages) /\ sending \in Seq(Messages) /\ n \in Nat /\ Len(sending) \in Nat
  BY DEF DataInv, QueueTypes, SendingIsCurrent
<1>1. /\ s \in Seq(Messages) /\ Len(s) = n + Len(sending)
      /\ \A i \in 1..(n + Len(sending)) : s[i] = IF i <= n THEN outbound[i] ELSE sending[i - n]
  BY <1>o, ConcatProperties
<1> HIDE DEF s
<1>2. CASE ToCome(t)
  <2>1. PICK k \in 1..Len(sending) : t \in DOMAIN sending[k].data
    BY <1>2 DEF ToCome
  <2>2. n + k \in Reports(s, t)
    <3>1. n + k \in 1..Len(s) /\ ~(n + k <= n) /\ (n + k) - n = k
      BY <1>o, <1>1
    <3>2. s[n + k] = sending[k]
      BY <1>1, <3>1
    <3> QED BY <2>1, <3>1, <3>2 DEF Reports
  <2>3. Reports(s, t) \in SUBSET (1..Len(s)) /\ Len(s) \in Nat
    BY <1>o, <1>1 DEF Reports
  <2>4. PICK i \in Reports(s, t) : \A j \in Reports(s, t) : j <= i
    BY <2>2, <2>3, LastExists
  <2>5. i \in 1..Len(s) /\ n + k <= i /\ t \in DOMAIN s[i].data
    BY <2>2, <2>3, <2>4 DEF Reports
  <2>6. i - n \in 1..Len(sending) /\ s[i] = sending[i - n]
    BY <1>o, <1>1, <2>5
  <2>7. s[i].data[t] = store[t]
    BY <2>5, <2>6 DEF DataInv, SendingIsCurrent, IsCurrent
  <2>8. Tells(view, s, t, store[t])
    BY <2>4, <2>7 DEF Tells
  <2> QED BY <1>1, <2>8, TellsFacts DEF s
<1>3. CASE ~ToCome(t)
  <2>1. ASSUME NEW i PROVE i \in Reports(s, t) <=> i \in Reports(outbound, t)
    <3>1. ASSUME i \in Reports(s, t) PROVE i \in Reports(outbound, t)
      <4>1. i \in 1..(n + Len(sending)) /\ t \in DOMAIN s[i].data
        BY <1>1, <3>1 DEF Reports
      <4>2. CASE i <= n
        <5>1. i \in 1..n /\ s[i] = outbound[i]
          BY <1>o, <1>1, <4>1, <4>2
        <5> QED BY <4>1, <5>1 DEF Reports
      <4>3. CASE ~(i <= n)
        <5>1. i - n \in 1..Len(sending) /\ s[i] = sending[i - n]
          BY <1>o, <1>1, <4>1, <4>3
        <5> QED BY <1>3, <4>1, <5>1 DEF ToCome
      <4> QED BY <4>2, <4>3
    <3>2. ASSUME i \in Reports(outbound, t) PROVE i \in Reports(s, t)
      <4>1. i \in 1..n /\ t \in DOMAIN outbound[i].data
        BY <3>2 DEF Reports
      <4>2. i \in 1..Len(s) /\ i <= n /\ s[i] = outbound[i]
        BY <1>o, <1>1, <4>1
      <4> QED BY <4>1, <4>2 DEF Reports
    <3> QED BY <3>1, <3>2
  <2>2. Reports(s, t) = Reports(outbound, t)
    BY <2>1
  <2>3. \A i \in Reports(outbound, t) : s[i] = outbound[i]
    BY <1>o, <1>1 DEF Reports
  <2>4. Tells(view, s, t, store[t])
    BY <1>3, <2>2, <2>3 DEF Tells
  <2> QED BY <1>1, <2>4, TellsFacts DEF s
<1> QED BY <1>2, <1>3

-----------------------------------------------------------------------------
\* The inductive invariant of the data.
LEMMA ServerInvariant == Spec => [](Control /\ DataInv /\ GapInv /\ ConvInv)
<1>1. Init => GapInv /\ ConvInv
  BY DEF Init, GapInv, ConvInv, Serving
<1>2. ConvInv /\ GapInv /\ DataInv /\ Control /\ [Next]_vars => (ConvInv /\ GapInv)'
  BY ConvStep, GapStep
<1> QED BY <1>1, <1>2, ControlInvariant, DataInvariant, PTL DEF Spec

\* What the client shows converges to the state, whatever the order of
\* snapshot_(), Send and the drain.
THEOREM ClientsConverge == Spec => []ClientConverges
<1>1. DataInv /\ ConvInv => ClientConverges
  <2> SUFFICES ASSUME DataInv, ConvInv, Serving, ~lossy, ~carried, NEW t \in Topics
               PROVE  Shown(view, outbound \o sending, t) = store[t]
    BY DEF ClientConverges
  <2>1. ToCome(t) \/ Tells(view, outbound, t, store[t])
    BY DEF ConvInv, Converging
  <2> QED BY <2>1, QueueTells
<1> QED BY <1>1, ServerInvariant, PTL

\* Send's unlocked check of connected_ lets one message through at most.
THEOREM OneMessageGetsThrough == Spec => []OneMessageBetweenSessions
<1>1. Control /\ DataInv /\ GapInv => OneMessageBetweenSessions
  <2> SUFFICES ASSUME Control, DataInv, GapInv, ~client, npc = "select"
               PROVE  Len(outbound) <= 1
    BY DEF OneMessageBetweenSessions
  <2>1. Len(outbound) + (IF gpc = "push" THEN 1 ELSE 0) <= 1 /\ Len(outbound) \in Nat
    BY DEF Control, GapInv, DataInv, QueueTypes
  <2> QED BY <2>1
<1> QED BY <1>1, ServerInvariant, PTL

\* The types of the server; neither queue exceeds its capacity.
THEOREM ServerTypes == Spec => []TypeOK
<1>0. Init => Credentials
  BY DEF Init, Credentials
<1>1. Init => FlagTypes
  BY DEF Init, FlagTypes
<1>2. SLP!SLInv => commands \in Seq(SL!Commands) /\ Len(commands) <= MaxCommands
  BY DEF SLP!SLInv, SLP!SLTypeOK, SLP!Commands, SL!Commands, SLP!ReleaseAll, SL!ReleaseAll
<1>3. /\ Control /\ DataInv /\ SessionNumber /\ Credentials /\ FlagTypes
      /\ commands \in Seq(SL!Commands) /\ Len(commands) <= MaxCommands
      => TypeOK
  BY DEF TypeOK, Control, NetworkSteps, Resumptions, DataInv, StateTypes, CallTypes, QueueTypes,
         SendingIsCurrent, SessionNumber, Credentials, FlagTypes
<1>4. Spec => []Credentials /\ []FlagTypes
  BY <1>0, <1>1, CredentialsStep, FlagStep, PTL DEF Spec
<1> QED BY <1>2, <1>3, <1>4, ServerInvariant, SessionInvariant, LayerInvariant, PTL
=============================================================================
