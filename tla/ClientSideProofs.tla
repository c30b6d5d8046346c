------------------------- MODULE ClientSideProofs -------------------------
(***************************************************************************)
(* InputDispatcher and ClientSide for every set of inputs and commands,    *)
(* every size of the queue, every number of sessions, any addresses, maps, *)
(* phases and tiles: what is held down in the game belongs to the session  *)
(* that is up or is about to be released, a Reset finds nothing of the     *)
(* overlay's, and the tiles are those of the phase.                        *)
(***************************************************************************)
EXTENDS ClientSide, SessionLayerProofs

\* What a step of InputDispatcher does to the link and the queue is a step of
\* SessionLayer, or nothing.
LEMMA StepOfLayer == [Next]_vars => [SLNext]_slvars
BY DEF Next, vars, NetworkStep, EndRelease, OnUpdate, Dispatch, WorldLeave, SLNext, Network

\* The batch, once its first command is done with.
LEMMA TailFacts ==
  ASSUME NEW S, NEW q \in Seq(S), q # <<>>
  PROVE  /\ Head(q) = q[1] /\ Head(q) \in S
         /\ Tail(q) \in Seq(S)
         /\ Len(q) \in Nat /\ Len(q) >= 1 /\ Len(Tail(q)) = Len(q) - 1
         /\ \A i \in 1..Len(Tail(q)) : i + 1 \in 1..Len(q) /\ Tail(q)[i] = q[i + 1]
OBVIOUS

\* A request's input is one of the inputs there are.
LEMMA OutcomeFacts ==
  ASSUME NEW p \in Payload, held \subseteq Inputs, NEW h \in Outcomes(p)
  PROVE  h \subseteq Inputs
<1> USE InputDispatcherAssumption
<1>1. \A k \in SUBSET p.inputs : k \subseteq Inputs
  OBVIOUS
<1> QED BY <1>1 DEF Outcomes, Pressed, Released, PressedAndReleased

LEMMA RequestFacts ==
  ASSUME NEW c \in Commands, IsRequest(c)
  PROVE  c.session \in Nat /\ c.payload \in Payload
BY DEF Commands, IsRequest, ReleaseAll

\* The types; a session that is ending has been numbered.
InputTypeInv ==
  /\ InputTypeOK
  /\ link \in {"closing", "releasing"} => session > 0

LEMMA InputTypeStep == InputTypeInv /\ [Next]_vars => InputTypeInv'
<1> SUFFICES ASSUME InputTypeInv, [Next]_vars PROVE InputTypeInv'
  OBVIOUS
<1>s. [SLNext]_slvars /\ SLTypeOK
  BY StepOfLayer DEF InputTypeInv, InputTypeOK
<1>t. SLTypeOK'
  BY <1>s, SLTypeStep
<1>n. link' \in {"closing", "releasing"} => session' > 0
  BY <1>s DEF InputTypeInv, SLTypeOK, Links, SLNext, Network, slvars, Activate, Receive,
              EndSession, Disconnect, Release, TakeAll
<1> USE <1>t, <1>n DEF InputTypeInv, InputTypeOK
<1>1. CASE NetworkStep
  BY <1>1 DEF NetworkStep
<1>2. CASE EndRelease
  <2>1. link = "releasing" /\ session - 1 \in Nat
    BY <1>2 DEF EndRelease, Release, SLTypeOK
  <2> QED BY <1>2, <2>1 DEF EndRelease
<1>3. CASE OnUpdate
  BY <1>3 DEF OnUpdate, SLTypeOK
<1>4. CASE Dispatch
  <2> DEFINE c == Head(pending)
  <2>1. c \in Commands /\ pending' \in Seq(Commands) /\ refused' = refused
    BY <1>4, TailFacts DEF Dispatch
  <2>2. ASSUME IsRequest(c), NEW h \in Outcomes(c.payload), Hold(h, c.session)
        PROVE  held' \subseteq Inputs /\ owner' \in [Inputs -> Nat] /\ stuck' \subseteq held'
    BY <2>1, <2>2, RequestFacts, OutcomeFacts DEF Hold
  <2>3. ASSUME ReleaseHeld
        PROVE  held' \subseteq Inputs /\ owner' \in [Inputs -> Nat] /\ stuck' \subseteq held'
    BY <2>3 DEF ReleaseHeld
  <2> QED BY <1>4, <2>1, <2>2, <2>3 DEF Dispatch
<1>5. CASE WorldLeave
  BY <1>5 DEF WorldLeave, ReleaseHeld
<1>6. CASE UNCHANGED vars
  BY <1>6 DEF vars
<1> QED BY <1>1, <1>2, <1>3, <1>4, <1>5, <1>6 DEF Next

LEMMA InputInitTypes == Init => InputTypeInv
BY SLInitInv DEF Init, SLInv, InputTypeInv, InputTypeOK, SLInit

-----------------------------------------------------------------------------
(* Whose release is due.                                                   *)

HasRelease(q) == \E i \in 1..Len(q) : ~IsRequest(q[i])

\* Session s is up, or closeClient has ended it and has its ReleaseAll still to
\* queue, or could not queue it.
Held(s) ==
  \/ link = "up" /\ s = session
  \/ link \in {"closing", "releasing"} /\ s + 1 = session
  \/ s \in refused

\* Whatever session s holds down, or may still press, is followed by a
\* ReleaseAll in what the game thread has still to do.
HeldFollowed ==
  \A k \in held :
    k \in stuck \/ Held(owner[k]) \/ HasRelease(pending) \/ HasRelease(commands)

PendingFollowed ==
  \A i \in 1..Len(pending) : IsRequest(pending[i]) =>
    \/ Held(pending[i].session)
    \/ HasRelease(commands)
    \/ \E j \in i..Len(pending) : ~IsRequest(pending[j])

CommandsFollowed ==
  \A i \in 1..Len(commands) : IsRequest(commands[i]) =>
    \/ Held(commands[i].session)
    \/ \E j \in i..Len(commands) : ~IsRequest(commands[j])

\* The inductive invariant.
HeldInv == InputTypeInv /\ HeldFollowed /\ PendingFollowed /\ CommandsFollowed

\* A session stays held until its ReleaseAll is in the queue.
LEMMA HeldStays ==
  ASSUME InputTypeOK, NEW s \in Nat, Held(s), [Next]_vars
  PROVE  Held(s)' \/ (EndRelease /\ commands' = Append(commands, ReleaseAll))
<1> USE DEF Held
<1>1. CASE NetworkStep
  BY <1>1 DEF NetworkStep, Activate, Receive, EndSession, Disconnect, InputTypeOK, SLTypeOK
<1>2. CASE EndRelease
  BY <1>2, SessionLayerAssumption
  DEF EndRelease, Release, Enqueue, InputTypeOK, SLTypeOK
<1>3. CASE OnUpdate \/ Dispatch \/ WorldLeave \/ UNCHANGED vars
  BY <1>3 DEF OnUpdate, TakeAll, Dispatch, WorldLeave, vars, slvars
<1> QED BY <1>1, <1>2, <1>3 DEF Next

\* Enqueue keeps what is queued and adds nothing but its command.
LEMMA EnqueueAdds ==
  ASSUME NEW q \in Seq(Commands), NEW c \in Commands, Len(q) <= MaxCommands
  PROVE  /\ Len(q) \in Nat /\ Len(Enqueue(q, c)) \in Nat /\ Len(Enqueue(q, c)) >= Len(q)
         /\ \A i \in 1..Len(q) : i \in 1..Len(Enqueue(q, c)) /\ Enqueue(q, c)[i] = q[i]
         /\ \A i \in 1..Len(Enqueue(q, c)) : i \in 1..Len(q) \/ Enqueue(q, c)[i] = c
<1> Enqueue(q, c) = q \/ Enqueue(q, c) = Append(q, c)
  BY DEF Enqueue
<1> QED OBVIOUS

\* What the network thread adds to the queue is a request of the session that
\* is up, or a ReleaseAll.
Grown ==
  /\ Len(commands) \in Nat /\ Len(commands') \in Nat /\ Len(commands') >= Len(commands)
  /\ \A i \in 1..Len(commands) : i \in 1..Len(commands') /\ commands'[i] = commands[i]
  /\ \A i \in 1..Len(commands') :
       \/ i \in 1..Len(commands)
       \/ ~IsRequest(commands'[i])
       \/ link' = "up" /\ commands'[i].session = session'

LEMMA QueueGrows ==
  ASSUME InputTypeOK, NetworkStep \/ EndRelease
  PROVE  Grown
<1> commands \in Seq(Commands) /\ Len(commands) <= MaxCommands
  BY DEF InputTypeOK, SLTypeOK
<1>1. ASSUME NEW p \in Payload, Receive(p) PROVE Grown
  <2>1. Request(session, p) \in Commands /\ Request(session, p).session = session
    BY DEF Request, Commands, InputTypeOK, SLTypeOK
  <2>2. /\ commands' = Enqueue(commands, Request(session, p))
        /\ link' = "up" /\ session' = session
    BY <1>1 DEF Receive
  <2> HIDE DEF Request
  <2> QED BY <2>1, <2>2, EnqueueAdds DEF Grown
<1>2. CASE EndRelease
  <2>1. ReleaseAll \in Commands /\ ~IsRequest(ReleaseAll)
    BY KindFacts DEF Commands
  <2>2. commands' = Enqueue(commands, ReleaseAll)
    BY <1>2 DEF EndRelease, Release
  <2> QED BY <2>1, <2>2, EnqueueAdds DEF Grown
<1>3. CASE commands' = commands
  BY <1>3 DEF Grown
<1> QED BY <1>1, <1>2, <1>3 DEF NetworkStep, Activate, EndSession, Disconnect

\* A step of the network thread.
LEMMA NetworkKeepsHeld ==
  ASSUME HeldInv, NetworkStep \/ EndRelease
  PROVE  HeldInv'
<1>1. InputTypeOK /\ [Next]_vars /\ InputTypeInv'
  BY InputTypeStep DEF HeldInv, InputTypeInv, Next
<1>2. /\ pending \in Seq(Commands) /\ commands \in Seq(Commands)
      /\ held' = held /\ owner' = owner /\ stuck' = stuck /\ pending' = pending
  BY <1>1 DEF InputTypeOK, SLTypeOK, NetworkStep, EndRelease
<1>3. \A s \in Nat : Held(s) => Held(s)' \/ HasRelease(commands)'
  <2> SUFFICES ASSUME NEW s \in Nat, Held(s), EndRelease, commands' = Append(commands, ReleaseAll)
               PROVE  HasRelease(commands)'
    BY <1>1, HeldStays
  <2> QED BY <1>2, KindFacts DEF HasRelease
<1>g. Grown
  BY <1>1, QueueGrows
<1>4. HasRelease(commands) => HasRelease(commands)'
  BY <1>g DEF HasRelease, Grown
<1>5. HeldFollowed'
  <2> SUFFICES ASSUME NEW k \in held
               PROVE  k \in stuck \/ Held(owner[k])' \/ HasRelease(pending) \/ HasRelease(commands)'
    BY <1>2 DEF HeldFollowed, HasRelease
  <2>1. owner[k] \in Nat /\ owner'[k] = owner[k]
    BY <1>1, <1>2 DEF InputTypeOK
  <2>2. Held(owner[k]) => Held(owner[k])' \/ HasRelease(commands)'
    BY <1>3, <2>1 DEF Held
  <2> QED BY <1>4, <2>2 DEF HeldInv, HeldFollowed
<1>6. PendingFollowed'
  <2> SUFFICES ASSUME NEW i \in 1..Len(pending), IsRequest(pending[i])
               PROVE  \/ Held(pending[i].session)' \/ HasRelease(commands)'
                      \/ \E j \in i..Len(pending) : ~IsRequest(pending[j])
    BY <1>2 DEF PendingFollowed
  <2>1. pending[i].session \in Nat /\ pending'[i] = pending[i]
    BY <1>2, RequestFacts
  <2>2. Held(pending[i].session) => Held(pending[i].session)' \/ HasRelease(commands)'
    BY <1>3, <2>1 DEF Held
  <2> QED BY <1>4, <2>2 DEF HeldInv, PendingFollowed
<1>7. CommandsFollowed'
  <2> SUFFICES ASSUME NEW i \in 1..Len(commands'), IsRequest(commands'[i])
               PROVE  \/ Held(commands[i].session)'
                      \/ \E j \in i..Len(commands') : ~IsRequest(commands'[j])
    BY DEF CommandsFollowed
  <2>1. CASE i \in 1..Len(commands)
    <3>1. commands'[i] = commands[i] /\ IsRequest(commands[i])
      BY <1>g, <2>1 DEF Grown
    <3>2. CASE \E j \in i..Len(commands) : ~IsRequest(commands[j])
      <4>1. PICK j \in i..Len(commands) : ~IsRequest(commands[j])
        BY <3>2
      <4>2. j \in 1..Len(commands) /\ j \in i..Len(commands')
        BY <1>g, <2>1, <4>1 DEF Grown
      <4> QED BY <1>g, <4>1, <4>2 DEF Grown
    <3>3. CASE Held(commands[i].session)
      <4>1. commands[i].session \in Nat
        BY <1>2, <2>1, <3>1, RequestFacts
      <4>2. CASE commands' = Append(commands, ReleaseAll)
        BY <1>2, <2>1, <4>2, KindFacts
      <4> QED BY <1>1, <3>1, <3>3, <4>1, <4>2, HeldStays DEF Held
    <3> QED BY <2>1, <3>1, <3>2, <3>3 DEF HeldInv, CommandsFollowed
  <2>2. CASE link' = "up" /\ commands'[i].session = session'
    BY <2>2 DEF Held
  <2> QED BY <1>g, <2>1, <2>2 DEF Grown
<1> QED BY <1>1, <1>5, <1>6, <1>7 DEF HeldInv

\* One command of the batch.
LEMMA DispatchKeepsHeld ==
  ASSUME HeldInv, Dispatch
  PROVE  HeldInv'
<1> DEFINE c == Head(pending)
<1>1. InputTypeOK /\ [Next]_vars /\ InputTypeInv'
  BY InputTypeStep DEF HeldInv, InputTypeInv, Next
<1>2. /\ pending # <<>> /\ pending \in Seq(Commands) /\ pending' = Tail(pending)
      /\ commands' = commands /\ link' = link /\ session' = session /\ refused' = refused
  BY <1>1 DEF InputTypeOK, Dispatch, slvars
<1>3. /\ c = pending[1] /\ c \in Commands
      /\ Len(pending) \in Nat /\ Len(pending) >= 1 /\ Len(pending') = Len(pending) - 1
      /\ \A i \in 1..Len(pending') : i + 1 \in 1..Len(pending) /\ pending'[i] = pending[i + 1]
  BY <1>2, TailFacts
<1>5. \A j \in 2..Len(pending) : j - 1 \in 1..Len(pending') /\ pending'[j - 1] = pending[j]
  BY <1>3
<1>6. PendingFollowed'
  <2> SUFFICES ASSUME NEW i \in 1..Len(pending'), IsRequest(pending'[i])
               PROVE  \/ Held(pending[i].session)' \/ HasRelease(commands)'
                      \/ \E j \in i..Len(pending') : ~IsRequest(pending'[j])
    BY DEF PendingFollowed
  <2>1. i + 1 \in 1..Len(pending) /\ pending'[i] = pending[i + 1]
    BY <1>3
  <2>2. CASE \E j \in (i + 1)..Len(pending) : ~IsRequest(pending[j])
    <3>1. PICK j \in (i + 1)..Len(pending) : ~IsRequest(pending[j])
      BY <2>2
    <3>2. j \in 2..Len(pending) /\ j - 1 \in i..Len(pending')
      BY <1>3, <3>1
    <3> QED BY <1>5, <3>1, <3>2
  <2>3. CASE HasRelease(commands)
    BY <1>2, <2>3 DEF HasRelease
  <2>4. CASE Held(pending[i + 1].session)
    BY <1>2, <2>1, <2>4 DEF Held
  <2> QED BY <2>1, <2>2, <2>3, <2>4 DEF HeldInv, PendingFollowed
<1>7. CommandsFollowed'
  BY <1>2 DEF HeldInv, CommandsFollowed, Held
<1>8. HeldFollowed'
  <2>1. CASE ~IsRequest(c)
    BY <2>1 DEF Dispatch, ReleaseHeld, HeldFollowed
  <2>2. CASE IsRequest(c)
    <3>1. PICK h \in Outcomes(c.payload) : Hold(h, c.session)
      BY <2>2 DEF Dispatch
    <3>2. SUFFICES ASSUME NEW k \in h
                   PROVE  k \in stuck' \/ Held(owner[k])' \/ HasRelease(pending)' \/ HasRelease(commands)
      BY <1>2, <3>1 DEF HeldFollowed, HasRelease, Hold
    <3>3. /\ k \in Inputs /\ (k \in stuck => k \in stuck')
          /\ owner'[k] = IF k \in h \ held THEN c.session ELSE owner[k]
      BY <1>1, <3>1 DEF Hold, InputTypeInv, InputTypeOK
    <3>4. HasRelease(pending) => HasRelease(pending)'
      <4> SUFFICES ASSUME NEW j \in 1..Len(pending), ~IsRequest(pending[j])
                   PROVE  \E i \in 1..Len(pending') : ~IsRequest(pending'[i])
        BY DEF HasRelease
      <4>1. j \in 2..Len(pending)
        BY <1>3, <2>2
      <4> QED BY <1>5, <4>1
    <3>5. \A s : Held(s) /\ owner'[k] = s => Held(owner[k])'
      BY <1>2 DEF Held
    <3>6. CASE k \in held
      BY <3>3, <3>4, <3>5, <3>6 DEF HeldInv, HeldFollowed
    <3>7. CASE k \notin held
      <4>1. Held(c.session) \/ HasRelease(commands) \/ HasRelease(pending)
        BY <1>3, <2>2 DEF HeldInv, PendingFollowed, HasRelease
      <4> QED BY <3>3, <3>4, <3>5, <3>7, <4>1
    <3> QED BY <3>6, <3>7
  <2> QED BY <2>1, <2>2
<1> QED BY <1>1, <1>6, <1>7, <1>8 DEF HeldInv

LEMMA HeldStep == HeldInv /\ [Next]_vars => HeldInv'
<1> SUFFICES ASSUME HeldInv, [Next]_vars PROVE HeldInv'
  OBVIOUS
<1>t. InputTypeOK /\ InputTypeInv'
  BY InputTypeStep DEF HeldInv, InputTypeInv
<1>1. CASE NetworkStep \/ EndRelease
  BY <1>1, NetworkKeepsHeld
<1>2. CASE OnUpdate
  <2>1. /\ pending' = commands /\ commands' = <<>> /\ pending = <<>>
        /\ UNCHANGED <<link, session, refused, held, owner, stuck>>
    BY <1>2 DEF OnUpdate, TakeAll
  <2>2. \A s : Held(s)' <=> Held(s)
    BY <2>1 DEF Held
  <2> QED BY <1>t, <2>1, <2>2 DEF HeldInv, HeldFollowed, PendingFollowed, CommandsFollowed, HasRelease
<1>3. CASE Dispatch
  BY <1>3, DispatchKeepsHeld
<1>4. CASE WorldLeave
  <2>1. UNCHANGED <<slvars, pending, refused, owner>> /\ held' \subseteq stuck'
    BY <1>4 DEF WorldLeave, ReleaseHeld
  <2>2. \A s : Held(s)' <=> Held(s)
    BY <2>1 DEF Held, slvars
  <2> QED BY <1>t, <2>1, <2>2 DEF HeldInv, HeldFollowed, PendingFollowed, CommandsFollowed, HasRelease, slvars
<1>5. CASE UNCHANGED vars
  <2>1. \A s : Held(s)' <=> Held(s)
    BY <1>5 DEF Held, vars, slvars
  <2> QED BY <1>t, <1>5, <2>1 DEF HeldInv, HeldFollowed, PendingFollowed, CommandsFollowed, HasRelease, vars, slvars
<1> QED BY <1>1, <1>2, <1>3, <1>4, <1>5 DEF Next

LEMMA HeldInit == Init => HeldInv
BY InputInitTypes DEF Init, SLInit, HeldInv, HeldFollowed, PendingFollowed, CommandsFollowed

THEOREM HeldInvariant == Spec => []HeldInv
BY HeldInit, HeldStep, PTL DEF Spec

\* The types of the input state.
THEOREM InputTypes == Spec => []InputTypeOK
<1>1. HeldInv => InputTypeOK
  BY DEF HeldInv, InputTypeInv
<1> QED BY <1>1, HeldInvariant, PTL

\* No input of a session that is over is held unless its release is due, was
\* refused by a full queue, or failed.
THEOREM HeldInputsAreOwned == Spec => []HeldInputIsOwned
<1>1. HeldInv => HeldInputIsOwned
  BY DEF HeldInv, HeldFollowed, HeldInputIsOwned, Owned, ReleaseDue, HasRelease, Held
<1> QED BY <1>1, HeldInvariant, PTL

-----------------------------------------------------------------------------
(* The dispatcher with the overlay in its way.                             *)

\* Whatever else the client's thread does, to the dispatcher it is a step of
\* its own or none.
LEMMA ClientStepOfInput == [ClientNext]_clientvars => [Next]_vars
BY DEF ClientNext, clientvars, Input, Device, Terrain, Interface, Files, Play, Next

\* The client's thread implements the dispatcher.
THEOREM ClientImplementsInput == ClientSpec => Spec
<1>1. ClientInit => Init
  BY DEF ClientInit
<1> QED BY <1>1, ClientStepOfInput, PTL DEF ClientSpec, Spec

\* Held input is owned also when the overlay takes messages: what the
\* dispatcher believes does not depend on whether the client gets them.
THEOREM ClientHeldInputsAreOwned == ClientSpec => []HeldInputIsOwned
BY ClientImplementsInput, HeldInputsAreOwned, PTL

\* What the client takes for held the dispatcher holds too, but for the toggle
\* and what an open overlay took the release of.
TakesInv == game \subseteq held \cup swallowed \cup {ToggleKey}

\* A closed overlay takes no release but the toggle's.
LEMMA ReleasesAreForwarded ==
  ASSUME TakesInv, NEW downs, NEW before, NEW toggle, NEW after,
         WndProc(downs, before, toggle, after)
  PROVE  game' \subseteq ((held \cup downs) \ (before \cup after)) \cup swallowed' \cup {ToggleKey}
<1>1. PICK d \in Takes(downs, open), b \in Takes(before, open), a \in Takes(after, open') :
        LET forwarded == (before \ b) \cup (after \ a)
            overlaid == {k \in b : open} \cup {k \in a : open'}
        IN /\ game' = (game \cup (downs \ d)) \ forwarded
           /\ swallowed' = (swallowed \ ((downs \ d) \cup forwarded)) \cup overlaid
  BY DEF WndProc
<1>2. (b # {} => open) /\ (a # {} => open')
  BY DEF Takes
<1>3. SUFFICES ASSUME NEW k \in game', k \notin swallowed', k # ToggleKey
               PROVE  k \in held \cup downs /\ k \notin before /\ k \notin after
  OBVIOUS
<1>4. k \notin b /\ k \notin a
  BY <1>1, <1>2, <1>3
<1>5. k \notin before /\ k \notin after
  BY <1>1, <1>3, <1>4
<1>6. k \in game \/ k \in downs
  BY <1>1, <1>3
<1>7. k \in swallowed => k \in downs
  BY <1>1, <1>3
<1> QED BY <1>3, <1>5, <1>6, <1>7 DEF TakesInv

LEMMA MessagesAreForwarded ==
  ASSUME TakesInv, NEW downs, NEW ups, Messages(downs, ups)
  PROVE  game' \subseteq ((held \cup downs) \ ups) \cup swallowed' \cup {ToggleKey}
<1>1. PICK before \in SUBSET (ups \ {ToggleKey}) :
        WndProc(downs, before, ups \cap {ToggleKey}, (ups \ {ToggleKey}) \ before)
  BY DEF Messages
<1>2. game' \subseteq ((held \cup downs) \ (before \cup ((ups \ {ToggleKey}) \ before)))
                       \cup swallowed' \cup {ToggleKey}
  BY <1>1, ReleasesAreForwarded
<1> QED BY <1>2

LEMMA TakesStep == TakesInv /\ [ClientNext]_clientvars => TakesInv'
<1> SUFFICES ASSUME TakesInv, [ClientNext]_clientvars PROVE TakesInv'
  OBVIOUS
<1>1. CASE Play
  <2>1. ASSUME NEW taps \in SUBSET Taps(Head(pending)),
               Messages((held' \ held) \cup taps, (held \ held') \cup taps)
        PROVE  TakesInv'
    <3>1. game' \subseteq ((held \cup ((held' \ held) \cup taps)) \ ((held \ held') \cup taps))
                           \cup swallowed' \cup {ToggleKey}
      BY <2>1, MessagesAreForwarded
    <3> QED BY <3>1 DEF TakesInv
  <2>2. ASSUME Messages({}, held \ held') PROVE TakesInv'
    <3>1. game' \subseteq ((held \cup {}) \ (held \ held')) \cup swallowed' \cup {ToggleKey}
      BY <2>2, MessagesAreForwarded
    <3> QED BY <3>1 DEF TakesInv
  <2> QED BY <1>1, <2>1, <2>2 DEF Play
<1>2. CASE Toggle /\ UNCHANGED held
  <2>1. game' \subseteq ((held \cup {ToggleKey}) \ ({} \cup {})) \cup swallowed' \cup {ToggleKey}
    BY <1>2, ReleasesAreForwarded DEF Toggle
  <2> QED BY <1>2, <2>1 DEF TakesInv
<1>3. CASE UNCHANGED <<held, game, swallowed>>
  BY <1>3 DEF TakesInv
<1> QED BY <1>1, <1>2, <1>3
    DEF ClientNext, clientvars, vars, overlayvars, windowvars, Input, NetworkStep, EndRelease,
        OnUpdate, Device, DeviceNext, CreateDevice, WorldFrame, EndScene, Reset, NativeReset,
        Terrain, Interface, Files

\* What the client takes for held belongs to the session that is up or is about
\* to be released, but for the toggle and what an open overlay took the release
\* of (GameInputIsOwned).
THEOREM GameInputsAreOwned == ClientSpec => []GameInputIsOwned
<1>1. ClientInit => TakesInv
  BY DEF ClientInit, OverlayInit, OverlayDrawn, TakesInv
<1>2. TakesInv /\ HeldInputIsOwned => GameInputIsOwned
  BY DEF TakesInv, HeldInputIsOwned, GameInputIsOwned
<1> QED BY <1>1, <1>2, TakesStep, ClientHeldInputsAreOwned, PTL DEF ClientSpec

-----------------------------------------------------------------------------
(* The device.                                                             *)

\* The overlay is bound to a device that is hooked; a hooked device, and one
\* that a render target was created on, is hooked or taken for another one.
DeviceInv ==
  /\ objects \in BOOLEAN /\ ready \in BOOLEAN /\ reused \in BOOLEAN
  /\ objects => ready
  /\ device # 0 =>
       /\ bound = device => device \in patched
       /\ target = device => device \in patched \/ reused
       /\ hookedDevice = device => device \in patched \/ reused
  /\ resetting => device # 0
  /\ ResetFindsNothing

LEMMA DeviceStep == DeviceInv /\ [ClientNext]_clientvars => DeviceInv'
<1> SUFFICES ASSUME DeviceInv, [ClientNext]_clientvars PROVE DeviceInv'
  OBVIOUS
<1> USE DEF DeviceInv, ResetFindsNothing
<1>1. CASE CreateDevice
  BY <1>1, OverlayAssumption DEF CreateDevice
<1>2. CASE WorldFrame
  BY <1>2 DEF WorldFrame, EnsureBackbufferTarget, EnsureDeviceHooks
<1>3. CASE EndScene
  BY <1>3 DEF EndScene, EnsureReady
<1>4. CASE Reset
  BY <1>4 DEF Reset
<1>5. CASE NativeReset
  BY <1>5 DEF NativeReset
<1>6. CASE UNCHANGED <<devicevars, ready>>
  BY <1>6 DEF devicevars
<1> QED BY <1>1, <1>2, <1>3, <1>4, <1>5, <1>6
    DEF ClientNext, clientvars, overlayvars, Input, Play, Toggle, Device, DeviceNext,
        Terrain, Interface, Files

\* A Reset finds nothing of the overlay's in the device's DEFAULT pool.
THEOREM ResetsFindNothing == ClientSpec => []ResetFindsNothing
<1>1. ClientInit => DeviceInv
  BY DEF ClientInit, OverlayInit, OverlayDrawn, DeviceInv, ResetFindsNothing
<1>2. DeviceInv => ResetFindsNothing
  BY DEF DeviceInv
<1> QED BY <1>1, <1>2, DeviceStep, PTL DEF ClientSpec

-----------------------------------------------------------------------------
(* Terrain phases.                                                         *)

\* A base map is remembered exactly while a phase is active, and the table is
\* that phase's unless the code has lost track.
PhaseInv ==
  /\ mapId \in Maps /\ mapName \in Maps /\ strayed \in BOOLEAN
  /\ baseMap \in Maps \cup {"none"} /\ childMap \in Phases \cup {"none"}
  /\ resident \in [Tiles -> Maps \cup Phases \cup {"out"}]
  /\ baseMap = "none" <=> childMap = "none"
  /\ ~strayed =>
       /\ childMap # "none" => phaseMain = Variants[childMap]
       /\ baseMap # "none" => baseMap = mapId
  /\ TilesShowThePhase

LEMMA SourceFacts ==
  ASSUME NEW t \in Tiles, NEW name \in Maps, NEW child \in Phases \cup {"none"}, NEW main
  PROVE  Source(t, name, child, main) \in Maps \cup Phases
BY DEF Source

LEMMA PhaseStep == PhaseInv /\ [ClientNext]_clientvars => PhaseInv'
<1> SUFFICES ASSUME PhaseInv, [ClientNext]_clientvars PROVE PhaseInv'
  OBVIOUS
<1> USE PhasingAssumption
<1>e. ASSUME NEW name \in Maps, NEW child \in Phases \cup {"none"}, NEW main,
             EnterMap(name, child, main)
      PROVE  /\ mapName' = name
             /\ resident' \in [Tiles -> Maps \cup Phases \cup {"out"}]
             /\ \A t \in Tiles : resident'[t] # "out" => resident'[t] = Source(t, name, child, main)
  BY <1>e, SourceFacts DEF EnterMap
<1>1. ASSUME NEW p \in Phases, SetTerrainPhase(p) PROVE PhaseInv'
  <2>1. CASE UNCHANGED <<mapId, mapName, childMap, baseMap, resident>> /\ strayed' = (strayed \/ childMap # "none")
    BY <2>1 DEF PhaseInv, TilesShowThePhase
  <2>2. CASE /\ phaseMain' = Variants[p] /\ childMap' = p
             /\ baseMap' = IF baseMap = "none" THEN mapName ELSE baseMap
             /\ EnterMap(baseMap', p, Variants[p])
             /\ strayed' = (baseMap' # mapId) /\ UNCHANGED mapId
    <3>1. baseMap' \in Maps /\ p # "none" /\ baseMap' # "none"
      BY <2>2 DEF PhaseInv
    <3>2. /\ mapName' = baseMap'
          /\ resident' \in [Tiles -> Maps \cup Phases \cup {"out"}]
          /\ \A t \in Tiles : resident'[t] # "out" => resident'[t] = Source(t, baseMap', p, Variants[p])
      BY <1>e, <2>2, <3>1
    <3> QED BY <2>2, <3>1, <3>2 DEF PhaseInv, TilesShowThePhase, Source
  <2> QED BY <1>1, <2>1, <2>2 DEF SetTerrainPhase
<1>2. CASE ClearTerrainPhase
  <2>1. baseMap \in Maps
    BY <1>2 DEF ClearTerrainPhase, PhaseInv
  <2>2. /\ mapName' = baseMap
        /\ resident' \in [Tiles -> Maps \cup Phases \cup {"out"}]
        /\ \A t \in Tiles : resident'[t] # "out" => resident'[t] = Source(t, baseMap, "none", phaseMain)
    BY <1>2, <1>e, <2>1 DEF ClearTerrainPhase
  <2> QED BY <1>2, <2>1, <2>2 DEF ClearTerrainPhase, PhaseInv, TilesShowThePhase, Source
<1>3. ASSUME NEW t \in Tiles, StreamTile(t) PROVE PhaseInv'
  <2>1. Source(t, mapName, childMap, phaseMain) \in Maps \cup Phases
    BY SourceFacts DEF PhaseInv
  <2> QED BY <1>3, <2>1 DEF StreamTile, PhaseInv, TilesShowThePhase, Source
<1>4. ASSUME NEW m \in Maps, Travel(m) PROVE PhaseInv'
  <2>1. /\ mapName' = m
        /\ resident' \in [Tiles -> Maps \cup Phases \cup {"out"}]
        /\ \A t \in Tiles : resident'[t] # "out" => resident'[t] = Source(t, m, childMap, phaseMain)
    BY <1>4, <1>e DEF Travel, PhaseInv
  <2> QED BY <1>4, <2>1 DEF Travel, PhaseInv, TilesShowThePhase, Source
<1>5. CASE UNCHANGED phasingvars
  BY <1>5 DEF phasingvars, PhaseInv, TilesShowThePhase
<1> QED BY <1>1, <1>2, <1>3, <1>4, <1>5
    DEF ClientNext, clientvars, Input, Device, Terrain, PhasingNext, Interface, Files

\* Every loaded tile is that of the phase that was set last.
THEOREM TilesAlwaysShowThePhase == ClientSpec => []TilesShowThePhase
<1>1. ClientInit => PhaseInv
  BY DEF ClientInit, PhasingInit, PhaseInv, TilesShowThePhase
<1>2. PhaseInv => TilesShowThePhase
  BY DEF PhaseInv
<1> QED BY <1>1, <1>2, PhaseStep, PTL DEF ClientSpec

-----------------------------------------------------------------------------
(* The patcher.                                                            *)

Images == [build : Builds \cup {"none", "torn"}, edits : SUBSET {"import", "large"}]

\* Only the import tells a patched executable; a backup has no edits.  Unless
\* something came in between, a backup that is there is the executable's own,
\* and it is there before the image is written.
BackupInv ==
  /\ exe \in Images /\ orig \in Images /\ image \in Images
  /\ orig.edits = {}
  /\ "import" \notin exe.edits => exe.edits = {}
  /\ patcher \in {"backup", "copying"} => "import" \notin exe.edits
  /\ patcher \in {"idle", "backup", "copying", "write"}
  /\ patcher # "idle" => image.build = exe.build /\ "import" \in image.edits
  /\ ~disturbed =>
       /\ patcher = "copying" \/ orig.build \in {"none", exe.build}
       /\ "import" \in exe.edits \/ patcher = "write" => orig.build = exe.build

LEMMA ImageFacts ==
  /\ \A b \in Builds \cup {"none", "torn"} :
       Unpatched(b) \in Images /\ Unpatched(b).build = b /\ Unpatched(b).edits = {}
  /\ \A f \in Images : f.edits = {} => f = Unpatched(f.build)
  /\ \A f \in Images, es \in SUBSET {"import", "large"} :
       /\ Edited(f, es) \in Images /\ Edited(f, es).build = f.build
       /\ Edited(f, es).edits = f.edits \cup es
BY DEF Images, Unpatched, Edited

LEMMA BackupStep == BackupInv /\ [ClientNext]_clientvars => BackupInv'
<1> SUFFICES ASSUME BackupInv, [ClientNext]_clientvars PROVE BackupInv'
  OBVIOUS
<1> USE DEF BackupInv
<1>n. /\ NoFile \in Images /\ NoFile.build = "none" /\ NoFile.edits = {}
      /\ Torn \in Images /\ Torn.edits = {}
  BY ImageFacts DEF NoFile, Torn
<1>i. exe \in Images /\ orig \in Images /\ image \in Images
  OBVIOUS
<1>1. CASE Patch
  BY <1>1, ImageFacts DEF Patch
<1>2. CASE Backup
  BY <1>2, <1>n, ImageFacts DEF Backup
<1>3. CASE Copied
  BY <1>3, <1>n DEF Copied
<1>4. CASE WriteAll
  BY <1>4 DEF WriteAll
<1>5. CASE Killed
  BY <1>5 DEF Killed
<1>6. CASE RestoreBackup
  BY <1>6, <1>n, ImageFacts DEF RestoreBackup
<1>7. ASSUME NEW b \in Builds, InstallBuild(b) PROVE BackupInv'
  BY <1>7, <1>n, ImageFacts DEF InstallBuild
<1>8. CASE UNCHANGED patchervars
  BY <1>8 DEF patchervars
<1> QED BY <1>1, <1>2, <1>3, <1>4, <1>5, <1>6, <1>7, <1>8
    DEF ClientNext, clientvars, Input, Device, Terrain, Interface, Files, PatcherNext

\* Beside a patched executable lies the one it was made from.
THEOREM BackupsAreTheOriginal == ClientSpec => []BackupIsTheOriginal
<1>1. ClientInit => BackupInv
  BY ImageFacts DEF ClientInit, PatcherInit, BackupInv, NoFile
<1>2. BackupInv => BackupIsTheOriginal
  BY ImageFacts DEF BackupInv, BackupIsTheOriginal
<1> QED BY <1>1, <1>2, BackupStep, PTL DEF ClientSpec
=============================================================================
