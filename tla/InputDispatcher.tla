--------------------------- MODULE InputDispatcher ---------------------------
(***************************************************************************)
(* The companion's keys and pointer buttons (InputDispatcher.cpp), fed by  *)
(* OnUpdate from the queue of SessionLayer.  What matters is what is held  *)
(* down in the game: keys_ and buttons_, together `held`.                  *)
(*                                                                         *)
(* WoW's window may be missing, PostMessage may fail, and the pointer is   *)
(* refused while WoW is not in the foreground; any of it may change from   *)
(* one message to the next.  So every press and every release may have no  *)
(* effect.  Text, moves, the wheel and action slots hold nothing and are   *)
(* the payload "other".                                                    *)
(***************************************************************************)
EXTENDS SessionLayer

CONSTANTS Inputs     \* the keys, modifiers among them, and the buttons

ASSUME InputDispatcherAssumption ==
  \A p \in Payload : p.kind \in {"down", "up", "press", "other"} /\ p.inputs \subseteq Inputs

VARIABLES
  pending,     \* OnUpdate's batch
  held,        \* keys_ and buttons_
  \* history, for the properties only
  owner,       \* the session whose command pressed an input
  stuck,       \* held inputs that a ReleaseAll could not release
  refused      \* the sessions whose ReleaseAll found the queue full

vars == <<slvars, pending, held, owner, stuck, refused>>

Init ==
  /\ SLInit
  /\ pending = <<>> /\ held = {} /\ owner = [k \in Inputs |-> 0]
  /\ stuck = {} /\ refused = {}

\* `held` becomes h through commands of session s.
Hold(h, s) ==
  /\ held' = h
  /\ owner' = [k \in Inputs |-> IF k \in h \ held THEN s ELSE owner[k]]
  /\ stuck' = stuck \cap h

\* ReleaseAll: every held input is released, or not.
ReleaseHeld ==
  \E h \in SUBSET held :
    held' = h /\ stuck' = h /\ UNCHANGED owner

\* Key and Modifiers: a key.down presses the modifiers and the key, a key.up
\* releases them, a key.press does one after the other.
Pressed(p) == {held \cup k : k \in SUBSET p.inputs}

Released(p) == {held \ k : k \in SUBSET p.inputs}

PressedAndReleased(p) == {(held \cup k) \ l : k, l \in SUBSET p.inputs}

Outcomes(p) ==
  CASE p.kind = "down"  -> Pressed(p)
    [] p.kind = "up"    -> Released(p)
    [] p.kind = "press" -> PressedAndReleased(p)
    [] OTHER            -> {held}

-----------------------------------------------------------------------------
\* OnUpdate takes the queue.
OnUpdate ==
  /\ pending = <<>> /\ commands # <<>>
  /\ TakeAll
  /\ pending' = commands
  /\ UNCHANGED <<held, owner, stuck, refused>>

\* Faulty: ReleaseAll is for the party requests only.
FaultyDispatch ==
  /\ pending # <<>> /\ pending' = Tail(pending)
  /\ LET c == Head(pending)
     IN IF IsRequest(c) THEN \E h \in Outcomes(c.payload) : Hold(h, c.session)
        ELSE UNCHANGED <<held, owner, stuck>>
  /\ UNCHANGED <<slvars, refused>>

\* Dispatch, one command of the batch.
Dispatch ==
  /\ pending # <<>> /\ pending' = Tail(pending)
  /\ LET c == Head(pending)
     IN IF IsRequest(c) THEN \E h \in Outcomes(c.payload) : Hold(h, c.session)
        ELSE ReleaseHeld
  /\ UNCHANGED <<slvars, refused>>

\* OnWorldLeave releases everything as well.
WorldLeave ==
  /\ pending = <<>>
  /\ ReleaseHeld
  /\ UNCHANGED <<slvars, pending, refused>>

\* The end of a session, with a note of whether its ReleaseAll got in.
EndRelease ==
  /\ Release
  /\ refused' = IF Len(commands) >= MaxCommands THEN refused \cup {session - 1} ELSE refused
  /\ UNCHANGED <<pending, held, owner, stuck>>

NetworkStep ==
  /\ \/ Activate
     \/ \E p \in Payload : Receive(p)
     \/ EndSession \/ Disconnect
  /\ UNCHANGED <<pending, held, owner, stuck, refused>>

Next == NetworkStep \/ EndRelease \/ OnUpdate \/ Dispatch \/ WorldLeave

Spec == Init /\ [][Next]_vars

(***************************************************************************)
(* Fairness.  The game thread updates every frame and works off its batch  *)
(* without waiting for anything; closeClient runs to its end.              *)
(***************************************************************************)
Fairness ==
  /\ WF_vars(OnUpdate) /\ WF_vars(Dispatch)
  /\ WF_vars(Disconnect /\ UNCHANGED <<pending, held, owner, stuck, refused>>)
  /\ WF_vars(EndRelease)

-----------------------------------------------------------------------------
InputTypeOK ==
  /\ SLTypeOK
  /\ pending \in Seq(Commands) /\ held \subseteq Inputs
  /\ owner \in [Inputs -> Nat] /\ stuck \subseteq held /\ refused \subseteq Nat

ReleaseDue ==
  \/ link \in {"closing", "releasing"}
  \/ \E i \in 1..Len(commands) : ~IsRequest(commands[i])
  \/ \E i \in 1..Len(pending) : ~IsRequest(pending[i])

Owned(k) ==
  \/ link = "up" /\ owner[k] = session
  \/ ReleaseDue \/ k \in stuck \/ owner[k] \in refused

\* What the dispatcher holds down belongs to the session that is up, or a
\* ReleaseAll is on its way.  The exceptions are inputs that WoW could not be
\* told to release, and sessions whose ReleaseAll was refused by a full queue
\* (closeClient does not look at the sink's answer).
HeldInputIsOwned == \A k \in held : Owned(k)

\* No input of a session that is over stays down for good, with the same two
\* exceptions, even if the queued commands of that session are played after it
\* has ended.
HeldInputIsReleased ==
  \A k \in Inputs :
    (k \in held /\ owner[k] < session)
      ~> (k \notin held \/ owner[k] = session \/ k \in stuck \/ owner[k] \in refused)
=============================================================================
