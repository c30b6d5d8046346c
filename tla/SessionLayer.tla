---------------------------- MODULE SessionLayer ----------------------------
(***************************************************************************)
(* What the network layer of wcs-bridge promises the game thread: the      *)
(* numbered sessions of the one client, and the bounded queue of commands  *)
(* the sessions feed (CommandSink of WebSocketServer.hpp, WcsBridge's      *)
(* commands_).  WebSocketServer implements this specification; WcsBridge   *)
(* and InputDispatcher are built on it.                                    *)
(*                                                                         *)
(*   link = "down"       no active client                                  *)
(*          "up"         an authenticated client, commands are accepted    *)
(*          "closing"    session_ has been advanced, connected_ still set  *)
(*          "releasing"  connected_ cleared, ReleaseAll not yet queued     *)
(***************************************************************************)
EXTENDS Naturals, Sequences

CONSTANTS Payload,       \* what a client's command may say
          MaxCommands,   \* capacity of commands_ (256)
          Sessions       \* session numbers explored: Nat, or 0..n for TLC

ASSUME SessionLayerAssumption == MaxCommands \in Nat /\ Sessions \subseteq Nat

VARIABLES session, link, commands

slvars == <<session, link, commands>>

Links == {"down", "up", "closing", "releasing"}

\* connected_: cleared by closeClient after session_ has been advanced.
Connected == link \in {"up", "closing"}

\* Command{CommandKind::ReleaseAll}: it carries no session of its own.
ReleaseAll == [kind |-> "ReleaseAll"]

\* Command with command.session = session_, as the network thread queues it.
Request(s, p) == [kind |-> "request", session |-> s, payload |-> p]

Commands ==
  {ReleaseAll} \cup [kind : {"request"}, session : Nat, payload : Payload]

IsRequest(c) == c.kind = "request"

\* WcsBridge::Enqueue without the coalescing of pointer moves: a full queue
\* refuses the command, which the caller may or may not notice.
Enqueue(q, c) == IF Len(q) >= MaxCommands THEN q ELSE Append(q, c)

-----------------------------------------------------------------------------
SLInit ==
  /\ session = 0
  /\ link = "down"
  /\ commands = <<>>

\* activate: the client has been let in.
Activate ==
  /\ link = "down"
  /\ session + 1 \in Sessions
  /\ link' = "up"
  /\ UNCHANGED <<session, commands>>

\* A command of the active client, tagged with its session.
Receive(p) ==
  /\ link = "up"
  /\ commands' = Enqueue(commands, Request(session, p))
  /\ UNCHANGED <<session, link>>

\* closeClient, first step: the session number moves on.  It also does when
\* the client that leaves had not been authenticated, or when there is none.
EndSession ==
  /\ link \in {"up", "down"}
  /\ link = "down" => session + 1 \in Sessions
  /\ session' = session + 1
  /\ link' = IF link = "up" THEN "closing" ELSE "down"
  /\ UNCHANGED commands

\* closeClient: connected_.exchange(false).
Disconnect ==
  /\ link = "closing"
  /\ link' = "releasing"
  /\ UNCHANGED <<session, commands>>

\* closeClient: commands_(Command{CommandKind::ReleaseAll}).
Release ==
  /\ link = "releasing"
  /\ link' = "down"
  /\ commands' = Enqueue(commands, ReleaseAll)
  /\ UNCHANGED session

\* The game thread takes the whole queue.
TakeAll ==
  /\ commands' = <<>>
  /\ UNCHANGED <<session, link>>

Network ==
  \/ Activate
  \/ \E p \in Payload : Receive(p)
  \/ EndSession
  \/ Disconnect
  \/ Release

SLNext == Network \/ TakeAll

SLSpec == SLInit /\ [][SLNext]_slvars

-----------------------------------------------------------------------------
SLTypeOK ==
  /\ session \in Nat
  /\ link \in Links
  /\ commands \in Seq(Commands)
  /\ Len(commands) <= MaxCommands

\* A queued request carries the current session only while that session is
\* still up: closeClient advances session_ before anything else, so the game
\* thread's comparison with Session() tells a live request from a dead one.
QueuedRequestIsLive ==
  \A i \in 1..Len(commands) :
    IsRequest(commands[i]) /\ commands[i].session = session => link = "up"

\* Whatever a session left in the queue is separated from the commands of the
\* next one by the ReleaseAll of its end: the held input of one client is let
\* go before the next client's input is played.
ReleaseBetweenSessions ==
  \A i, j \in 1..Len(commands) :
    /\ i < j
    /\ IsRequest(commands[i]) /\ IsRequest(commands[j])
    /\ commands[i].session # commands[j].session
    => \E k \in i..j : ~IsRequest(commands[k])
=============================================================================
