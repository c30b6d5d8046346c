--------------------------- MODULE WebSocketServer ---------------------------
(***************************************************************************)
(* The network thread of wcs-bridge (WebSocketServer.cpp) against the game *)
(* thread that calls it.  The network thread is one loop: it accepts the   *)
(* client, reads its frames, closes it, and drains the outbound queue; npc *)
(* is where it stands, with one step per access to state the game thread   *)
(* shares (session_, connected_, disconnect_, outbound_, commands_, the    *)
(* StateStore and the pairing credential).  gpc is the game thread, inside *)
(* one of its calls or idle.                                               *)
(*                                                                         *)
(* Data is abstracted to what the properties tell apart.  The StateStore   *)
(* is a version number per topic (party, actions, player, game state); a   *)
(* message carries the versions it reports: a snapshot all of them, an     *)
(* event one, a result or error none.  A credential is a number, 0 none.   *)
(*                                                                         *)
(* Operators whose name begins with Faulty are wrong on purpose: each is   *)
(* the definition that follows with one plausible mistake, and shows which *)
(* property depends on getting that line right.                            *)
(***************************************************************************)
EXTENDS Naturals, Sequences, FiniteSets

CONSTANTS Required,      \* WCS_BRIDGE_REQUIRE_PAIRING
          Topics,        \* the parts of the state that change separately
          Capacity,      \* size at which outbound_ refuses a message (256)
          SoftLimit,     \* size above which a delta replaces another (192)
          MaxCommands,   \* capacity of WcsBridge::commands_ (256)
          Payload,       \* commands a client may send
          Sessions,      \* bound: session numbers explored
          Versions,      \* bound: state versions explored
          Tokens         \* bound: credentials handed out

ASSUME ServerAssumption ==
  /\ Required \in BOOLEAN
  /\ Capacity \in Nat /\ SoftLimit \in Nat /\ MaxCommands \in Nat
  /\ Sessions \subseteq Nat /\ Versions \subseteq Nat /\ Tokens \subseteq Nat
  /\ 0 \in Versions

VARIABLES
  \* the network thread
  npc,         \* where its loop stands
  resume,      \* where closeClient returns to
  client,      \* a socket is open
  phase,       \* Hello, Authentication or Active
  authed,      \* the credential that let the current client in
  \* shared by the two threads
  running, session, connected, disconnect, outbound, commands, token,
  \* the game thread
  gpc,         \* the call it is in
  store,       \* StateStore: the version of each topic
  sending,     \* the messages its current call has still to send
  \* the device
  view,        \* the version of each topic the client shows
  \* history, for the properties only
  issued,      \* number of credentials handed out
  lossy,       \* an update was dropped since the last full snapshot
  carried      \* an update queued in an earlier session was still queued
               \* when this one began

netvars   == <<npc, resume, client, phase, authed>>
gamevars  == <<gpc, store, sending>>
histvars  == <<issued, lossy, carried>>
vars == <<netvars, running, session, connected, disconnect, outbound, commands,
          token, gamevars, view, histvars>>

\* The state shared with the game thread, by what a network step leaves alone.
flags  == <<running, disconnect>>
queues == <<outbound, commands>>

NetworkSteps ==
  {"start", "select", "read", "activate", "snapshot", "deadline", "revoked", "drain",
   "close", "exchange", "release", "clear", "reset", "exit", "stopped"}

GameSteps == {"idle", "send", "push", "forget", "stop", "joining", "gone"}

Link == IF npc = "release" THEN "releasing"
        ELSE IF ~connected THEN "down"
        ELSE IF npc = "exchange" THEN "closing" ELSE "up"

SL == INSTANCE SessionLayer WITH link <- Link, Sessions <- Nat

Data == UNION {[T -> Versions] : T \in SUBSET Topics}

Messages == [kind : {"snapshot", "event", "result"}, data : Data]

\* Outbound::replaceable: everything that reports state is, no result or
\* error is.
Replaceable(m) == m.kind # "result"

SnapshotMessage == [kind |-> "snapshot", data |-> store]

EventMessage(t, v) == [kind |-> "event", data |-> [u \in {t} |-> v]]

ResultMessage == [kind |-> "result", data |-> [t \in {} |-> 0]]

\* The messages of a queue that report topic t.  What the client shows after
\* the whole queue: of each topic, the last report.
Reports(q, t) == {i \in 1..Len(q) : t \in DOMAIN q[i].data}

LastReport(q, t) ==
  CHOOSE i \in Reports(q, t) : \A j \in Reports(q, t) : j <= i

Shown(v, q, t) ==
  IF Reports(q, t) = {} THEN v[t] ELSE q[LastReport(q, t)].data[t]

HasData(q) == \E t \in Topics : Reports(q, t) # {}

-----------------------------------------------------------------------------
Init ==
  /\ npc = "start" /\ resume = "select"
  /\ client = FALSE /\ phase = "hello" /\ authed = 0
  /\ running = TRUE /\ session = 0 /\ connected = FALSE /\ disconnect = FALSE
  /\ outbound = <<>> /\ commands = <<>> /\ token = 0
  /\ gpc = "idle" /\ store = [t \in Topics |-> 0] /\ sending = <<>>
  /\ view = [t \in Topics |-> 0]
  /\ issued = 0 /\ lossy = FALSE /\ carried = FALSE

-----------------------------------------------------------------------------
(* The network thread: waiting and accepting.                              *)

\* The thread has its listening socket and enters the loop.
Listen ==
  /\ npc = "start"
  /\ npc' = "select"
  /\ UNCHANGED <<resume, client, phase, authed, flags, session, connected, queues,
                 token, gamevars, view, histvars>>

\* The port is taken, or the address is not one: the thread ends.
ListenFails ==
  /\ npc = "start"
  /\ npc' = "stopped" /\ running' = FALSE
  /\ UNCHANGED <<resume, client, phase, authed, disconnect, session, connected,
                 queues, token, gamevars, view, histvars>>

\* closeClient is entered; the loop goes on at `next` after it.
CloseTo(next) == npc' = "close" /\ resume' = next

\* Faulty: the loop lasts as long as its client does.
FaultyLeaveLoop ==
  /\ npc = "select" /\ ~client
  /\ CloseTo("exit")
  /\ UNCHANGED <<client, phase, authed, flags, session, connected, queues, token,
                 gamevars, view, histvars>>

\* running_ is seen cleared at the top of the loop, or select() fails: the
\* thread ends through a last closeClient.
LeaveLoop ==
  /\ npc = "select"
  /\ CloseTo("exit")
  /\ UNCHANGED <<client, phase, authed, flags, session, connected, queues, token,
                 gamevars, view, histvars>>

\* select() returns; whoever is waiting becomes the client if there is none.
\* (A second client is told client-busy and closed.)
Accept ==
  /\ npc = "select" /\ running /\ ~client
  /\ session + 1 \in Sessions
  /\ client' = TRUE /\ phase' = "hello" /\ npc' = "read"
  /\ UNCHANGED <<resume, authed, flags, session, connected, queues, token,
                 gamevars, view, histvars>>

\* select() returns with nobody to accept.
Selected ==
  /\ npc = "select" /\ running
  /\ npc' = "read"
  /\ UNCHANGED <<resume, client, phase, authed, flags, session, connected, queues,
                 token, gamevars, view, histvars>>

-----------------------------------------------------------------------------
(* The network thread: reading.  The loop over the frames of one receive   *)
(* stays at "read".                                                        *)

Reading(p) == npc = "read" /\ client /\ phase = p

\* recv() reports the end of the connection.
Lost ==
  /\ npc = "read" /\ client
  /\ CloseTo("select")
  /\ UNCHANGED <<client, phase, authed, flags, session, connected, queues, token,
                 gamevars, view, histvars>>

\* A close frame, an invalid frame, a pong that cannot be sent, a hello that
\* is malformed or asks for another protocol.
BadFrame ==
  /\ npc = "read" /\ client
  /\ CloseTo("deadline")
  /\ UNCHANGED <<client, phase, authed, flags, session, connected, queues, token,
                 gamevars, view, histvars>>

\* A good hello.  Without pairing the client is let in at once.
Hello ==
  /\ Reading("hello")
  /\ IF Required THEN phase' = "authentication" /\ npc' = npc
                 ELSE phase' = phase /\ npc' = "activate"
  /\ authed' = 0
  /\ UNCHANGED <<resume, client, flags, session, connected, queues, token,
                 gamevars, view, histvars>>

\* auth with the paired device's token.  (Any other is told auth-failed and
\* may try again.)
Authenticate ==
  /\ Reading("authentication")
  /\ token # 0
  /\ authed' = token /\ npc' = "activate"
  /\ UNCHANGED <<resume, client, phase, flags, session, connected, queues, token,
                 gamevars, view, histvars>>

\* pair.request with the right code while no device is paired.
Pair ==
  /\ Reading("authentication")
  /\ token = 0 /\ issued + 1 \in Tokens
  /\ issued' = issued + 1 /\ token' = issued + 1 /\ authed' = issued + 1
  /\ npc' = "activate"
  /\ UNCHANGED <<resume, client, phase, flags, session, connected, queues,
                 gamevars, view, lossy, carried>>

\* Faulty: a session begins by resetting a stale disconnect_.
FaultyActivate ==
  /\ npc = "activate"
  /\ phase' = "active" /\ connected' = TRUE /\ npc' = "snapshot"
  /\ disconnect' = FALSE /\ carried' = HasData(outbound) /\ lossy' = FALSE
  /\ UNCHANGED <<resume, client, authed, running, session, queues, token,
                 gamevars, view, issued>>

\* activate(), first step: the session becomes visible to the game thread.
Activate ==
  /\ npc = "activate"
  /\ phase' = "active" /\ connected' = TRUE /\ npc' = "snapshot"
  /\ carried' = HasData(outbound) /\ lossy' = FALSE
  /\ UNCHANGED <<resume, client, authed, flags, session, queues, token,
                 gamevars, view, issued>>

\* activate(), second step: auth.ok and a snapshot of this moment go straight
\* to the socket, ahead of everything in outbound_.  Nobody looks at whether
\* the nonblocking socket took them.
SendSnapshot ==
  /\ npc = "snapshot"
  /\ \/ view' = store /\ lossy' = lossy
     \/ view' = view /\ lossy' = TRUE
  /\ npc' = "read"
  /\ UNCHANGED <<resume, client, phase, authed, flags, session, connected, queues,
                 token, gamevars, issued, carried>>

\* state.request: likewise.  What is still queued will be shown over it.  (If
\* the socket does not take it, nothing changes.)
StateRequest ==
  /\ Reading("active")
  /\ view' = store
  /\ lossy' = (lossy /\ HasData(outbound))
  /\ carried' = (carried /\ HasData(outbound))
  /\ UNCHANGED <<npc, resume, client, phase, authed, flags, session, connected,
                 queues, token, gamevars, issued>>

\* Faulty: a command is taken whatever the phase.
FaultyReceive(p) ==
  /\ npc = "read" /\ client
  /\ commands' = SL!Enqueue(commands, SL!Request(session, p))
  /\ UNCHANGED <<npc, resume, client, phase, authed, flags, session, connected,
                 outbound, token, gamevars, view, histvars>>

\* Any command: it is queued for the game thread under this session's number,
\* or refused with queue-full.
Receive(p) ==
  /\ Reading("active")
  /\ commands' = SL!Enqueue(commands, SL!Request(session, p))
  /\ UNCHANGED <<npc, resume, client, phase, authed, flags, session, connected,
                 outbound, token, gamevars, view, histvars>>

\* The receive buffer holds no further whole frame.
FramesDone ==
  /\ npc = "read"
  /\ npc' = "deadline"
  /\ UNCHANGED <<resume, client, phase, authed, flags, session, connected, queues,
                 token, gamevars, view, histvars>>

-----------------------------------------------------------------------------
(* The network thread: the rest of its loop.                               *)

\* A client that has not authenticated within ten seconds is closed.
Deadline ==
  /\ npc = "deadline"
  /\ \/ client /\ phase # "active" /\ CloseTo("revoked")
     \/ npc' = "revoked" /\ UNCHANGED resume
  /\ UNCHANGED <<client, phase, authed, flags, session, connected, queues, token,
                 gamevars, view, histvars>>

\* Faulty: the request is honoured only while the client authenticates.
FaultyRevoked ==
  /\ npc = "revoked"
  /\ IF disconnect /\ phase # "active" THEN CloseTo("drain")
     ELSE npc' = "drain" /\ UNCHANGED resume
  /\ UNCHANGED <<client, phase, authed, flags, session, connected, queues, token,
                 gamevars, view, histvars>>

\* disconnect_, set by the game thread, closes whoever is there, or nobody.
Revoked ==
  /\ npc = "revoked"
  /\ IF disconnect THEN CloseTo("drain") ELSE npc' = "drain" /\ UNCHANGED resume
  /\ UNCHANGED <<client, phase, authed, flags, session, connected, queues, token,
                 gamevars, view, histvars>>

\* Faulty: the queue is sent newest first.
FaultyDrain ==
  LET first(t) == CHOOSE i \in Reports(outbound, t) :
                    \A j \in Reports(outbound, t) : i <= j
      shown(t) == IF Reports(outbound, t) = {} THEN view[t]
                  ELSE outbound[first(t)].data[t]
  IN /\ npc = "drain" /\ npc' = "select"
     /\ IF client /\ phase = "active"
        THEN outbound' = <<>> /\ view' = [t \in Topics |-> shown(t)]
        ELSE UNCHANGED <<outbound, view>>
     /\ UNCHANGED <<resume, client, phase, authed, flags, session, connected,
                    commands, token, gamevars, histvars>>

\* Faulty: only a full queue is worth sending.
FaultyDrainWhenFull ==
  /\ npc = "drain" /\ npc' = "select"
  /\ IF client /\ phase = "active" /\ Len(outbound) > Capacity
     THEN outbound' = <<>> /\ view' = [t \in Topics |-> Shown(view, outbound, t)]
     ELSE UNCHANGED <<outbound, view>>
  /\ UNCHANGED <<resume, client, phase, authed, flags, session, connected, commands,
                 token, gamevars, histvars>>

\* An active client is sent all that is queued, in order.
Drain ==
  /\ npc = "drain"
  /\ IF client /\ phase = "active"
     THEN /\ outbound' = <<>>
          /\ \/ view' = [t \in Topics |-> Shown(view, outbound, t)]
                /\ npc' = "select" /\ UNCHANGED resume
             \/ view' = view /\ CloseTo("select")      \* a send fails
     ELSE npc' = "select" /\ UNCHANGED <<resume, outbound, view>>
  /\ UNCHANGED <<client, phase, authed, flags, session, connected, commands, token,
                 gamevars, histvars>>

\* closeClient, one step per shared variable, in the order of the code.
CloseBegin ==
  /\ npc = "close"
  /\ session' = session + 1 /\ client' = FALSE /\ npc' = "exchange"
  /\ UNCHANGED <<resume, phase, authed, flags, connected, queues, token,
                 gamevars, view, histvars>>

CloseExchange ==
  /\ npc = "exchange"
  /\ npc' = IF connected THEN "release" ELSE "clear"
  /\ connected' = FALSE
  /\ UNCHANGED <<resume, client, phase, authed, flags, session, queues, token,
                 gamevars, view, histvars>>

CloseRelease ==
  /\ npc = "release"
  /\ commands' = SL!Enqueue(commands, SL!ReleaseAll) /\ npc' = "clear"
  /\ UNCHANGED <<resume, client, phase, authed, flags, session, connected, outbound,
                 token, gamevars, view, histvars>>

\* Faulty: outbound_.clear() is left out.
FaultyCloseClear ==
  /\ npc = "clear"
  /\ npc' = "reset"
  /\ UNCHANGED <<resume, client, phase, authed, flags, session, connected, queues,
                 token, gamevars, view, histvars>>

CloseClear ==
  /\ npc = "clear"
  /\ outbound' = <<>> /\ npc' = "reset"
  /\ UNCHANGED <<resume, client, phase, authed, flags, session, connected, commands,
                 token, gamevars, view, histvars>>

CloseReset ==
  /\ npc = "reset"
  /\ phase' = "hello" /\ disconnect' = FALSE /\ npc' = resume /\ resume' = "select"
  /\ UNCHANGED <<client, authed, running, session, connected, queues, token,
                 gamevars, view, histvars>>

\* The thread is over.
Exit ==
  /\ npc = "exit"
  /\ running' = FALSE /\ npc' = "stopped"
  /\ UNCHANGED <<resume, client, phase, authed, disconnect, session, connected,
                 queues, token, gamevars, view, histvars>>

-----------------------------------------------------------------------------
(* The game thread.                                                        *)

\* One topic changes and is reported: StateStore::PublishEvent or
\* SetGameState, then Send.
PublishEvent(t) ==
  /\ gpc = "idle" /\ store[t] + 1 \in Versions
  /\ store' = [store EXCEPT ![t] = @ + 1]
  /\ sending' = <<EventMessage(t, store[t] + 1)>> /\ gpc' = "send"
  /\ UNCHANGED <<netvars, flags, session, connected, queues, token, view, histvars>>

\* The add-on's full state, whatever part of it has changed.
PublishSnapshot(changed) ==
  /\ gpc = "idle" /\ \A t \in changed : store[t] + 1 \in Versions
  /\ store' = [t \in Topics |-> IF t \in changed THEN store[t] + 1 ELSE store[t]]
  /\ sending' = <<[kind |-> "snapshot", data |-> store']>> /\ gpc' = "send"
  /\ UNCHANGED <<netvars, flags, session, connected, queues, token, view, histvars>>

\* OnWorldEnter, OnWorldLeave: the game state (t) and, when the world state is
\* cleared, everything else changes; it is reported on its own, then in a
\* snapshot.
Lifecycle(t, changed) ==
  /\ gpc = "idle" /\ \A u \in changed : store[u] + 1 \in Versions
  /\ store' = [u \in Topics |-> IF u \in changed THEN store[u] + 1 ELSE store[u]]
  /\ sending' = <<EventMessage(t, store[t] + 1), [kind |-> "snapshot", data |-> store']>>
  /\ gpc' = "send"
  /\ UNCHANGED <<netvars, flags, session, connected, queues, token, view, histvars>>

\* PartyResult and SendError: they report no state and are not replaceable.
SendResult ==
  /\ gpc = "idle"
  /\ sending' = <<ResultMessage>> /\ gpc' = "send"
  /\ UNCHANGED <<netvars, flags, session, connected, queues, token, store, view, histvars>>

\* The current message of the call is done with.
NextMessage ==
  /\ sending' = Tail(sending)
  /\ gpc' = IF Len(sending) > 1 THEN "send" ELSE "idle"

\* Send, first step: connected_ is read before the lock is taken.
SendCheck ==
  /\ gpc = "send"
  /\ IF connected THEN gpc' = "push" /\ UNCHANGED sending ELSE NextMessage
  /\ UNCHANGED <<netvars, flags, session, connected, queues, token, store, view, histvars>>

\* A snapshot supersedes every replaceable message: the results remain, which
\* are all alike here.
Superseded(q) ==
  [i \in 1..Cardinality({j \in 1..Len(q) : ~Replaceable(q[j])}) |-> ResultMessage]

\* Above the soft limit a delta takes the place of the last replaceable one.
Thinned(q) ==
  LET R == {i \in 1..Len(q) : Replaceable(q[i])}
      last == CHOOSE i \in R : \A j \in R : j <= i
  IN IF R = {} THEN q
     ELSE SubSeq(q, 1, last - 1) \o SubSeq(q, last + 1, Len(q))

\* Send, second step, under the lock: outbound_ before the message is added.
MakeRoom(q, m) ==
  IF m.kind = "snapshot" THEN Superseded(q)
  ELSE IF Replaceable(m) /\ Len(q) > SoftLimit THEN Thinned(q)
  ELSE q

\* Faulty: the queue takes one message too many.
FaultyFits(q) == Len(q) <= Capacity

Fits(q) == Len(q) < Capacity

SendPush ==
  LET m == Head(sending)
      q == MakeRoom(outbound, m)
      whole == Fits(q) /\ m.kind = "snapshot"
      others == Topics \ DOMAIN m.data
  IN /\ gpc = "push"
     /\ outbound' = IF Fits(q) THEN Append(q, m) ELSE q
     /\ NextMessage
     /\ lossy' = (~whole /\ ( \/ lossy
                              \/ Replaceable(m) /\ ~Fits(q)
                              \/ \E t \in others : Reports(q, t) # Reports(outbound, t)))
     /\ carried' = (carried /\ ~whole)
     /\ UNCHANGED <<netvars, flags, session, connected, commands, token, store,
                    view, issued>>

\* ForgetDevice: the credential goes first, then the session.
Forget ==
  /\ gpc = "idle" /\ session + 1 \in Sessions
  /\ token' = 0 /\ gpc' = "forget"
  /\ UNCHANGED <<netvars, flags, session, connected, queues, store, sending, view, histvars>>

DisconnectClient ==
  /\ gpc = "forget"
  /\ disconnect' = TRUE /\ gpc' = "idle"
  /\ UNCHANGED <<netvars, running, session, connected, queues, token, store, sending,
                 view, histvars>>

\* OnUpdate takes the queued commands.
TakeAll ==
  /\ gpc = "idle"
  /\ commands' = <<>>
  /\ UNCHANGED <<netvars, flags, session, connected, outbound, token, gamevars,
                 view, histvars>>

\* Stop, from the destructor: two flags, then the network thread is awaited.
Stop ==
  /\ gpc = "idle"
  /\ running' = FALSE /\ gpc' = "stop"
  /\ UNCHANGED <<netvars, disconnect, session, connected, queues, token, store,
                 sending, view, histvars>>

StopDisconnect ==
  /\ gpc = "stop"
  /\ disconnect' = TRUE /\ gpc' = "joining"
  /\ UNCHANGED <<netvars, running, session, connected, queues, token, store, sending,
                 view, histvars>>

Join ==
  /\ gpc = "joining" /\ npc = "stopped"
  /\ gpc' = "gone"
  /\ UNCHANGED <<netvars, flags, session, connected, queues, token, store, sending,
                 view, histvars>>

-----------------------------------------------------------------------------
Network ==
  \/ Listen \/ ListenFails \/ LeaveLoop \/ Accept \/ Selected
  \/ Lost \/ BadFrame \/ Hello \/ Authenticate \/ Pair \/ Activate \/ SendSnapshot
  \/ StateRequest \/ (\E p \in Payload : Receive(p)) \/ FramesDone
  \/ Deadline \/ Revoked \/ Drain
  \/ CloseBegin \/ CloseExchange \/ CloseRelease \/ CloseClear \/ CloseReset \/ Exit

Game ==
  \/ \E t \in Topics : PublishEvent(t)
  \/ \E changed \in SUBSET Topics : PublishSnapshot(changed)
  \/ \E t \in Topics : \E changed \in {{t}, Topics} : Lifecycle(t, changed)
  \/ SendResult \/ SendCheck \/ SendPush
  \/ Forget \/ DisconnectClient \/ TakeAll \/ Stop \/ StopDisconnect \/ Join

Next == Network \/ Game

Spec == Init /\ [][Next]_vars

(***************************************************************************)
(* Fairness.  The network thread runs: select() waits 50 ms at most, the   *)
(* client socket never blocks and a receive holds finitely many frames, so *)
(* the loop goes round whatever the client does.  A call of the game       *)
(* thread that has begun returns.                                          *)
(***************************************************************************)
Loop ==
  \/ Listen \/ ListenFails \/ Selected \/ (~running /\ LeaveLoop)
  \/ Activate \/ SendSnapshot \/ FramesDone \/ Deadline \/ Revoked \/ Drain
  \/ CloseBegin \/ CloseExchange \/ CloseRelease \/ CloseClear \/ CloseReset \/ Exit

Call == SendCheck \/ SendPush \/ DisconnectClient \/ StopDisconnect \/ Join

FairSpec == Spec /\ WF_vars(Loop) /\ WF_vars(Call)

-----------------------------------------------------------------------------
TypeOK ==
  /\ npc \in NetworkSteps /\ resume \in NetworkSteps
  /\ client \in BOOLEAN /\ phase \in {"hello", "authentication", "active"}
  /\ authed \in Nat /\ token \in Nat /\ issued \in Nat
  /\ running \in BOOLEAN /\ connected \in BOOLEAN /\ disconnect \in BOOLEAN
  /\ session \in Nat
  /\ outbound \in Seq(Messages) /\ Len(outbound) <= Capacity
  /\ commands \in Seq(SL!Commands) /\ Len(commands) <= MaxCommands
  /\ gpc \in GameSteps
  /\ store \in [Topics -> Versions] /\ view \in [Topics -> Versions]
  /\ sending \in Seq(Messages)
  /\ gpc \in {"send", "push"} <=> sending # <<>>
  /\ lossy \in BOOLEAN /\ carried \in BOOLEAN

\* A session whose credential has been forgotten is on its way out: ForgetDevice
\* has set disconnect_ or is about to, and no closeClient has taken that request
\* for its own and left the session up.  (WcsBridge::ForgetDevice against the
\* disconnect_ = false that ends closeClient.)
RevokedSessionIsClosed ==
  connected /\ authed # token => disconnect \/ gpc = "forget"

\* Nothing is queued for a client that is not there, except the one message a
\* Send had already checked connected_ for when the session ended: the race of
\* Send's unlocked check never carries more than that over to the next client.
OneMessageBetweenSessions ==
  ~client /\ npc = "select" => Len(outbound) <= 1

\* A session is in use: its snapshot is out and nothing has ended it.
Serving == client /\ phase = "active" /\ npc \notin {"snapshot", "close"}

\* What the client shows, once everything queued or about to be queued for it
\* has arrived, is the current state: no order of snapshot_(), Send and the
\* drain loses an update, unless one was dropped at a full queue or a socket
\* that took no more, or came from the session before.
ClientConverges ==
  Serving /\ ~lossy /\ ~carried
    => \A t \in Topics : Shown(view, outbound \o sending, t) = store[t]

\* README.md: "auth.ok is followed by state.snapshot, then incremental state
\* events".  An event that is older than the snapshot undoes it: with nothing
\* dropped, nothing queued and no call under way, the client shows the state.
SnapshotIsNotUndone ==
  Serving /\ ~lossy /\ outbound = <<>> /\ gpc = "idle" => view = store

\* The network thread, seen through session_, connected_ and commands_, keeps
\* the promises of SessionLayer.
ImplementsSessionLayer == SL!SLSpec

\* The game thread can tell a request of a session that is over by its number.
QueuedRequestIsLive == SL!QueuedRequestIsLive

\* The ReleaseAll of a session's end stands before the next session's commands.
ReleaseBetweenSessions == SL!ReleaseBetweenSessions

\* ForgetDevice closes the session it revokes: whatever the client sends in the
\* meantime, a session whose credential is forgotten ends.
RevokedSessionEnds == (connected /\ authed # token) ~> ~connected

\* A message in the queue is sent or its session ends.
QueueIsDrained == (outbound # <<>> /\ connected) ~> (outbound = <<>> \/ ~connected)

\* Stop, which waits for the network thread, returns.
StopReturns == (gpc = "stop") ~> (gpc = "gone")
=============================================================================
