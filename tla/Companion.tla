----------------------------- MODULE Companion -----------------------------
(***************************************************************************)
(* The companion's connection (WcsBridgeClient.ts, with the screen that    *)
(* CompanionScreenContext.tsx and reducer.ts make of it) against the one   *)
(* slot that WebSocketServer keeps and the credentials of Pairing.         *)
(*                                                                         *)
(* The browser runs one callback at a time; the handler of a message may   *)
(* wait for the credential store and go on after its socket has been       *)
(* replaced.  A socket may be lost without the server's noticing, the      *)
(* server or the page may restart, another companion may take the slot.    *)
(* Any close frame, deadline or failed send is CloseSlot.                  *)
(***************************************************************************)
EXTENDS Pairing, Sequences

CONSTANTS Sockets,    \* bound: sockets that are not finished, at one time
          NoSocket,
          MaxLeaked   \* bound: timers nobody can clear any more

ASSUME CompanionAssumption ==
  /\ NoSocket \notin Sockets
  /\ {"none", "stale", "other"} \cap Sockets = {}

VARIABLES
  sock,         \* readyState of each socket; "aborted" if closed before it was accepted
  inbox,        \* events of each socket that the page has yet to handle
  mail,         \* messages that the server has yet to read
  awaiting,     \* the handler that waits for the credential store
  current,      \* this.socket
  timer,        \* retryTimer is pending
  leaked,       \* pending timers whose handle was overwritten
  intentional, halted,
  configured,   \* hostIp is set
  stored,       \* the credential in the store
  screen,       \* connectionState and sessionState
  serving,      \* the server's client: a socket, another companion's, or one
  phase,        \*   that is gone without the server's knowledge
  crossed       \* history: a callback of a socket that is not the current one ran

pagevars == <<current, timer, leaked, intentional, halted, configured>>
servervars == <<serving, phase>>
companionvars == <<vars, sock, inbox, mail, awaiting, pagevars, stored, screen, servervars,
                   crossed>>

Shows(c, s) == screen' = [connection |-> c, session |-> s]
Message(type, t) == [type |-> type, token |-> t]
Idle == Message("none", 0)

CompanionInit ==
  /\ Init
  /\ sock = [s \in Sockets |-> "none"]
  /\ inbox = [s \in Sockets |-> <<>>] /\ mail = [s \in Sockets |-> <<>>]
  /\ awaiting = [s \in Sockets |-> Idle]
  /\ current = NoSocket /\ timer = FALSE /\ leaked = 0
  /\ intentional = FALSE /\ halted = FALSE /\ configured = FALSE /\ stored = 0
  /\ screen = [connection |-> "unconfigured", session |-> "idle"]
  /\ serving = "none" /\ phase = "hello" /\ crossed = FALSE

(***************************************************************************)
(* The page                                                                *)
(***************************************************************************)
\* readyState after close().
ClosedState(s) ==
  CASE sock[s] = "open" -> "closing"
    [] sock[s] = "connecting" -> IF inbox[s] = <<>> THEN "aborted" ELSE "closing"
    [] OTHER -> sock[s]

\* A socket that is closing has no more events but its onclose.
Silenced(states) == [s \in Sockets |-> IF states[s] \in {"connecting", "open"} THEN inbox[s] ELSE <<>>]

\* open: a socket more, and the screen starts over.
Open(s, states) ==
  /\ states[s] = "none" /\ awaiting[s] = Idle
  /\ sock' = [states EXCEPT ![s] = "connecting"]
  /\ current' = s /\ Shows("connecting", "idle")
  /\ inbox' = Silenced(states) /\ UNCHANGED mail

Disconnected == IF current = NoSocket THEN sock
                ELSE [sock EXCEPT ![current] = ClosedState(current)]

\* Faulty: intentional stays set.
FaultyReopen(s) ==
  /\ intentional' = TRUE /\ halted' = FALSE /\ timer' = FALSE
  /\ Open(s, Disconnected)
  /\ UNCHANGED <<leaked, awaiting, vars, stored, servervars, crossed>>

\* disconnect and open.
Reopen(s) ==
  /\ intentional' = FALSE /\ halted' = FALSE /\ timer' = FALSE
  /\ Open(s, Disconnected)
  /\ UNCHANGED <<leaked, awaiting, vars, stored, servervars, crossed>>

\* connect: an address is entered, or changed to another of the same machine.
Connect(s) == Reopen(s) /\ configured' = TRUE

\* retry: the overlay offers it.
Retry(s) ==
  /\ screen.connection = "busy" \/ (screen.connection = "connecting" /\ screen.session # "checking")
  /\ Reopen(s) /\ UNCHANGED configured

\* disconnect: the address is cleared.
Deconfigure ==
  /\ configured /\ configured' = FALSE
  /\ sock' = Disconnected /\ inbox' = Silenced(Disconnected) /\ current' = NoSocket
  /\ intentional' = TRUE /\ timer' = FALSE /\ Shows("unconfigured", "idle")
  /\ UNCHANGED <<vars, mail, awaiting, leaked, halted, stored, servervars, crossed>>

\* The page is loaded again; its sockets go, which the server has yet to see.
Reload(s) ==
  /\ configured
  /\ sock' = [x \in Sockets |-> IF x = s THEN "connecting" ELSE "none"]
  /\ inbox' = [x \in Sockets |-> <<>>] /\ mail' = [x \in Sockets |-> <<>>]
  /\ awaiting' = [x \in Sockets |-> Idle]
  /\ current' = s /\ timer' = FALSE /\ leaked' = 0
  /\ intentional' = FALSE /\ halted' = FALSE /\ Shows("connecting", "idle")
  /\ serving' = IF serving \in Sockets THEN "stale" ELSE serving
  /\ crossed' = FALSE
  /\ UNCHANGED <<vars, configured, stored, phase>>

\* A timer opens another socket, whatever became of the one before.
Fire(s) ==
  /\ \/ timer /\ timer' = FALSE /\ UNCHANGED leaked
     \/ leaked > 0 /\ leaked' = leaked - 1 /\ UNCHANGED timer
  /\ Open(s, sock)
  /\ UNCHANGED <<vars, awaiting, intentional, halted, configured, stored, servervars, crossed>>

\* sendRaw: to the current socket, if it is open; nobody reads what comes to a
\* slot that is not there any more.
SendRaw(states, m) ==
  mail' = IF current # NoSocket /\ states[current] = "open" /\ serving = current
          THEN [mail EXCEPT ![current] = Append(@, m)] ELSE mail

Handles(s, type) ==
  /\ inbox[s] # <<>> /\ Head(inbox[s]).type = type
  /\ sock[s] = IF type = "opened" THEN "connecting" ELSE "open"
  /\ crossed' = (crossed \/ s # current)

Popped(s) == inbox' = [inbox EXCEPT ![s] = Tail(@)]

OnOpen(s) ==
  /\ Handles(s, "opened") /\ Popped(s)
  /\ sock' = [sock EXCEPT ![s] = "open"] /\ Shows("connecting", "checking")
  /\ SendRaw(sock', Message("hello", 0))
  /\ UNCHANGED <<vars, awaiting, pagevars, stored, servervars>>

\* client-busy and auth-failed end the attempts.
OnError(s) ==
  /\ \/ Handles(s, "client-busy") /\ Shows("busy", "idle")
     \/ Handles(s, "auth-failed") /\ Shows("error", "failed")
  /\ halted' = TRUE /\ sock' = [sock EXCEPT ![s] = "closing"] /\ inbox' = Silenced(sock')
  /\ UNCHANGED <<vars, mail, awaiting, current, timer, leaked, intentional, configured, stored, servervars>>

\* A handler that waits for the credential store, to read it or to write it.
OnAwait(s) ==
  /\ Handles(s, "auth.required") \/ Handles(s, "pairing.complete")
  /\ Popped(s)
  /\ awaiting' = [awaiting EXCEPT ![s] = Head(inbox[s])]
  /\ UNCHANGED <<vars, sock, mail, pagevars, stored, screen, servervars>>

OnMessage(s) ==
  /\ \/ Handles(s, "pairing.required") /\ screen' = [screen EXCEPT !.session = "pairing"]
     \/ Handles(s, "state.snapshot") /\ Shows("connected", "ready")
  /\ Popped(s)
  /\ UNCHANGED <<vars, sock, mail, awaiting, pagevars, stored, servervars>>

\* The credential is there, or there is none, or the store fails; the socket
\* may be gone by now.
Resume(s) ==
  /\ awaiting[s] # Idle /\ awaiting' = [awaiting EXCEPT ![s] = Idle]
  /\ crossed' = (crossed \/ s # current)
  /\ \/ /\ awaiting[s].type = "pairing.complete" /\ stored' \in {stored, awaiting[s].token}
        /\ UNCHANGED <<sock, inbox, mail, halted, screen>>
     \/ /\ awaiting[s].type = "auth.required" /\ stored # 0
        /\ SendRaw(sock, Message("auth", stored))
        /\ screen' = [screen EXCEPT !.session = "checking"] /\ UNCHANGED <<sock, inbox, halted, stored>>
     \/ /\ awaiting[s].type = "auth.required"
        /\ halted' = TRUE /\ Shows("error", "failed")
        /\ sock' = [sock EXCEPT ![s] = ClosedState(s)] /\ inbox' = Silenced(sock')
        /\ UNCHANGED <<mail, stored>>
  /\ UNCHANGED <<vars, current, timer, leaked, intentional, configured, servervars>>

\* Faulty: the screen is not told that the connection is gone.
FaultyScheduleReconnect ==
  /\ timer' = TRUE /\ leaked' = IF timer THEN leaked + 1 ELSE leaked
  /\ leaked' <= MaxLeaked /\ UNCHANGED screen

\* scheduleReconnect: a pending timer loses its handle.
ScheduleReconnect ==
  /\ timer' = TRUE /\ leaked' = IF timer THEN leaked + 1 ELSE leaked
  /\ leaked' <= MaxLeaked /\ Shows("connecting", "idle")

\* onclose: the server has closed the socket, or knows that the page has, or
\* the connection is lost.
OnClose(s) ==
  /\ \/ sock[s] \in {"connecting", "open"} /\ inbox[s] # <<>> /\ Head(inbox[s]).type = "closed"
     \/ sock[s] \in {"aborted", "closing"} /\ serving # s
  /\ sock' = [sock EXCEPT ![s] = "none"]
  /\ inbox' = [inbox EXCEPT ![s] = <<>>] /\ mail' = [mail EXCEPT ![s] = <<>>]
  /\ current' = (IF s = current THEN NoSocket ELSE current)
  /\ crossed' = (crossed \/ s # current)
  /\ IF intentional \/ halted THEN UNCHANGED <<timer, leaked, screen>> ELSE ScheduleReconnect
  /\ UNCHANGED <<vars, awaiting, intentional, halted, configured, stored, servervars>>

\* The user enters a code.
EnterCode ==
  /\ screen.session = "pairing" /\ SendRaw(sock, Message("pair.request", 0)) /\ mail' # mail
  /\ Len(mail[current]) < 1
  /\ UNCHANGED <<vars, sock, inbox, awaiting, pagevars, stored, screen, servervars, crossed>>

Page ==
  \/ \E s \in Sockets :
       \/ Connect(s) \/ Retry(s) \/ Reload(s) \/ Fire(s) \/ OnOpen(s) \/ OnError(s) \/ OnAwait(s)
       \/ OnMessage(s) \/ Resume(s) \/ OnClose(s)
  \/ Deconfigure \/ EnterCode

(***************************************************************************)
(* The network and the server                                              *)
(***************************************************************************)
ours == <<awaiting, pagevars, stored, screen, crossed>>

Post(s, ms) ==
  inbox' = IF sock[s] \in {"connecting", "open"} THEN [inbox EXCEPT ![s] = @ \o ms] ELSE inbox

\* Where the network thread is not inside Pair.
Polling == pc \in {"up", "deleting"}

\* The upgrade succeeds; a second client is told and closed.  The token of the
\* answer is 1 if this page holds the slot itself.
Accept(s) ==
  /\ Polling /\ inbox[s] = <<>>
  /\ \/ /\ sock[s] \in {"connecting", "aborted"} /\ serving = "none"
        /\ serving' = s /\ phase' = "hello" /\ Post(s, <<Message("opened", 0)>>)
        /\ sock' = [sock EXCEPT ![s] = IF @ = "aborted" THEN "closing" ELSE @]
     \/ /\ sock[s] = "connecting" /\ serving # "none"
        /\ Post(s, <<Message("opened", 0),
                     Message("client-busy",
                             IF \E x \in Sockets : serving = x /\ sock[x] = "open" THEN 1 ELSE 0),
                     Message("closed", 0)>>)
        /\ UNCHANGED <<sock, servervars>>
  /\ UNCHANGED <<vars, mail, ours>>

AcceptOther ==
  /\ Polling /\ serving = "none" /\ serving' = "other"
  /\ UNCHANGED <<vars, sock, inbox, mail, phase, ours>>

\* closeClient, for whatever reason.
CloseSlot ==
  /\ Polling /\ serving # "none" /\ serving' = "none" /\ phase' = "hello"
  /\ IF serving \in Sockets
     THEN Post(serving, <<Message("closed", 0)>>) /\ mail' = [mail EXCEPT ![serving] = <<>>]
     ELSE UNCHANGED <<inbox, mail>>
  /\ UNCHANGED <<vars, sock, ours>>

\* The server is not there, or the network is not.
Lose(s) ==
  /\ \/ sock[s] = "connecting" /\ inbox[s] = <<>>
     \/ sock[s] = "open" /\ inbox[s] # <<Message("closed", 0)>>
     \/ sock[s] = "closing" /\ serving = s
  /\ inbox' = [inbox EXCEPT ![s] = IF sock[s] = "closing" THEN <<>> ELSE <<Message("closed", 0)>>]
  /\ mail' = [mail EXCEPT ![s] = <<>>]
  /\ serving' = (IF serving = s THEN "stale" ELSE serving)
  /\ UNCHANGED <<vars, sock, phase, ours>>

Reads(s, type) == Polling /\ serving = s /\ mail[s] # <<>> /\ Head(mail[s]).type = type
Taken(s) == mail' = [mail EXCEPT ![s] = Tail(@)]

\* hello, to a bridge that requires pairing or not.
Hello(s) ==
  /\ pc = "up" /\ Reads(s, "hello") /\ Taken(s)
  /\ IF phase # "hello" THEN UNCHANGED <<phase, inbox>>
     ELSE IF required
     THEN /\ phase' = "auth"
          /\ Post(s, <<Message(IF token # 0 THEN "auth.required" ELSE "pairing.required", 0)>>)
     ELSE phase' = "active" /\ Post(s, <<Message("state.snapshot", 0)>>)
  /\ UNCHANGED <<vars, sock, serving, ours>>

Auth(s) ==
  /\ phase = "auth" /\ Reads(s, "auth") /\ Taken(s)
  /\ \/ /\ Head(mail[s]).token = token /\ AuthenticateGood
        /\ phase' = "active" /\ Post(s, <<Message("state.snapshot", 0)>>)
     \/ /\ Head(mail[s]).token # token \/ blocked
        /\ AuthenticateBad /\ Post(s, <<Message("auth-failed", 0)>>) /\ UNCHANGED phase
  /\ UNCHANGED <<sock, serving, ours>>

\* pair.request: refused, or Pair goes on to save.
AskPair(s) ==
  /\ phase = "auth" /\ Reads(s, "pair.request")
  /\ \/ (PairRefused \/ PairWrong) /\ Taken(s)
     \/ Pair /\ UNCHANGED mail
  /\ UNCHANGED <<sock, inbox, servervars, ours>>

\* What an active session does not understand.
Ignored(s) ==
  /\ phase = "active" /\ (Reads(s, "auth") \/ Reads(s, "pair.request")) /\ Taken(s)
  /\ UNCHANGED <<vars, sock, inbox, servervars, ours>>

\* Pair saves and returns, for the socket that asked or for another companion.
Saving ==
  /\ SaveMoves \/ SaveFails
  /\ IF serving \in Sockets /\ pc' = "up" THEN Taken(serving) ELSE UNCHANGED mail
  /\ UNCHANGED <<sock, inbox, servervars, ours>>

PairReturns ==
  /\ Paired /\ phase' = "active"
  /\ IF serving \in Sockets
     THEN /\ Taken(serving)
          /\ Post(serving, <<Message("pairing.complete", token), Message("state.snapshot", 0)>>)
     ELSE UNCHANGED <<mail, inbox>>
  /\ UNCHANGED <<sock, serving, ours>>

\* The snapshots of an active session.
Publish ==
  /\ Polling /\ phase = "active" /\ serving \in Sockets /\ inbox[serving] = <<>>
  /\ Post(serving, <<Message("state.snapshot", 0)>>)
  /\ UNCHANGED <<vars, sock, mail, servervars, ours>>

\* Another companion pairs or tries to.
Other ==
  /\ serving = "other" /\ (AuthenticateGood \/ AuthenticateBad \/ PairRefused \/ PairWrong \/ Pair)
  /\ UNCHANGED <<sock, inbox, mail, servervars, ours>>

\* The process ends, and with it the server's sockets.
EndProcess ==
  /\ End /\ serving' = "none" /\ phase' = "hello"
  /\ mail' = [s \in Sockets |-> <<>>]
  /\ IF serving \in Sockets THEN Post(serving, <<Message("closed", 0)>>) ELSE UNCHANGED inbox
  /\ UNCHANGED <<sock, ours>>

Game ==
  /\ (\E r \in BOOLEAN : Start(r)) \/ Unblock \/ Forget \/ Delete
  /\ UNCHANGED <<sock, inbox, mail, servervars, ours>>

CompanionNext ==
  \/ Page
  \/ \E s \in Sockets : Accept(s) \/ Lose(s) \/ Hello(s) \/ Auth(s) \/ AskPair(s) \/ Ignored(s)
  \/ AcceptOther \/ CloseSlot \/ Saving \/ PairReturns \/ Publish \/ Other \/ EndProcess \/ Game

CompanionSpec == CompanionInit /\ [][CompanionNext]_companionvars

(***************************************************************************)
(* Properties                                                              *)
(***************************************************************************)
\* A companion with an address, which has not been stopped by an error, is
\* connected, connecting or about to, whatever was closed, lost, retried or
\* restarted in between.
NeverStranded ==
  configured /\ ~halted => timer \/ leaked > 0 \/ \E s \in Sockets : sock[s] # "none"

\* As long as only the current socket's callbacks run, the screen shows controls
\* only over an open socket, and a client that gave up says why.
ScreenTellsTheTruth ==
  ~crossed =>
    /\ screen.connection = "connected" => current # NoSocket /\ sock[current] = "open"
    /\ halted /\ configured => screen.connection \in {"busy", "error"}

\* "Another WoW Companion Screen client is already connected"
\* (ConnectionOverlay.tsx:69) is not said of the page's own socket.
BusyMeansAnother ==
  [][screen'.connection = "busy" /\ screen.connection # "busy" =>
       \A s \in Sockets : inbox[s] # inbox'[s] => Head(inbox[s]) # Message("client-busy", 1)]_companionvars
=============================================================================
