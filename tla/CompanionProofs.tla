--------------------------- MODULE CompanionProofs ---------------------------
(***************************************************************************)
(* Pairing for every limit on failed attempts and every number of codes,   *)
(* tokens, refusals, failing file operations and restarts; and Companion   *)
(* for every number of sockets, timers, codes and credentials: the         *)
(* composition implements Pairing, so that what is shown of Pairing holds  *)
(* of it, and the page never gives up or lies without a reason.            *)
(***************************************************************************)
EXTENDS Companion, TLAPS

(***************************************************************************)
(* Pairing                                                                 *)
(***************************************************************************)
\* The conjuncts of PairingTypeOK that are not about numbers.
Flags ==
  /\ pc \in {"down", "up", "saving", "saved", "deleting"}
  /\ required \in BOOLEAN /\ blocked \in BOOLEAN

Numbers ==
  /\ code \in Nat /\ token \in Nat /\ disk \in Nat
  /\ codes \in Nat /\ tokens \in Nat /\ guesses \in [Codes -> Nat]
  /\ failures \in 0..(MaxFailures - 1)
  /\ forgotten \subseteq Nat

LEMMA TypeParts == PairingTypeOK <=> Flags /\ Numbers
BY DEF PairingTypeOK, Flags, Numbers

LEMMA FlagsStep == Flags /\ [Next]_vars => Flags'
BY DEF Flags, Next, vars, Start, End, Unblock, AuthenticateGood, AuthenticateBad, PairRefused,
       PairWrong, FailedAttempt, Pair, SaveFails, SaveMoves, Paired, Forget, Delete

\* Every call keeps the types; FailedAttempt never lets failures_ reach the
\* limit.
LEMMA NumbersStep == Numbers /\ [Next]_vars => Numbers'
<1> SUFFICES ASSUME Numbers, [Next]_vars PROVE Numbers'
  OBVIOUS
<1> USE PairingAssumption DEF Numbers, DrawCode, KeepCode, drawn
<1>f. FailedAttempt => code' \in Nat /\ codes' \in Nat /\ failures' \in 0..(MaxFailures - 1)
  BY DEF FailedAttempt
<1>1. ASSUME NEW r \in BOOLEAN, Start(r) PROVE Numbers'
  BY <1>1 DEF Start
<1>2. CASE End
  BY <1>2 DEF End, NoGuesses
<1>3. CASE Unblock
  BY <1>3 DEF Unblock
<1>4. CASE AuthenticateGood
  BY <1>4 DEF AuthenticateGood
<1>5. CASE AuthenticateBad \/ PairRefused
  BY <1>f, <1>5 DEF AuthenticateBad, PairRefused
<1>6. CASE PairWrong
  <2>1. guesses' \in [Codes -> Nat]
    <3>1. guesses \in [Codes -> Nat] /\ guesses' = [guesses EXCEPT ![code] = guesses[code] + 1]
      BY <1>6 DEF PairWrong
    <3>2. ASSUME NEW c \in Codes PROVE guesses'[c] \in Nat
      <4>1. guesses[c] \in Nat /\ guesses'[c] = IF c = code THEN guesses[c] + 1 ELSE guesses[c]
        BY <3>1
      <4> QED BY <4>1
    <3> QED BY <3>1, <3>2
  <2> QED BY <1>f, <1>6, <2>1 DEF PairWrong
<1>7. CASE Pair
  BY <1>7 DEF Pair
<1>8. CASE SaveFails
  BY <1>8 DEF SaveFails
<1>9. CASE SaveMoves
  BY <1>9 DEF SaveMoves
<1>10. CASE Paired
  BY <1>10 DEF Paired
<1>11. CASE Forget
  BY <1>11 DEF Forget
<1>12. CASE Delete
  <2>1. forgotten' \subseteq Nat
    <3>1. forgotten' = forgotten \cup {t \in {disk} : t # 0} /\ disk \in Nat
      BY <1>12 DEF Delete
    <3> QED BY <3>1
  <2>2. disk' \in Nat
    BY <1>12 DEF Delete
  <2> QED BY <1>12, <2>1, <2>2 DEF Delete
<1>13. CASE UNCHANGED vars
  BY <1>13 DEF vars
<1> QED BY <1>1, <1>2, <1>3, <1>4, <1>5, <1>6, <1>7, <1>8, <1>9, <1>10, <1>11,
           <1>12, <1>13 DEF Next

LEMMA TypeStep == PairingTypeOK /\ [Next]_vars => PairingTypeOK'
BY TypeParts, FlagsStep, NumbersStep DEF PairingTypeOK, Flags, Numbers

-----------------------------------------------------------------------------
\* What the wrong guesses obey.  Each guess at the code at hand counts as a
\* failed attempt since it was drawn; where a success resets the count there is
\* no guess to forget; and codes still to be drawn have met no guess.
GuessInv ==
  /\ code \in Codes \cup {0} /\ code <= codes
  /\ \A c \in Codes : guesses[c] <= MaxFailures /\ (c > codes => guesses[c] = 0)
  /\ code # 0 => guesses[code] <= failures
  /\ pc = "down" => code = 0
  /\ pc = "up" /\ token # 0 /\ code # 0 => guesses[code] = 0

\* The inductive invariant.  A code is lost only with the token that took its
\* place, in memory and in the file at once.
PairingInv ==
  /\ PairingTypeOK
  /\ pc # "down" /\ required /\ token = 0 => code # 0
  /\ pc = "saving" => code # 0 /\ token # 0
  /\ pc = "saved" => token # 0
  /\ pc = "deleting" => token = 0
  /\ ~required => token = 0
  /\ token # 0 /\ pc \in {"up", "saved"} => disk = token
  /\ pc = "down" => token = 0
  /\ GuessInv

LEMMA PairingInit == Init => PairingInv
<1> SUFFICES ASSUME Init PROVE PairingInv
  OBVIOUS
<1>1. Flags
  BY DEF Init, Flags
<1>2. Numbers
  BY PairingAssumption DEF Init, Numbers, NoGuesses
<1>3. GuessInv
  BY PairingAssumption DEF Init, GuessInv, NoGuesses
<1> QED
  BY <1>1, <1>2, <1>3, TypeParts DEF Init, PairingInv

\* A failed attempt keeps the bound: it counts, or it replaces the code by one
\* that nobody has guessed at.
LEMMA GuessStep == PairingInv /\ [Next]_vars => GuessInv'
<1> SUFFICES ASSUME PairingInv, [Next]_vars PROVE GuessInv'
  OBVIOUS
<1>t. PairingTypeOK
  BY DEF PairingInv
<1>g. GuessInv
  BY DEF PairingInv
<1> USE <1>t, <1>g, PairingAssumption DEF PairingTypeOK, GuessInv, DrawCode, KeepCode, drawn
<1>1. ASSUME NEW r \in BOOLEAN, Start(r) PROVE GuessInv'
  BY <1>1 DEF Start, PairingInv
<1>2. CASE End
  BY <1>2 DEF End, NoGuesses
<1>3. CASE Unblock
  BY <1>3 DEF Unblock
<1>4. CASE AuthenticateGood
  BY <1>4 DEF AuthenticateGood
<1>5. CASE AuthenticateBad \/ PairRefused
  BY <1>5 DEF AuthenticateBad, PairRefused, FailedAttempt
<1>6. CASE PairWrong
  <2>1. code # 0 /\ code \in Codes /\ token = 0 /\ token' = token /\ pc' = pc /\ pc = "up"
    BY <1>6 DEF PairWrong, PairingInv
  <2>2. /\ guesses'[code] = guesses[code] + 1
        /\ \A c \in Codes : c # code => guesses'[c] = guesses[c]
    BY <1>6, <2>1 DEF PairWrong
  <2>3. guesses'[code] <= failures + 1 /\ failures + 1 <= MaxFailures
    BY <2>1, <2>2
  <2>4. CASE failures + 1 >= MaxFailures
    <3>1. code' = codes + 1 /\ codes' = codes + 1 /\ codes + 1 \in Codes /\ failures' = 0
      BY <1>6, <2>4 DEF PairWrong, FailedAttempt
    <3>2. guesses'[codes + 1] = 0
      BY <2>1, <2>2, <3>1
    <3> QED BY <2>1, <2>2, <2>3, <3>1, <3>2
  <2>5. CASE ~(failures + 1 >= MaxFailures)
    <3>1. code' = code /\ codes' = codes /\ failures' = failures + 1
      BY <1>6, <2>5 DEF PairWrong, FailedAttempt
    <3> QED BY <2>1, <2>2, <2>3, <3>1
  <2> QED BY <2>4, <2>5
<1>7. CASE Pair
  BY <1>7 DEF Pair
<1>8. CASE SaveFails
  BY <1>8 DEF SaveFails
<1>9. CASE SaveMoves
  BY <1>9 DEF SaveMoves
<1>10. CASE Paired
  BY <1>10 DEF Paired
<1>11. CASE Forget
  BY <1>11 DEF Forget
<1>12. CASE Delete
  BY <1>12 DEF Delete, PairingInv
<1>13. CASE UNCHANGED vars
  BY <1>13 DEF vars
<1> QED BY <1>1, <1>2, <1>3, <1>4, <1>5, <1>6, <1>7, <1>8, <1>9, <1>10, <1>11,
           <1>12, <1>13 DEF Next

LEMMA PairingStep == PairingInv /\ [Next]_vars => PairingInv'
<1> SUFFICES ASSUME PairingInv, [Next]_vars PROVE PairingInv'
  OBVIOUS
<1>t. PairingTypeOK /\ PairingTypeOK'
  BY TypeStep DEF PairingInv
<1>g. GuessInv'
  BY GuessStep
<1> USE <1>t, <1>g, PairingAssumption DEF PairingInv, DrawCode, KeepCode, drawn
<1>f. FailedAttempt => (code # 0 => code' # 0)
  BY DEF FailedAttempt, PairingTypeOK
<1>1. ASSUME NEW r \in BOOLEAN, Start(r) PROVE PairingInv'
  BY <1>1 DEF Start, PairingTypeOK
<1>2. CASE End
  BY <1>2 DEF End
<1>3. CASE Unblock
  BY <1>3 DEF Unblock
<1>4. CASE AuthenticateGood
  BY <1>4 DEF AuthenticateGood
<1>5. CASE AuthenticateBad \/ PairRefused
  BY <1>f, <1>5 DEF AuthenticateBad, PairRefused
<1>6. CASE PairWrong
  BY <1>f, <1>6 DEF PairWrong
<1>7. CASE Pair
  BY <1>7 DEF Pair, PairingTypeOK
<1>8. CASE SaveFails
  BY <1>8 DEF SaveFails
<1>9. CASE SaveMoves
  BY <1>9 DEF SaveMoves
<1>10. CASE Paired
  BY <1>10 DEF Paired
<1>11. CASE Forget
  BY <1>11 DEF Forget, PairingTypeOK
<1>12. CASE Delete
  BY <1>12 DEF Delete
<1>13. CASE UNCHANGED vars
  BY <1>13 DEF vars
<1> QED BY <1>1, <1>2, <1>3, <1>4, <1>5, <1>6, <1>7, <1>8, <1>9, <1>10, <1>11,
           <1>12, <1>13 DEF Next

THEOREM PairingInvariant == Spec => []PairingInv
BY PairingInit, PairingStep, PTL DEF Spec

-----------------------------------------------------------------------------
\* The types of the pairing state.
THEOREM PairingTypes == Spec => []PairingTypeOK
BY PairingInvariant, PTL DEF PairingInv

\* An unpaired bridge always has a code to pair with, whatever fails.
THEOREM UnpairedBridgeHasCode == Spec => []UnpairedHasCode
<1>1. PairingInv => UnpairedHasCode
  BY DEF PairingInv, UnpairedHasCode
<1> QED BY <1>1, PairingInvariant, PTL

\* The token in use is the one in the file.
THEOREM TokensAreDurable == Spec => []TokenIsDurable
<1>1. PairingInv => TokenIsDurable
  BY DEF PairingInv, TokenIsDurable
<1> QED BY <1>1, PairingInvariant, PTL

\* No code is compared with more than MaxFailures wrong ones.
THEOREM GuessesStayBounded == Spec => []GuessesAreBounded
<1>1. PairingInv => GuessesAreBounded
  BY DEF PairingInv, GuessInv, GuessesAreBounded
<1> QED BY <1>1, PairingInvariant, PTL

(***************************************************************************)
(* The composition implements Pairing                                      *)
(***************************************************************************)
\* The page's steps leave the credentials alone.
LEMMA PageStutters == Page => UNCHANGED vars
BY DEF Page, Connect, Retry, Reopen, Reload, Fire, OnOpen, OnError, OnAwait, OnMessage, Resume,
       OnClose, Deconfigure, EnterCode

\* Every step is one of Pairing's or leaves its variables alone.
LEMMA StepRefines == [CompanionNext]_companionvars => [Next]_vars
<1> SUFFICES ASSUME [CompanionNext]_companionvars PROVE [Next]_vars
  OBVIOUS
<1>1. CASE Page
  BY <1>1, PageStutters
<1>2. CASE \E s \in Sockets : Accept(s) \/ Lose(s) \/ Hello(s) \/ Ignored(s)
  BY <1>2 DEF Accept, Lose, Hello, Ignored
<1>3. ASSUME NEW s \in Sockets, Auth(s) PROVE Next
  BY <1>3 DEF Auth, Next
<1>4. ASSUME NEW s \in Sockets, AskPair(s) PROVE Next
  BY <1>4 DEF AskPair, Next
<1>5. CASE AcceptOther \/ CloseSlot \/ Publish
  BY <1>5 DEF AcceptOther, CloseSlot, Publish
<1>6. CASE Saving \/ PairReturns
  BY <1>6 DEF Saving, PairReturns, Next
<1>7. CASE Other
  BY <1>7 DEF Other, Next
<1>8. CASE EndProcess
  BY <1>8 DEF EndProcess, Next
<1>9. CASE Game
  BY <1>9, Zenon DEF Game, Next
<1>10. CASE UNCHANGED companionvars
  BY <1>10 DEF companionvars
<1> QED
  BY <1>1, <1>2, <1>3, <1>4, <1>5, <1>6, <1>7, <1>8, <1>9, <1>10 DEF CompanionNext

\* Whatever companions and bridge do, the credentials behave as Pairing says.
THEOREM CompanionImplementsPairing == CompanionSpec => Spec
<1>1. CompanionInit => Init
  BY DEF CompanionInit
<1> QED
  BY <1>1, StepRefines, PTL DEF CompanionSpec, Spec

\* The four invariants of the credentials, in the composition.
THEOREM CompanionKeepsCredentials ==
  CompanionSpec => [](PairingTypeOK /\ UnpairedHasCode /\ TokenIsDurable /\ GuessesAreBounded)
BY CompanionImplementsPairing, PairingTypes, UnpairedBridgeHasCode, TokensAreDurable,
   GuessesStayBounded, PTL

(***************************************************************************)
(* The page is never stranded                                              *)
(***************************************************************************)
States == {"none", "connecting", "aborted", "open", "closing"}

Screens == [connection : {"unconfigured", "connecting", "connected", "busy", "error"},
            session : {"idle", "checking", "pairing", "ready", "failed"}]

PageTypes ==
  /\ sock \in [Sockets -> States]
  /\ current \in Sockets \cup {NoSocket}
  /\ screen \in Screens
  /\ intentional => ~configured

Stranded == NeverStranded /\ PageTypes

\* What close() leaves is a state, and is not "none" unless it was.
LEMMA Closing ==
  ASSUME PageTypes, NEW s \in Sockets
  PROVE  ClosedState(s) \in States /\ (ClosedState(s) = "none" <=> sock[s] = "none")
                                 /\ ClosedState(s) \notin {"connecting", "open"}
BY DEF PageTypes, ClosedState, States

LEMMA Disconnecting ==
  ASSUME PageTypes
  PROVE  Disconnected \in [Sockets -> States]
BY Closing DEF PageTypes, Disconnected

\* The server's and the network's steps leave the page's own variables alone.
Remote ==
  \/ \E s \in Sockets : Accept(s) \/ Lose(s) \/ Hello(s) \/ Auth(s) \/ AskPair(s) \/ Ignored(s)
  \/ AcceptOther \/ CloseSlot \/ Saving \/ PairReturns \/ Publish \/ Other \/ EndProcess \/ Game

LEMMA RemoteKeepsPage ==
  ASSUME PageTypes, Remote
  PROVE  /\ UNCHANGED ours
         /\ sock' \in [Sockets -> States]
         /\ \A x \in Sockets : /\ sock'[x] = "none" <=> sock[x] = "none"
                               /\ sock'[x] = "open" <=> sock[x] = "open"
                               /\ sock'[x] \in {"connecting", "open"} <=> sock[x] \in {"connecting", "open"}
<1>1. ASSUME NEW s \in Sockets, Accept(s)
      PROVE  UNCHANGED ours /\ (UNCHANGED sock \/ sock' =
               [sock EXCEPT ![s] = IF @ = "aborted" THEN "closing" ELSE @])
  BY <1>1 DEF Accept
<1>2. ASSUME NEW s \in Sockets, Lose(s) \/ Hello(s) \/ Auth(s) \/ AskPair(s) \/ Ignored(s)
      PROVE  UNCHANGED ours /\ UNCHANGED sock
  BY <1>2 DEF Lose, Hello, Auth, AskPair, Ignored
<1>3. CASE AcceptOther \/ CloseSlot \/ Saving \/ PairReturns \/ Publish \/ Other \/ EndProcess \/ Game
  <2>1. UNCHANGED ours /\ UNCHANGED sock
    BY <1>3 DEF AcceptOther, CloseSlot, Saving, PairReturns, Publish, Other, EndProcess, Game
  <2> QED
    BY <2>1 DEF PageTypes
<1>4. ASSUME NEW s \in Sockets, Accept(s)
      PROVE  /\ sock' \in [Sockets -> States]
             /\ \A x \in Sockets : /\ sock'[x] = "none" <=> sock[x] = "none"
                                   /\ sock'[x] = "open" <=> sock[x] = "open"
                                   /\ sock'[x] \in {"connecting", "open"} <=> sock[x] \in {"connecting", "open"}
  BY <1>1, <1>4 DEF PageTypes, Screens, States
<1> QED
  BY <1>1, <1>2, <1>3, <1>4 DEF Remote, PageTypes

\* Opening leaves a socket that is connecting.
LEMMA Opening ==
  ASSUME NEW s \in Sockets, NEW states \in [Sockets -> States], Open(s, states)
  PROVE  /\ sock' \in [Sockets -> States] /\ sock'[s] = "connecting"
         /\ current' = s /\ screen' \in Screens
         /\ screen'.connection = "connecting"
BY DEF Open, Shows, States, Screens

LEMMA PageTypesStep == PageTypes /\ [CompanionNext]_companionvars => PageTypes'
<1> SUFFICES ASSUME PageTypes, [CompanionNext]_companionvars PROVE PageTypes'
  OBVIOUS
<1>1. ASSUME NEW s \in Sockets, Connect(s) \/ Retry(s) PROVE PageTypes'
  BY <1>1, Disconnecting, Opening DEF Connect, Retry, Reopen, PageTypes
<1>2. ASSUME NEW s \in Sockets, Reload(s) PROVE PageTypes'
  BY <1>2 DEF Reload, PageTypes, Screens, States, Shows, Screens
<1>3. ASSUME NEW s \in Sockets, Fire(s) PROVE PageTypes'
  <2>1. sock \in [Sockets -> States] /\ Open(s, sock)
    BY <1>3 DEF Fire, PageTypes
  <2> QED
    BY <1>3, <2>1, Opening DEF Fire, PageTypes
<1>4. ASSUME NEW s \in Sockets, OnOpen(s) \/ OnError(s) PROVE PageTypes'
  BY <1>4 DEF OnOpen, OnError, Shows, Screens, PageTypes, Screens, States, pagevars
<1>5. ASSUME NEW s \in Sockets, OnAwait(s) \/ OnMessage(s) PROVE PageTypes'
  BY <1>5 DEF OnAwait, OnMessage, Shows, Screens, PageTypes, pagevars
<1>6. ASSUME NEW s \in Sockets, Resume(s) PROVE PageTypes'
  BY <1>6, Closing DEF Resume, Shows, Screens, PageTypes
<1>7. ASSUME NEW s \in Sockets, OnClose(s) PROVE PageTypes'
  BY <1>7 DEF OnClose, ScheduleReconnect, Shows, Screens, PageTypes, Screens, States
<1>8. CASE Deconfigure
  BY <1>8, Disconnecting DEF Deconfigure, Shows, Screens, PageTypes
<1>9. CASE EnterCode
  BY <1>9 DEF EnterCode, PageTypes, pagevars
<1>10. CASE Remote
  BY <1>10, RemoteKeepsPage DEF PageTypes, ours, pagevars
<1>11. CASE UNCHANGED companionvars
  BY <1>11 DEF companionvars, pagevars, PageTypes
<1> QED
  BY <1>1, <1>2, <1>3, <1>4, <1>5, <1>6, <1>7, <1>8, <1>9, <1>10, <1>11 DEF CompanionNext, Page, Remote

\* A step that finishes no socket, clears no timer and starts no new claim.
LEMMA StillThere ==
  ASSUME NeverStranded, timer' = timer, leaked' = leaked,
         configured' /\ ~halted' => configured /\ ~halted,
         \A s \in Sockets : sock[s] # "none" => sock'[s] # "none"
  PROVE  NeverStranded'
BY DEF NeverStranded

LEMMA NeverStrandedStep == Stranded /\ [CompanionNext]_companionvars => NeverStranded'
<1> SUFFICES ASSUME Stranded, [CompanionNext]_companionvars PROVE NeverStranded'
  OBVIOUS
<1> USE DEF Stranded
<1>1. ASSUME NEW s \in Sockets, Connect(s) \/ Retry(s) PROVE NeverStranded'
  <2>1. sock'[s] = "connecting"
    BY <1>1, Disconnecting, Opening DEF Connect, Retry, Reopen
  <2> QED
    BY <2>1 DEF NeverStranded
<1>2. ASSUME NEW s \in Sockets, Reload(s) PROVE NeverStranded'
  BY <1>2 DEF Reload, NeverStranded
<1>3. ASSUME NEW s \in Sockets, Fire(s) PROVE NeverStranded'
  <2>1. sock'[s] = "connecting"
    BY <1>3, Opening DEF Fire, PageTypes
  <2> QED
    BY <2>1 DEF NeverStranded
<1>4. ASSUME NEW s \in Sockets, OnOpen(s) PROVE NeverStranded'
  BY <1>4, StillThere DEF OnOpen, pagevars, PageTypes
<1>5. ASSUME NEW s \in Sockets, OnError(s) PROVE NeverStranded'
  BY <1>5 DEF OnError, NeverStranded
<1>6. ASSUME NEW s \in Sockets, OnAwait(s) \/ OnMessage(s) PROVE NeverStranded'
  BY <1>6, StillThere DEF OnAwait, OnMessage, pagevars
<1>7. ASSUME NEW s \in Sockets, Resume(s) PROVE NeverStranded'
  <2>1. \A x \in Sockets : sock[x] # "none" => sock'[x] # "none"
    BY <1>7, Closing DEF Resume, PageTypes
  <2> QED
    BY <1>7, <2>1, StillThere DEF Resume
<1>8. ASSUME NEW s \in Sockets, OnClose(s) PROVE NeverStranded'
  BY <1>8 DEF OnClose, ScheduleReconnect, NeverStranded, PageTypes
<1>9. CASE Deconfigure
  BY <1>9 DEF Deconfigure, NeverStranded
<1>10. CASE EnterCode
  BY <1>10, StillThere DEF EnterCode, pagevars
<1>11. CASE Remote
  BY <1>11, RemoteKeepsPage, StillThere DEF ours, pagevars
<1>12. CASE UNCHANGED companionvars
  BY <1>12, StillThere DEF companionvars, pagevars
<1> QED
  BY <1>1, <1>2, <1>3, <1>4, <1>5, <1>6, <1>7, <1>8, <1>9, <1>10, <1>11, <1>12
     DEF CompanionNext, Page, Remote

\* A companion with an address that no error has stopped has a socket or a timer.
THEOREM CompanionIsNeverStranded == CompanionSpec => []NeverStranded
<1>1. CompanionInit => Stranded
  BY DEF CompanionInit, Stranded, NeverStranded, PageTypes, Screens, States
<1>2. Stranded /\ [CompanionNext]_companionvars => Stranded'
  BY PageTypesStep, NeverStrandedStep DEF Stranded
<1>3. Stranded => NeverStranded
  BY DEF Stranded
<1> QED
  BY <1>1, <1>2, <1>3, PTL DEF CompanionSpec

(***************************************************************************)
(* The screen tells the truth                                              *)
(***************************************************************************)
\* While no callback of an old socket has run: a pending timer means that there
\* is no socket and no error, and after an error the current one is closing.
Truth ==
  ~crossed =>
    /\ screen.connection = "connected" => current # NoSocket /\ sock[current] = "open"
    /\ halted /\ configured => screen.connection \in {"busy", "error"}
    /\ timer \/ ~(leaked = 0) => leaked = 0 /\ current = NoSocket /\ ~halted /\ configured
    /\ halted /\ current # NoSocket => sock[current] \notin {"connecting", "open"}
    /\ ~configured => current = NoSocket /\ screen.connection = "unconfigured"

Honest == PageTypes /\ Truth

LEMMA TruthStep == Honest /\ [CompanionNext]_companionvars => Truth'
<1> SUFFICES ASSUME Honest, [CompanionNext]_companionvars PROVE Truth'
  OBVIOUS
<1> USE CompanionAssumption DEF Honest
<1>1. ASSUME NEW s \in Sockets, Connect(s) \/ Retry(s) PROVE Truth'
  <2>1. sock'[s] = "connecting" /\ current' = s /\ screen'.connection = "connecting"
    BY <1>1, Disconnecting, Opening DEF Connect, Retry, Reopen
  <2>2. ~halted' /\ ~timer' /\ leaked' = leaked /\ crossed' = crossed
    BY <1>1 DEF Connect, Retry, Reopen
  <2>3. ~crossed => configured'
    <3>1. CASE Connect(s)
      BY <3>1 DEF Connect
    <3>2. CASE Retry(s)
      BY <3>2 DEF Retry, Reopen, Truth
    <3> QED
      BY <1>1, <3>1, <3>2
  <2> QED
    BY <2>1, <2>2, <2>3 DEF Truth
<1>2. ASSUME NEW s \in Sockets, Reload(s) PROVE Truth'
  BY <1>2 DEF Reload, Truth, Shows
<1>3. ASSUME NEW s \in Sockets, Fire(s) PROVE Truth'
  <2>1. sock'[s] = "connecting" /\ current' = s /\ screen'.connection = "connecting"
    BY <1>3, Opening DEF Fire, PageTypes
  <2> QED
    BY <1>3, <2>1 DEF Fire, Truth
<1>4. ASSUME NEW s \in Sockets, OnOpen(s) PROVE Truth'
  BY <1>4 DEF OnOpen, Handles, Truth, Shows, pagevars, PageTypes
<1>5. ASSUME NEW s \in Sockets, OnError(s) PROVE Truth'
  <2>1. crossed' = (crossed \/ s # current) /\ screen'.connection \in {"busy", "error"}
    BY <1>5 DEF OnError, Handles, Shows
  <2>2. sock'[s] = "closing" /\ UNCHANGED <<current, timer, leaked, configured>>
    BY <1>5 DEF OnError, PageTypes, States
  <2> QED
    BY <2>1, <2>2 DEF Truth
<1>6. ASSUME NEW s \in Sockets, OnAwait(s) PROVE Truth'
  BY <1>6 DEF OnAwait, Handles, Truth, pagevars
<1>7. ASSUME NEW s \in Sockets, OnMessage(s) PROVE Truth'
  BY <1>7 DEF OnMessage, Handles, Truth, Shows, pagevars, PageTypes
<1>8. ASSUME NEW s \in Sockets, Resume(s) PROVE Truth'
  <2>1. crossed' = (crossed \/ s # current) /\ UNCHANGED <<current, timer, leaked, configured>>
    BY <1>8 DEF Resume
  <2>2. CASE UNCHANGED <<sock, halted>> /\ screen'.connection = screen.connection
    BY <2>1, <2>2 DEF Truth
  <2>3. CASE halted' /\ screen'.connection = "error" /\ sock' = [sock EXCEPT ![s] = ClosedState(s)]
    <3>1. sock'[s] \notin {"connecting", "open"}
      BY <2>3, Closing DEF PageTypes
    <3> QED
      BY <2>1, <2>3, <3>1 DEF Truth
  <2> QED
    BY <1>8, <2>2, <2>3 DEF Resume, Shows, PageTypes, Screens
<1>9. ASSUME NEW s \in Sockets, OnClose(s) PROVE Truth'
  <2>1. crossed' = (crossed \/ s # current) /\ UNCHANGED <<halted, configured, intentional>>
    BY <1>9 DEF OnClose
  <2>2. s = current => current' = NoSocket
    BY <1>9 DEF OnClose
  <2>3. CASE (intentional \/ halted) /\ UNCHANGED <<timer, leaked, screen>>
    BY <2>1, <2>2, <2>3 DEF Truth, PageTypes
  <2>4. CASE ~(intentional \/ halted) /\ ScheduleReconnect
    <3>1. screen'.connection = "connecting" /\ (~timer => leaked' = leaked)
      BY <2>4 DEF ScheduleReconnect, Shows
    <3> QED
      BY <2>1, <2>2, <2>4, <3>1 DEF Truth, PageTypes
  <2> QED
    BY <1>9, <2>3, <2>4 DEF OnClose
<1>10. CASE Deconfigure
  BY <1>10 DEF Deconfigure, Truth, Shows
<1>11. CASE EnterCode
  BY <1>11 DEF EnterCode, Truth, pagevars
<1>12. CASE Remote
  <2>1. current # NoSocket => current \in Sockets
    BY DEF PageTypes
  <2> QED
    BY <1>12, <2>1, RemoteKeepsPage DEF Truth, ours, pagevars
<1>13. CASE UNCHANGED companionvars
  BY <1>13 DEF companionvars, pagevars, Truth
<1> QED
  BY <1>1, <1>2, <1>3, <1>4, <1>5, <1>6, <1>7, <1>8, <1>9, <1>10, <1>11, <1>12, <1>13
     DEF CompanionNext, Page, Remote

\* Under one socket at a time the screen shows what the connection is.
THEOREM TheScreenTellsTheTruth == CompanionSpec => []ScreenTellsTheTruth
<1>1. CompanionInit => Honest
  BY DEF CompanionInit, Honest, Truth, PageTypes, Screens, States
<1>2. Honest /\ [CompanionNext]_companionvars => Honest'
  BY PageTypesStep, TruthStep DEF Honest
<1>3. Honest => ScreenTellsTheTruth
  BY DEF Honest, Truth, ScreenTellsTheTruth
<1> QED
  BY <1>1, <1>2, <1>3, PTL DEF CompanionSpec
=============================================================================
