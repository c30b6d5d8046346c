------------------------------- MODULE Pairing -------------------------------
(***************************************************************************)
(* PairingManager (Pairing.cpp): the pairing code shown in the game, the   *)
(* token of the one paired device, the limit on failed attempts, and the   *)
(* file that carries the token over a restart.  The network thread calls   *)
(* Authenticate and Pair, the game thread Forget; mutex_ makes the calls   *)
(* exclude each other, so pc is the one call under way.  The process may   *)
(* end at any step, and every file operation may fail.                     *)
(*                                                                         *)
(* A code and a token are numbers, fresh ones each time, 0 the empty       *)
(* string; blocked stands for GetTickCount64() < blockedUntil_.            *)
(***************************************************************************)
EXTENDS Naturals

CONSTANTS MaxFailures,   \* failed attempts that rotate the code (5)
          Codes,         \* bound: codes drawn
          Tokens         \* bound: tokens drawn

ASSUME PairingAssumption ==
  /\ MaxFailures \in Nat \ {0}
  /\ Codes \subseteq Nat \ {0} /\ Tokens \subseteq Nat \ {0}

VARIABLES
  pc,          \* "down", "up", or inside a call: "saving", "saved", "deleting"
  required,    \* required_, from the configuration
  code, token, failures, blocked,
  disk,        \* the token in pairing.dat
  codes,       \* the codes drawn so far
  tokens,      \* the tokens drawn so far
  \* history, for the properties only
  guesses,     \* how many wrong codes this process compared each code with
  forgotten    \* the credentials that Forget has returned from forgetting

drawn == <<codes, tokens>>
vars == <<pc, required, code, token, failures, blocked, disk, drawn, guesses, forgotten>>

NoGuesses == [c \in Codes |-> 0]

Init ==
  /\ pc = "down" /\ required = FALSE
  /\ code = 0 /\ token = 0 /\ failures = 0 /\ blocked = FALSE
  /\ disk = 0 /\ codes = 0 /\ tokens = 0
  /\ guesses = NoGuesses /\ forgotten = {}

\* RandomCode.
DrawCode ==
  /\ codes + 1 \in Codes
  /\ codes' = codes + 1 /\ code' = codes + 1

KeepCode == UNCHANGED <<code, codes>>

-----------------------------------------------------------------------------
\* Initialise: the file is read, if there is one and Windows will decrypt it;
\* without a token a code is drawn.
Start(r) ==
  /\ pc = "down" /\ pc' = "up"
  /\ required' = r
  /\ \/ r /\ disk # 0 /\ token' = disk /\ KeepCode
     \/ r /\ UNCHANGED token /\ DrawCode
     \/ ~r /\ UNCHANGED token /\ KeepCode
  /\ UNCHANGED <<failures, blocked, disk, tokens, guesses, forgotten>>

\* The process ends: only the file remains.
End ==
  /\ pc # "down" /\ pc' = "down"
  /\ required' = FALSE
  /\ code' = 0 /\ token' = 0 /\ failures' = 0 /\ blocked' = FALSE
  /\ guesses' = NoGuesses
  /\ UNCHANGED <<disk, drawn, forgotten>>

\* Five seconds pass.
Unblock ==
  /\ blocked /\ blocked' = FALSE
  /\ UNCHANGED <<pc, required, code, token, failures, disk, drawn, guesses, forgotten>>

\* Faulty: the code is blocked, not replaced.
FaultyFailedAttempt ==
  /\ IF failures + 1 >= MaxFailures
     THEN failures' = 0 /\ blocked' = TRUE
     ELSE failures' = failures + 1 /\ UNCHANGED blocked
  /\ KeepCode

\* FailedAttempt.
FailedAttempt ==
  IF failures + 1 >= MaxFailures
  THEN failures' = 0 /\ blocked' = TRUE /\ DrawCode
  ELSE failures' = failures + 1 /\ UNCHANGED blocked /\ KeepCode

-----------------------------------------------------------------------------
\* Authenticate with the right token, and not blocked.
AuthenticateGood ==
  /\ pc = "up" /\ required /\ ~blocked /\ token # 0
  /\ failures' = 0
  /\ UNCHANGED <<pc, required, code, token, blocked, disk, drawn, guesses, forgotten>>

\* Authenticate with a wrong token, while blocked or while unpaired.
AuthenticateBad ==
  /\ pc = "up" /\ required
  /\ FailedAttempt
  /\ UNCHANGED <<pc, required, token, disk, tokens, guesses, forgotten>>

\* Pair while blocked or paired, or with the right code for a device that has
\* no usable name.
PairRefused ==
  /\ pc = "up" /\ required
  /\ FailedAttempt
  /\ UNCHANGED <<pc, required, token, disk, tokens, guesses, forgotten>>

\* Pair with a wrong code: it is compared first, and counted then.
PairWrong ==
  /\ pc = "up" /\ required /\ ~blocked /\ token = 0
  /\ guesses' = [guesses EXCEPT ![code] = @ + 1]
  /\ FailedAttempt
  /\ UNCHANGED <<pc, required, token, disk, tokens, forgotten>>

\* Faulty: the code is cleared before the token is safe.
FaultyPair ==
  /\ pc = "up" /\ required /\ ~blocked /\ token = 0 /\ code # 0
  /\ tokens + 1 \in Tokens
  /\ token' = tokens + 1 /\ tokens' = tokens + 1 /\ pc' = "saving" /\ code' = 0
  /\ UNCHANGED <<required, failures, blocked, disk, codes, guesses, forgotten>>

\* Pair with the right code: a token is drawn and Save called.
Pair ==
  /\ pc = "up" /\ required /\ ~blocked /\ token = 0
  /\ tokens + 1 \in Tokens
  /\ token' = tokens + 1 /\ tokens' = tokens + 1 /\ pc' = "saving"
  /\ UNCHANGED <<required, code, failures, blocked, disk, codes, guesses, forgotten>>

\* Faulty: the result of Save is not looked at.
FaultySaveFails ==
  /\ pc = "saving" /\ pc' = "saved"
  /\ UNCHANGED <<required, code, token, failures, blocked, disk, drawn, guesses, forgotten>>

\* Save fails before its file has the name that counts.
SaveFails ==
  /\ pc = "saving" /\ pc' = "up"
  /\ token' = 0
  /\ UNCHANGED <<required, code, failures, blocked, disk, drawn, guesses, forgotten>>

\* MoveFileEx: the temporary file takes the place of the old one.
SaveMoves ==
  /\ pc = "saving" /\ pc' = "saved"
  /\ disk' = token
  /\ UNCHANGED <<required, code, token, failures, blocked, drawn, guesses, forgotten>>

\* Pair returns the token to the network thread.
Paired ==
  /\ pc = "saved" /\ pc' = "up"
  /\ code' = 0 /\ failures' = 0
  /\ UNCHANGED <<required, token, blocked, disk, drawn, guesses, forgotten>>

-----------------------------------------------------------------------------
\* Forget, first in memory.
Forget ==
  /\ pc = "up" /\ pc' = "deleting"
  /\ token' = 0 /\ failures' = 0 /\ blocked' = FALSE
  /\ DrawCode
  /\ UNCHANGED <<required, disk, tokens, guesses, forgotten>>

\* Forget, then the file, whether DeleteFile succeeds or not.
Delete ==
  /\ pc = "deleting" /\ pc' = "up"
  /\ disk' \in {0, disk}
  /\ forgotten' = forgotten \cup {t \in {disk} : t # 0}
  /\ UNCHANGED <<required, code, token, failures, blocked, drawn, guesses>>

Next ==
  \/ \E r \in BOOLEAN : Start(r)
  \/ End \/ Unblock
  \/ AuthenticateGood \/ AuthenticateBad
  \/ PairRefused \/ PairWrong \/ Pair \/ SaveFails \/ SaveMoves \/ Paired
  \/ Forget \/ Delete

Spec == Init /\ [][Next]_vars

-----------------------------------------------------------------------------
PairingTypeOK ==
  /\ pc \in {"down", "up", "saving", "saved", "deleting"}
  /\ required \in BOOLEAN /\ blocked \in BOOLEAN
  /\ code \in Nat /\ token \in Nat /\ disk \in Nat
  /\ codes \in Nat /\ tokens \in Nat /\ guesses \in [Codes -> Nat]
  /\ failures \in 0..(MaxFailures - 1)
  /\ forgotten \subseteq Nat

\* An unpaired bridge has a code: there is always a way to pair, and never an
\* empty code for a request without one to match; not after a Save that
\* failed, a Forget, or five failed attempts either.
UnpairedHasCode == pc = "up" /\ required /\ token = 0 => code # 0

\* The token a device is told, or is let in with, is the one in the file: the
\* device gets in after a restart, however the process ended.
TokenIsDurable == required /\ token # 0 /\ pc \in {"up", "saved"} => disk = token

\* However refusals, blocks, successes, failing Saves and restarts are mixed,
\* no code is ever compared with more than MaxFailures wrong ones: the last of
\* them is still compared with the old code, and replaces it.
GuessesAreBounded == \A c \in Codes : guesses[c] <= MaxFailures

\* "paired device forgotten and active session revoked" (WcsBridge.cpp): the
\* credential that was forgotten does not let anybody in.
ForgottenStaysForgotten == token \notin forgotten
=============================================================================
