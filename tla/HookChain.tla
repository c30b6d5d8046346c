----------------------------- MODULE HookChain -----------------------------
(***************************************************************************)
(* engine/hook/Hook.cpp: the detours installed on an address form a chain, *)
(* ordered by priority.  MinHook is given the first of them and sends the  *)
(* callers of the address to it; each detour finds the next in its         *)
(* "original", the last one finds the engine's function there.             *)
(*                                                                         *)
(* Two threads install and enable, without a lock.  A thread runs a script *)
(* of operations; the stores of Relink are steps of their own, between     *)
(* which a call may read the pointers.  An insertion into a chain's vector *)
(* is one step: what two insertions do to one vector is not modelled.      *)
(***************************************************************************)
EXTENDS Integers, Sequences

CONSTANTS Targets,     \* addresses of engine functions
          Detours,     \* detours that may be installed
          Target,      \* the address of each detour
          Priority,    \* its position in the chain
          Threads,     \* threads that install and enable
          Callers,     \* threads that call the addresses
          Unhookable   \* bound: addresses that MinHook may refuse

ASSUME HookAssumption ==
  /\ Target \in [Detours -> Targets]
  /\ Priority \in [Detours -> Int]
  /\ {"engine", "null", "none"} \cap Detours = {}

VARIABLES
  chains,      \* the chains, in the order they were created
  links,       \* the detours of each
  patched,     \* chains that MinHook has a hook for
  head,        \* the detour that MinHook was given
  armed,       \* addresses that jump to it
  original,    \* where each detour goes on
  stores,      \* stores that each thread's Relink has yet to make
  script,      \* operations that each thread has yet to run
  broken,      \* history: a MinHook call failed
  installs,    \* history: detours installed so far
  rank,        \* history: when each was installed, 0 for never
  calls        \* the call that each caller is in

hookvars == <<chains, links, patched, head, armed, original, stores, broken, installs, rank>>

Members(s) == {s[i] : i \in DOMAIN s}

\* A call on an address: where it stands, the detours it met, and those that
\* were linked when it began.
NoCall == [target |-> "none", at |-> "none", seen |-> <<>>, due |-> {}]

HookInit ==
  /\ chains = <<>> /\ links = [t \in Targets |-> <<>>]
  /\ patched = {} /\ head = [t \in Targets |-> "none"] /\ armed = {}
  /\ original = [d \in Detours |-> "null"]
  /\ stores = [h \in Threads |-> <<>>]
  /\ broken = FALSE /\ installs = 0 /\ rank = [d \in Detours |-> 0]

CallInit == calls = [c \in Callers |-> NoCall]

(***************************************************************************)
(* Operations                                                              *)
(***************************************************************************)
\* Faulty: the loop stops one detour early, the trampoline is given to all.
FaultyRelink(s, closed) ==
  [i \in 1..(IF closed THEN Len(s) ELSE Len(s) - 1) |->
     <<s[i], IF i >= Len(s) - 1 THEN "engine" ELSE s[i + 1]>>]

\* Relink: each detour at its successor, the last one at the engine function,
\* once there is a trampoline.
Relink(s, closed) ==
  [i \in 1..(IF closed THEN Len(s) ELSE Len(s) - 1) |->
     <<s[i], IF i = Len(s) THEN "engine" ELSE s[i + 1]>>]

\* Behind the last detour of lower or equal priority.
Place(s, d) ==
  {p \in 0..Len(s) : /\ p > 0 => Priority[s[p]] <= Priority[d]
                     /\ \A i \in (p + 1)..Len(s) : Priority[s[i]] > Priority[d]}

\* Taking the head of a live chain is refused.
Refused(d) == Target[d] \in patched /\ 0 \in Place(links[Target[d]], d)

Install(h, d) ==
  LET t == Target[d]
      s == links[t]
  IN \E p \in Place(s, d) :
       LET new == SubSeq(s, 1, p) \o <<d>> \o SubSeq(s, p + 1, Len(s)) IN
       /\ ~Refused(d)
       /\ links' = [links EXCEPT ![t] = new]
       /\ stores' = [stores EXCEPT ![h] = Relink(new, t \in patched)]
       /\ chains' = IF t \in Members(chains) THEN chains ELSE Append(chains, t)
       /\ installs' = installs + 1 /\ rank' = [rank EXCEPT ![d] = installs + 1]
       /\ UNCHANGED <<patched, head, armed, original, broken>>

\* A step of Relink: one aligned pointer is written.
Store(h) ==
  /\ stores[h] # <<>>
  /\ original' = [original EXCEPT ![Head(stores[h])[1]] = Head(stores[h])[2]]
  /\ stores' = [stores EXCEPT ![h] = Tail(@)]
  /\ UNCHANGED <<chains, links, patched, head, armed, broken, installs, rank, script, calls>>

\* Faulty: the tail is not closed on the trampoline.
FaultyPatch(h, t) ==
  \/ /\ t \notin patched
     /\ patched' = patched \cup {t} /\ head' = [head EXCEPT ![t] = Head(links[t])]
     /\ UNCHANGED <<chains, links, armed, original, stores, broken, installs, rank>>
  \/ t \in patched /\ UNCHANGED hookvars

\* Patch: MinHook is given the head; it may refuse, and the next EnableAll
\* tries again.
Patch(h, t) ==
  \/ /\ t \notin patched
     /\ patched' = patched \cup {t} /\ head' = [head EXCEPT ![t] = Head(links[t])]
     /\ stores' = [stores EXCEPT ![h] = Relink(links[t], TRUE)]
     /\ UNCHANGED <<chains, links, armed, original, broken, installs, rank>>
  \/ /\ t \in Unhookable \ patched /\ broken' = TRUE
     /\ UNCHANGED <<chains, links, patched, head, armed, original, stores, installs, rank>>
  \/ t \in patched /\ UNCHANGED hookvars

\* Faulty: every chain counts as armed, those that MinHook refused included.
FaultyArm ==
  /\ armed' = Members(chains)
  /\ UNCHANGED <<chains, links, patched, head, original, broken, stores, installs, rank>>

\* The end of EnableAll: every hook that MinHook has is armed, or the call
\* fails.
Arm ==
  /\ \/ armed' = patched /\ UNCHANGED broken
     \/ broken' = TRUE /\ UNCHANGED armed
  /\ UNCHANGED <<chains, links, patched, head, original, stores, installs, rank>>

(***************************************************************************)
(* Calls                                                                   *)
(***************************************************************************)
\* The detours that no thread is about to link.
Linked(t) == {d \in Members(links[t]) :
                \A h \in Threads : \A i \in DOMAIN stores[h] : stores[h][i][2] # d}

Enter(c, t) ==
  /\ calls[c] = NoCall
  /\ calls' = [calls EXCEPT ![c] =
       IF t \in armed THEN [target |-> t, at |-> head[t], seen |-> <<>>, due |-> Linked(t)]
       ELSE [NoCall EXCEPT !.target = t, !.at = "engine"]]

\* A detour calls its original.
Forward(c) ==
  /\ calls[c].at \in Detours
  /\ calls' = [calls EXCEPT ![c].seen = Append(@, calls[c].at),
                            ![c].at = original[calls[c].at]]

\* The engine's function returns, or a detour answers without it.
Return(c) ==
  /\ calls[c].at \in Detours \cup {"engine"}
  /\ calls' = [calls EXCEPT ![c] = NoCall]

Crashed == \E c \in Callers : calls[c].at = "null"

(***************************************************************************)
(* Properties                                                              *)
(***************************************************************************)
\* Types; a chain and the pointers of its detours stay on one address, and only
\* an address that MinHook has patched is armed.
HookTypeOK ==
  /\ chains \in Seq(Targets) /\ links \in [Targets -> Seq(Detours)]
  /\ armed \subseteq patched /\ patched \subseteq Targets
  /\ head \in [Targets -> Detours \cup {"none"}]
  /\ original \in [Detours -> Detours \cup {"engine", "null"}]
  /\ stores \in [Threads -> Seq(Detours \X (Detours \cup {"engine"}))]
  /\ broken \in BOOLEAN /\ installs \in Nat /\ rank \in [Detours -> Nat]
  /\ \A d \in Detours : original[d] \in Detours => Target[original[d]] = Target[d]
  /\ \A t \in Targets : \A i \in DOMAIN links[t] : Target[links[t][i]] = t

Before(d, e) ==
  Priority[d] < Priority[e] \/ (Priority[d] = Priority[e] /\ rank[d] < rank[e])

\* A call that comes to the engine's function met every detour that was linked
\* when it began, in the order of the chain, whichever pointers were stored
\* while it was under way (Hook.cpp:71).
NoOneIsSkipped ==
  \A c \in Callers : calls[c].at = "engine" =>
    /\ calls[c].due \subseteq Members(calls[c].seen)
    /\ \A i, j \in DOMAIN calls[c].seen : i < j => Before(calls[c].seen[i], calls[c].seen[j])

\* "A call in flight through a live chain reads either the old successor or the
\* new one" (Hook.cpp:73), with one exception: a detour that is linked to before
\* its own pointer is set, while Relink is under way, and only such a one, finds
\* nothing there.
OnlyUnlinkedCallsFail ==
  [][\A c \in Callers : calls'[c].at = "null" =>
       \E h \in Threads : \E i \in DOMAIN stores[h] :
         stores[h][i][1] \in {calls[c].at} \cup Members(calls[c].seen)]_<<calls, stores>>
=============================================================================
