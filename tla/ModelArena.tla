---------------------------- MODULE ModelArena ----------------------------
(***************************************************************************)
(* client/CM2Shared/Memory.cpp: one reserved span of addresses from which  *)
(* wxl-m2's threads take large model buffers.  The list of free ranges is  *)
(* kept under a mutex; pages are committed and decommitted outside it, so  *)
(* a range is neither free nor usable for a while.  Pages are the unit.    *)
(* The list is sorted by offset: here it is a set of ranges.               *)
(***************************************************************************)
EXTENDS Integers

CONSTANTS ArenaPages,    \* pages of the arena
          Requests,      \* pages a buffer may need; 0 when AlignUpU32 wraps
          Users          \* threads that allocate

ASSUME ArenaAssumption == ArenaPages \in Nat \ {0} /\ Requests \subseteq Nat

VARIABLES
  reserved,   \* g_m2ArenaBase is set
  free,       \* the free list
  held,       \* the range that each user has taken, and what it does with it
  committed   \* pages with memory behind them

arenavars == <<reserved, free, held, committed>>

ArenaRange(o, n) == [offset |-> o, size |-> n]
Pages(r) == r.offset..(r.offset + r.size - 1)
End(r) == r.offset + r.size

Idle == [at |-> "idle", range |-> ArenaRange(0, 0)]

ArenaInit ==
  /\ reserved = FALSE /\ free = {} /\ held = [u \in Users |-> Idle] /\ committed = {}

\* EnsureM2ArenaLocked, in the Boot phase and again by every allocation: the
\* arena may be disabled, or the address space too fragmented.
Ensured(list, can) == IF ~reserved /\ can THEN {ArenaRange(0, ArenaPages)} ELSE list

Reserve(can) ==
  /\ reserved' = (reserved \/ can) /\ free' = Ensured(free, can)
  /\ UNCHANGED <<held, committed>>

\* Faulty: the range before is merged, the one behind is not.
FaultyInserted(list, r) ==
  LET before == {x \in list : End(x) = r.offset}
      low == IF before = {} THEN r.offset ELSE (CHOOSE x \in before : TRUE).offset
  IN IF r.size = 0 THEN list ELSE (list \ before) \cup {ArenaRange(low, End(r) - low)}

\* InsertArenaFreeRangeLocked: the range goes back, merged with the one before
\* and the one behind.
Inserted(list, r) ==
  LET before == {x \in list : End(x) = r.offset}
      behind == {x \in list : End(r) = x.offset}
      low  == IF before = {} THEN r.offset ELSE (CHOOSE x \in before : TRUE).offset
      high == IF behind = {} THEN End(r) ELSE End(CHOOSE x \in behind : TRUE)
  IN IF r.size = 0 THEN list
     ELSE (list \ (before \cup behind)) \cup {ArenaRange(low, high - low)}

\* The first range that is large enough.
FirstFit(list, n) == {x \in list : /\ x.size >= n
                                   /\ \A y \in list : y.size >= n => x.offset <= y.offset}

\* ApiAlloc, under the mutex: the front of the first fit, or null.
Take(u, n) ==
  /\ held[u].at = "idle"
  /\ \E can \in BOOLEAN :
       LET list == Ensured(free, can) IN
       /\ reserved' = (reserved \/ can)
       /\ \/ FirstFit(list, n) = {} /\ free' = list /\ UNCHANGED held
          \/ \E x \in FirstFit(list, n) :
               /\ free' = (list \ {x}) \cup
                            (IF x.size = n THEN {} ELSE {ArenaRange(x.offset + n, x.size - n)})
               /\ held' = [held EXCEPT ![u] = [at |-> "commit", range |-> ArenaRange(x.offset, n)]]
  /\ UNCHANGED committed

\* ApiAlloc, outside the mutex: a range without pages cannot be committed, and
\* the system may be out of memory.
Commit(u) ==
  /\ held[u].at = "commit"
  /\ \/ /\ held[u].range.size > 0
        /\ held' = [held EXCEPT ![u].at = "use"]
        /\ committed' = committed \cup Pages(held[u].range)
     \/ held' = [held EXCEPT ![u].at = "insert"] /\ UNCHANGED committed
  /\ UNCHANGED <<reserved, free>>

\* Faulty: the range is put on the list first, its pages are returned later.
FaultyDecommit(u) ==
  /\ held[u].at = "use"
  /\ free' = Inserted(free, held[u].range)
  /\ held' = [held EXCEPT ![u].at = "late"]
  /\ UNCHANGED <<reserved, committed>>

\* ApiFree, outside the mutex.
Decommit(u) ==
  /\ held[u].at = "use"
  /\ held' = [held EXCEPT ![u].at = "insert"]
  /\ committed' = committed \ Pages(held[u].range)
  /\ UNCHANGED <<reserved, free>>

\* ApiFree, or an ApiAlloc that failed, under the mutex.
GiveBack(u) ==
  /\ held[u].at = "insert"
  /\ free' = Inserted(free, held[u].range)
  /\ held' = [held EXCEPT ![u] = Idle]
  /\ UNCHANGED <<reserved, committed>>

UserStep(u) == (\E n \in Requests : Take(u, n)) \/ Commit(u) \/ Decommit(u) \/ GiveBack(u)

(***************************************************************************)
(* Properties                                                              *)
(***************************************************************************)
\* The pages of the arena are each on the free list once or held by one user,
\* and none is lost; neighbours on the list are merged, so that everything
\* given back is one range again (Memory.cpp:154).
ArenaIsPartitioned ==
  LET whole == IF reserved THEN 0..(ArenaPages - 1) ELSE {}
      taken == {u \in Users : held[u].at # "idle"}
  IN /\ \A r \in free : r.size > 0
     /\ \A r, x \in free : r # x => Pages(r) \cap Pages(x) = {} /\ End(r) # x.offset
     /\ \A u \in taken : \A r \in free : Pages(held[u].range) \cap Pages(r) = {}
     /\ \A u, v \in taken : u # v => Pages(held[u].range) \cap Pages(held[v].range) = {}
     /\ whole = UNION ({Pages(r) : r \in free} \cup {Pages(held[u].range) : u \in taken})

\* A buffer in use has all its pages, although another user decommits outside
\* the mutex, and no page of a free range has memory behind it.
BuffersAreCommitted ==
  /\ \A u \in Users : held[u].at = "use" => Pages(held[u].range) \subseteq committed
  /\ \A r \in free : Pages(r) \cap committed = {}
=============================================================================
