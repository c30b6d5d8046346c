---------------------------- MODULE RuntimeProofs ----------------------------
(***************************************************************************)
(* Runtime for every set of hooks, extensions, files, threads and sizes:   *)
(* the arena, the handles that OpenDetour gives back, and Streaming.       *)
(* HookChainProofs has the hooks.                                          *)
(***************************************************************************)
EXTENDS Runtime, TLAPS, FiniteSetTheorems, SequenceTheorems

(***************************************************************************)
(* The arena for every size, every set of requests and every set of users: *)
(* what a step of the allocator keeps.  Ranges are compared by their ends; *)
(* that their pages are then disjoint is shown last.                       *)
(***************************************************************************)
Ranges == [offset : Nat, size : Nat]
Holdings == [at : {"idle", "commit", "use", "insert"}, range : Ranges]

In(p, r) == r.offset <= p /\ p < r.offset + r.size

\* Two ranges share no page; an empty one may lie anywhere.
Apart(r, x) ==
  r.size = 0 \/ x.size = 0 \/ r.offset + r.size <= x.offset \/ x.offset + x.size <= r.offset

Tidy(list) ==
  /\ list \subseteq Ranges
  /\ \A r \in list : r.size > 0
  /\ \A r, x \in list : r # x => Apart(r, x) /\ r.offset + r.size # x.offset

(***************************************************************************)
(* The list                                                                *)
(***************************************************************************)
\* At most one range ends where another begins, and at most one begins where
\* another ends.
LEMMA OneNeighbour ==
  ASSUME NEW list, Tidy(list), NEW x \in list, NEW y \in list,
         x.offset = y.offset \/ x.offset + x.size = y.offset + y.size
  PROVE  x = y
BY DEF Tidy, Ranges, Apart

\* What InsertArenaFreeRangeLocked makes of a range that is not empty: one that
\* stands for it, the neighbour before and the neighbour behind.
LEMMA Merged ==
  ASSUME NEW list, Tidy(list), NEW r \in Ranges, r.size > 0, \A x \in list : Apart(x, r)
  PROVE  \E m \in Ranges :
           /\ m.size > 0
           /\ Inserted(list, r) =
                {x \in list : ~(x.offset + x.size = r.offset) /\ ~(r.offset + r.size = x.offset)} \cup {m}
           /\ m.offset <= r.offset /\ r.offset + r.size <= m.offset + m.size
           /\ m.offset = r.offset \/ \E x \in list : x.offset = m.offset /\ x.offset + x.size = r.offset
           /\ \/ m.offset + m.size = r.offset + r.size
              \/ \E x \in list : x.offset = r.offset + r.size /\ x.offset + x.size = m.offset + m.size
           /\ \A x \in list : x.offset + x.size = r.offset => m.offset = x.offset
           /\ \A x \in list : r.offset + r.size = x.offset => m.offset + m.size = x.offset + x.size
<1> DEFINE before == {x \in list : End(x) = r.offset}
           behind == {x \in list : End(r) = x.offset}
           low  == IF before = {} THEN r.offset ELSE (CHOOSE x \in before : TRUE).offset
           high == IF behind = {} THEN End(r) ELSE End(CHOOSE x \in behind : TRUE)
           m == ArenaRange(low, high - low)
<1> USE DEF End
<1>1. low \in Nat /\ low <= r.offset
      /\ (low = r.offset \/ \E x \in list : x.offset = low /\ x.offset + x.size = r.offset)
      /\ \A x \in list : x.offset + x.size = r.offset => low = x.offset
  <2>1. CASE before = {}
    BY <2>1 DEF Ranges
  <2>2. CASE before # {}
    <3>1. PICK b \in before : b = CHOOSE x \in before : TRUE
      BY <2>2
    <3>2. low = b.offset /\ b \in list /\ b.offset + b.size = r.offset
      BY <2>2, <3>1
    <3>3. \A x \in list : x.offset + x.size = r.offset => x = b
      BY <3>2, OneNeighbour
    <3> HIDE DEF low
    <3> QED
      BY <3>2, <3>3 DEF Tidy, Ranges
  <2> QED
    BY <2>1, <2>2
<1>2. high \in Nat /\ r.offset + r.size <= high
      /\ (high = r.offset + r.size \/ \E x \in list : x.offset = r.offset + r.size /\ x.offset + x.size = high)
      /\ \A x \in list : r.offset + r.size = x.offset => high = x.offset + x.size
  <2>1. CASE behind = {}
    BY <2>1 DEF Ranges
  <2>2. CASE behind # {}
    <3>1. PICK b \in behind : b = CHOOSE x \in behind : TRUE
      BY <2>2
    <3>2. high = b.offset + b.size /\ b \in list /\ b.offset = r.offset + r.size
      BY <2>2, <3>1
    <3>3. \A x \in list : r.offset + r.size = x.offset => x = b
      BY <3>2, OneNeighbour
    <3> HIDE DEF high
    <3> QED
      BY <3>2, <3>3 DEF Tidy, Ranges
  <2> QED
    BY <2>1, <2>2
<1>3. Inserted(list, r) = (list \ (before \cup behind)) \cup {m}
  BY DEF Inserted, Ranges
<1>4. list \ (before \cup behind) =
        {x \in list : ~(x.offset + x.size = r.offset) /\ ~(r.offset + r.size = x.offset)}
  OBVIOUS
<1> HIDE DEF low, high, before, behind
<1>5. m \in Ranges /\ m.offset = low /\ m.offset + m.size = high /\ m.size > 0
  BY <1>1, <1>2 DEF ArenaRange, Ranges
<1> HIDE DEF m
<1>6. m.offset <= r.offset /\ r.offset + r.size <= m.offset + m.size
  BY <1>1, <1>2, <1>5
<1> QED
  BY <1>1, <1>2, <1>3, <1>4, <1>5, <1>6

\* The list stays tidy, covers what it did and the range, and stays apart from
\* whatever was apart from both.
LEMMA InsertedIsTidy ==
  ASSUME NEW list, Tidy(list), NEW r \in Ranges, \A x \in list : Apart(x, r)
  PROVE  /\ Tidy(Inserted(list, r))
         /\ \A p \in Int : (\E x \in Inserted(list, r) : In(p, x)) <=> (\E x \in list : In(p, x)) \/ In(p, r)
         /\ \A q \in Ranges : Apart(q, r) /\ (\A x \in list : Apart(q, x)) =>
                               \A x \in Inserted(list, r) : Apart(q, x)
<1>1. CASE r.size = 0
  BY <1>1 DEF Inserted, In, Ranges
<1>2. CASE r.size > 0
  <2>1. PICK m \in Ranges :
           /\ m.size > 0
           /\ Inserted(list, r) =
                {x \in list : ~(x.offset + x.size = r.offset) /\ ~(r.offset + r.size = x.offset)} \cup {m}
           /\ m.offset <= r.offset /\ r.offset + r.size <= m.offset + m.size
           /\ m.offset = r.offset \/ \E x \in list : x.offset = m.offset /\ x.offset + x.size = r.offset
           /\ \/ m.offset + m.size = r.offset + r.size
              \/ \E x \in list : x.offset = r.offset + r.size /\ x.offset + x.size = m.offset + m.size
           /\ \A x \in list : x.offset + x.size = r.offset => m.offset = x.offset
           /\ \A x \in list : r.offset + r.size = x.offset => m.offset + m.size = x.offset + x.size
    BY <1>2, Merged
  <2> DEFINE rest == {x \in list : ~(x.offset + x.size = r.offset) /\ ~(r.offset + r.size = x.offset)}
  <2>2. \A x \in rest : Apart(x, m) /\ x.offset + x.size # m.offset /\ m.offset + m.size # x.offset
    <3> SUFFICES ASSUME NEW x \in rest
                 PROVE  Apart(x, m) /\ x.offset + x.size # m.offset /\ m.offset + m.size # x.offset
      OBVIOUS
    <3>1. x \in Ranges /\ x.size > 0 /\ Apart(x, r) /\ x.offset + x.size # r.offset /\ r.offset + r.size # x.offset
      BY DEF Tidy
    <3>2. CASE x.offset + x.size <= r.offset
      <4>1. CASE m.offset = r.offset
        BY <1>2, <2>1, <3>1, <3>2, <4>1 DEF Apart, Ranges
      <4>2. ASSUME NEW b \in list, b.offset = m.offset, b.offset + b.size = r.offset
            PROVE  Apart(x, m) /\ x.offset + x.size # m.offset /\ m.offset + m.size # x.offset
        <5>1. b # x /\ b \in Ranges /\ b.size > 0
          BY <3>1, <4>2 DEF Tidy
        <5>2. Apart(x, b) /\ x.offset + x.size # b.offset
          BY <5>1 DEF Tidy
        <5> QED
          BY <1>2, <2>1, <3>1, <3>2, <4>2, <5>1, <5>2 DEF Apart, Ranges
      <4> QED
        BY <2>1, <4>1, <4>2
    <3>3. CASE r.offset + r.size <= x.offset
      <4>1. CASE m.offset + m.size = r.offset + r.size
        BY <1>2, <2>1, <3>1, <3>3, <4>1 DEF Apart, Ranges
      <4>2. ASSUME NEW b \in list, b.offset = r.offset + r.size, b.offset + b.size = m.offset + m.size
            PROVE  Apart(x, m) /\ x.offset + x.size # m.offset /\ m.offset + m.size # x.offset
        <5>1. b # x /\ b \in Ranges /\ b.size > 0
          BY <3>1, <4>2 DEF Tidy
        <5>2. Apart(x, b) /\ b.offset + b.size # x.offset
          BY <5>1 DEF Tidy
        <5> QED
          BY <1>2, <2>1, <3>1, <3>3, <4>2, <5>1, <5>2 DEF Apart, Ranges
      <4> QED
        BY <2>1, <4>1, <4>2
    <3> QED
      BY <1>2, <3>1, <3>2, <3>3 DEF Apart
  <2>3. Tidy(Inserted(list, r))
    BY <2>1, <2>2 DEF Tidy, Apart
  <2>4. ASSUME NEW p \in Int
        PROVE  (\E x \in Inserted(list, r) : In(p, x)) <=> (\E x \in list : In(p, x)) \/ In(p, r)
    <3>1. ASSUME In(p, m) PROVE (\E x \in list : In(p, x)) \/ In(p, r)
      BY <2>1, <3>1 DEF In, Ranges, Tidy
    <3>2. In(p, r) => In(p, m)
      BY <2>1 DEF In, Ranges
    <3>3. ASSUME NEW x \in list, In(p, x) PROVE \E y \in Inserted(list, r) : In(p, y)
      BY <2>1, <3>3 DEF In, Ranges, Tidy
    <3>4. \A x \in Inserted(list, r) : x = m \/ x \in list
      BY <2>1
    <3>5. m \in Inserted(list, r)
      BY <2>1
    <3> QED
      BY <3>1, <3>2, <3>3, <3>4, <3>5
  <2>5. ASSUME NEW q \in Ranges, Apart(q, r), \A x \in list : Apart(q, x) PROVE Apart(q, m)
    BY <1>2, <2>1, <2>5 DEF Apart, Ranges, Tidy
  <2> QED
    BY <2>1, <2>3, <2>4, <2>5
<1> QED
  BY <1>1, <1>2 DEF Ranges

(***************************************************************************)
(* The invariant: who holds what, and which pages have memory              *)
(***************************************************************************)
Taken(h) == {u \in Users : h[u].at # "idle"}

\* Nothing overlaps, and everything together is the arena.
Sound(res, list, h) ==
  /\ Tidy(list) /\ h \in [Users -> Holdings]
  /\ ~res => list = {} /\ Taken(h) = {}
  /\ \A u \in Taken(h) : \A r \in list : Apart(h[u].range, r)
  /\ \A u, v \in Taken(h) : u # v => Apart(h[u].range, h[v].range)
  /\ \A p \in Int : (res /\ 0 <= p /\ p < ArenaPages) <=>
       (\E r \in list : In(p, r)) \/ (\E u \in Taken(h) : In(p, h[u].range))

\* Memory stands behind the buffers in use and behind nothing else.
Backed(list, h, c) ==
  \A p \in Int :
    /\ \A u \in Users : /\ h[u].at = "use" /\ In(p, h[u].range) => p \in c
                        /\ h[u].at \in {"commit", "insert"} /\ In(p, h[u].range) => p \notin c
    /\ \A r \in list : In(p, r) => p \notin c

ArenaInv ==
  /\ Sound(reserved, free, held) /\ Backed(free, held, committed)
  /\ ~reserved => committed = {}

LEMMA PagesOf == \A r \in Ranges : \A p : p \in Pages(r) <=> p \in Int /\ In(p, r)
BY DEF Pages, In, Ranges

LEMMA ApartMeansDisjoint ==
  ASSUME NEW r \in Ranges, NEW x \in Ranges
  PROVE  Apart(r, x) => \A p \in Int : ~(In(p, r) /\ In(p, x))
BY DEF Apart, In, Ranges

LEMMA ArenaStarts == ArenaInit => ArenaInv
<1> SUFFICES ASSUME ArenaInit PROVE ArenaInv
  OBVIOUS
<1>1. Idle \in Holdings /\ Idle.at = "idle"
  BY DEF Idle, Holdings, Ranges, ArenaRange
<1>2. held \in [Users -> Holdings] /\ \A u \in Users : held[u].at = "idle"
  BY <1>1 DEF ArenaInit
<1>3. free = {} /\ reserved = FALSE /\ committed = {}
  BY DEF ArenaInit
<1>4. Sound(reserved, free, held)
  BY <1>2, <1>3 DEF Sound, Taken, Tidy
<1>5. Backed(free, held, committed)
  BY <1>2, <1>3 DEF Backed
<1> QED
  BY <1>3, <1>4, <1>5 DEF ArenaInv

\* EnsureM2ArenaLocked adds one range that is the whole arena, or nothing.
LEMMA EnsuredIsSound ==
  ASSUME ArenaInv, NEW can \in BOOLEAN
  PROVE  Sound(reserved \/ can, Ensured(free, can), held) /\ Backed(Ensured(free, can), held, committed)
<1>1. CASE ~reserved /\ can
  <2> DEFINE w == ArenaRange(0, ArenaPages)
  <2>1. Ensured(free, can) = {w}
    BY <1>1 DEF Ensured
  <2>2. w \in Ranges /\ w.offset = 0 /\ w.size = ArenaPages /\ w.size > 0
    BY ArenaAssumption DEF ArenaRange, Ranges
  <2> HIDE DEF w
  <2>3. Taken(held) = {} /\ committed = {} /\ held \in [Users -> Holdings]
    BY <1>1 DEF ArenaInv, Sound
  <2>4. Tidy({w})
    BY <2>2 DEF Tidy
  <2>5. \A p \in Int : (0 <= p /\ p < ArenaPages) <=> In(p, w)
    BY <2>2, ArenaAssumption DEF In
  <2>6. Sound(TRUE, {w}, held)
    BY <2>3, <2>4, <2>5 DEF Sound
  <2>7. Backed({w}, held, committed)
    BY <2>3, <2>4 DEF Backed, Taken
  <2> QED
    BY <1>1, <2>1, <2>6, <2>7
<1>2. CASE ~(~reserved /\ can)
  <2>1. Ensured(free, can) = free
    BY <1>2 DEF Ensured
  <2>2. reserved \/ can => reserved
    BY <1>2
  <2> QED
    BY <2>1, <2>2 DEF ArenaInv, Sound
<1> QED
  BY <1>1, <1>2

\* The Boot phase reserves the arena.
LEMMA ReserveKeeps ==
  ASSUME ArenaInv, NEW can \in BOOLEAN, Reserve(can)
  PROVE  ArenaInv'
<1>1. free' = Ensured(free, can) /\ held' = held /\ committed' = committed /\ reserved' = (reserved \/ can)
  BY DEF Reserve
<1>2. Sound(reserved', free', held') /\ Backed(free', held', committed')
  BY <1>1, EnsuredIsSound
<1>3. ~reserved' => committed' = {}
  BY <1>1 DEF ArenaInv
<1>4. Sound(reserved, free, held)' <=> Sound(reserved', free', held')
  BY DEF Sound, Taken
<1>5. Backed(free, held, committed)' <=> Backed(free', held', committed')
  BY DEF Backed
<1> QED
  BY <1>2, <1>3, <1>4, <1>5 DEF ArenaInv

\* The front of a free range goes to a user, the rest of it stays.
LEMMA SplitIsTidy ==
  ASSUME NEW list, Tidy(list), NEW x \in list, NEW n \in Nat, n <= x.size,
         NEW kept, kept = (list \ {x}) \cup
                            (IF x.size = n THEN {} ELSE {ArenaRange(x.offset + n, x.size - n)})
  PROVE  /\ Tidy(kept)
         /\ \A r \in kept : Apart(ArenaRange(x.offset, n), r)
         /\ \A q \in Ranges : Apart(q, x) => Apart(q, ArenaRange(x.offset, n))
         /\ \A q \in Ranges : (\A y \in list : Apart(q, y)) => \A y \in kept : Apart(q, y)
         /\ \A p \in Int : In(p, x) => In(p, ArenaRange(x.offset, n)) \/ \E y \in kept : In(p, y)
         /\ \A p \in Int : \A y \in list \ {x} : In(p, y) => \E z \in kept : In(p, z)
         /\ \A p \in Int : In(p, ArenaRange(x.offset, n)) => In(p, x)
         /\ \A p \in Int : \A y \in kept : In(p, y) => \E z \in list : In(p, z)
<1> DEFINE front == ArenaRange(x.offset, n)
           rest == ArenaRange(x.offset + n, x.size - n)
<1>1. x \in Ranges /\ x.size > 0
  BY DEF Tidy
<1>2. front \in Ranges /\ front.offset = x.offset /\ front.size = n
  BY <1>1 DEF ArenaRange, Ranges
<1>3. rest \in [offset : Nat, size : Int] /\ rest.offset = x.offset + n /\ rest.size = x.size - n
  BY <1>1 DEF ArenaRange, Ranges
<1> HIDE DEF front, rest
<1>4. x.size # n => rest \in Ranges /\ rest.size > 0
  BY <1>1, <1>3 DEF Ranges
<1>5. ASSUME NEW y \in list, y # x
      PROVE  /\ y \in Ranges /\ y.size > 0 /\ Apart(y, x) /\ Apart(y, front)
             /\ x.size # n => /\ Apart(y, rest) /\ Apart(rest, y)
                              /\ y.offset + y.size # rest.offset /\ rest.offset + rest.size # y.offset
  <2>1. y \in Ranges /\ y.size > 0 /\ Apart(y, x) /\ y.offset + y.size # x.offset /\ x.offset + x.size # y.offset
    BY <1>5 DEF Tidy
  <2> QED
    BY <1>1, <1>2, <1>3, <1>4, <2>1 DEF Apart, Ranges
<1>6. \A y \in kept : (y \in list /\ y # x) \/ (y = rest /\ x.size # n)
  BY DEF rest
<1>7. (\A y \in list : y # x => y \in kept) /\ (x.size # n => rest \in kept)
  BY DEF rest
<1>8. Tidy(kept)
  <2>1. ASSUME NEW y \in kept, NEW z \in kept, y # z PROVE Apart(y, z) /\ y.offset + y.size # z.offset
    BY <1>5, <1>6, <2>1 DEF Tidy
  <2> QED
    BY <1>4, <1>5, <1>6, <2>1 DEF Tidy
<1>9. \A r \in kept : Apart(front, r)
  BY <1>1, <1>2, <1>3, <1>4, <1>5, <1>6 DEF Apart, Ranges
<1>10. \A q \in Ranges : Apart(q, x) => Apart(q, front) /\ (x.size # n => Apart(q, rest))
  BY <1>1, <1>2, <1>3 DEF Apart, Ranges
<1>11. \A p \in Int : In(p, x) <=> In(p, front) \/ (x.size # n /\ In(p, rest))
  BY <1>1, <1>2, <1>3 DEF In, Ranges
<1>12. \A q \in Ranges : (\A y \in list : Apart(q, y)) => \A y \in kept : Apart(q, y)
  BY <1>6, <1>10
<1> QED
  BY <1>6, <1>7, <1>8, <1>9, <1>10, <1>11, <1>12 DEF front

LEMMA TakeIsSound ==
  ASSUME NEW list, Sound(reserved', list, held), Backed(list, held, committed),
         NEW u \in Users, held[u].at = "idle", NEW x \in list, NEW n \in Nat, n <= x.size,
         free' = (list \ {x}) \cup (IF x.size = n THEN {} ELSE {ArenaRange(x.offset + n, x.size - n)}),
         held' = [held EXCEPT ![u] = [at |-> "commit", range |-> ArenaRange(x.offset, n)]]
  PROVE  Sound(reserved', free', held') /\ Backed(free', held', committed)
<1> DEFINE front == ArenaRange(x.offset, n)
<1>1. Tidy(list) /\ x \in Ranges
  BY DEF Sound, Tidy
<1>2. front \in Ranges
  BY <1>1 DEF ArenaRange, Ranges
<1>3. /\ held' \in [Users -> Holdings] /\ held'[u].at = "commit" /\ held'[u].range = front
      /\ \A v \in Users : v # u => held'[v] = held[v]
  BY <1>2 DEF Sound, Holdings
<1>4. Taken(held') = Taken(held) \cup {u} /\ u \notin Taken(held)
  BY <1>3 DEF Taken
<1>5. /\ Tidy(free') /\ \A r \in free' : Apart(front, r)
      /\ \A q \in Ranges : Apart(q, x) => Apart(q, front)
      /\ \A q \in Ranges : (\A y \in list : Apart(q, y)) => \A y \in free' : Apart(q, y)
      /\ \A p \in Int : In(p, x) => In(p, front) \/ \E y \in free' : In(p, y)
      /\ \A p \in Int : \A y \in list \ {x} : In(p, y) => \E z \in free' : In(p, z)
      /\ \A p \in Int : In(p, front) => In(p, x)
      /\ \A p \in Int : \A y \in free' : In(p, y) => \E z \in list : In(p, z)
  <2>1. PICK kept : kept = free'
    OBVIOUS
  <2>2. /\ Tidy(kept) /\ \A r \in kept : Apart(front, r)
        /\ \A q \in Ranges : Apart(q, x) => Apart(q, front)
        /\ \A q \in Ranges : (\A y \in list : Apart(q, y)) => \A y \in kept : Apart(q, y)
        /\ \A p \in Int : In(p, x) => In(p, front) \/ \E y \in kept : In(p, y)
        /\ \A p \in Int : \A y \in list \ {x} : In(p, y) => \E z \in kept : In(p, z)
        /\ \A p \in Int : In(p, front) => In(p, x)
        /\ \A p \in Int : \A y \in kept : In(p, y) => \E z \in list : In(p, z)
    BY <1>1, <2>1, SplitIsTidy
  <2> QED
    BY <2>1, <2>2
<1> HIDE DEF front
<1>6. \A v \in Taken(held) : held[v].range \in Ranges /\ held'[v] = held[v]
  BY <1>3, <1>4 DEF Taken, Sound, Holdings
<1>7. \A v \in Taken(held') : \A r \in free' : Apart(held'[v].range, r)
  BY <1>3, <1>4, <1>5, <1>6 DEF Sound
<1>8. \A v, w \in Taken(held') : v # w => Apart(held'[v].range, held'[w].range)
  <2>1. \A v \in Taken(held) : Apart(held[v].range, front) /\ Apart(front, held[v].range)
    BY <1>2, <1>5, <1>6 DEF Sound, Apart
  <2> QED
    BY <1>3, <1>4, <1>6, <2>1 DEF Sound
<1>9. ASSUME NEW p \in Int
      PROVE  ((\E r \in list : In(p, r)) \/ (\E v \in Taken(held) : In(p, held[v].range))) <=>
             ((\E r \in free' : In(p, r)) \/ (\E v \in Taken(held') : In(p, held'[v].range)))
  <2>1. (\E r \in list : In(p, r)) <=> (\E r \in free' : In(p, r)) \/ In(p, front)
    BY <1>5
  <2>2. (\E v \in Taken(held') : In(p, held'[v].range)) <=> (\E v \in Taken(held) : In(p, held[v].range)) \/ In(p, front)
    BY <1>3, <1>4, <1>6
  <2> QED
    BY <2>1, <2>2
<1>10. reserved'
  BY DEF Sound
<1>11. Sound(reserved', free', held')
  BY <1>3, <1>5, <1>7, <1>8, <1>9, <1>10 DEF Sound
<1>12. Backed(free', held', committed)
  BY <1>3, <1>5 DEF Backed
<1> QED
  BY <1>11, <1>12

(***************************************************************************)
(* The users' steps                                                        *)
(***************************************************************************)
\* The invariant of the next state, with its parameters primed one by one.
LEMMA NextArena ==
  ArenaInv' <=> /\ Sound(reserved', free', held') /\ Backed(free', held', committed')
                /\ ~reserved' => committed' = {}
BY DEF ArenaInv, Sound, Backed, Taken

LEMMA TakeKeeps ==
  ASSUME ArenaInv, NEW u \in Users, NEW n \in Requests, Take(u, n)
  PROVE  ArenaInv'
<1>1. n \in Nat
  BY ArenaAssumption
<1>2. PICK can \in BOOLEAN :
        LET list == Ensured(free, can) IN
        /\ reserved' = (reserved \/ can)
        /\ \/ FirstFit(list, n) = {} /\ free' = list /\ UNCHANGED held
           \/ \E x \in FirstFit(list, n) :
                /\ free' = (list \ {x}) \cup
                             (IF x.size = n THEN {} ELSE {ArenaRange(x.offset + n, x.size - n)})
                /\ held' = [held EXCEPT ![u] = [at |-> "commit", range |-> ArenaRange(x.offset, n)]]
  BY DEF Take
<1> DEFINE list == Ensured(free, can)
<1>3. Sound(reserved', list, held) /\ Backed(list, held, committed)
  BY <1>2, EnsuredIsSound
<1>4. committed' = committed /\ held[u].at = "idle"
  BY DEF Take
<1>5. ~reserved' => committed' = {}
  BY <1>2, <1>4 DEF ArenaInv
<1> HIDE DEF list
<1>6. CASE free' = list /\ UNCHANGED held
  BY <1>3, <1>4, <1>5, <1>6, NextArena
<1>7. ASSUME NEW x \in FirstFit(list, n),
             free' = (list \ {x}) \cup (IF x.size = n THEN {} ELSE {ArenaRange(x.offset + n, x.size - n)}),
             held' = [held EXCEPT ![u] = [at |-> "commit", range |-> ArenaRange(x.offset, n)]]
      PROVE  ArenaInv'
  <2>1. x \in list /\ n <= x.size
    BY <1>1, <1>3 DEF FirstFit, Sound, Tidy, Ranges
  <2>2. Sound(reserved', free', held') /\ Backed(free', held', committed)
    BY <1>1, <1>3, <1>4, <1>7, <2>1, TakeIsSound
  <2> QED
    BY <1>4, <1>5, <2>2, NextArena
<1> QED
  BY <1>2, <1>6, <1>7 DEF list

\* A user that holds a range goes on with it.
LEMMA HoldingOn ==
  ASSUME Sound(reserved, free, held), NEW u \in Users, held[u].at # "idle",
         NEW next \in {"commit", "use", "insert"}, held' = [held EXCEPT ![u].at = next]
  PROVE  /\ Sound(reserved, free, held')
         /\ held'[u].at = next /\ held'[u].range = held[u].range
         /\ \A v \in Users : v # u => held'[v] = held[v]
<1>1. /\ held' \in [Users -> Holdings] /\ held'[u].at = next /\ held'[u].range = held[u].range
      /\ \A v \in Users : v # u => held'[v] = held[v]
  BY DEF Sound, Holdings
<1>2. Taken(held') = Taken(held) /\ \A v \in Users : held'[v].range = held[v].range
  BY <1>1 DEF Taken
<1> QED
  BY <1>1, <1>2 DEF Sound, Taken

LEMMA CommitKeeps ==
  ASSUME ArenaInv, NEW u \in Users, Commit(u)
  PROVE  ArenaInv'
<1>1. Sound(reserved, free, held) /\ held[u].at = "commit" /\ reserved' = reserved /\ free' = free
  BY DEF ArenaInv, Commit
<1>2. held[u].range \in Ranges /\ u \in Taken(held)
  BY <1>1 DEF Sound, Holdings, Taken
<1>3. ~reserved' => FALSE
  BY <1>1, <1>2 DEF Sound
<1>4. CASE held' = [held EXCEPT ![u].at = "use"] /\ committed' = committed \cup Pages(held[u].range)
  <2>1. /\ Sound(reserved, free, held') /\ held'[u].at = "use" /\ held'[u].range = held[u].range
        /\ \A v \in Users : v # u => held'[v] = held[v]
    BY <1>1, <1>4, HoldingOn
  <2>2. \A p \in Int : p \in committed' <=> p \in committed \/ In(p, held[u].range)
    BY <1>2, <1>4, PagesOf
  <2>3. \A p \in Int : \A r \in free : In(p, held[u].range) => ~In(p, r)
    BY <1>1, <1>2, ApartMeansDisjoint DEF Sound, Tidy
  <2>4. \A p \in Int : \A v \in Users :
          v # u /\ held[v].at # "idle" /\ In(p, held[u].range) => ~In(p, held[v].range)
    BY <1>1, <1>2, ApartMeansDisjoint DEF Sound, Taken, Holdings
  <2>5. Backed(free', held', committed')
    BY <1>1, <2>1, <2>2, <2>3, <2>4 DEF ArenaInv, Backed
  <2> QED
    BY <1>1, <1>3, <2>1, <2>5, NextArena
<1>5. CASE held' = [held EXCEPT ![u].at = "insert"] /\ UNCHANGED committed
  <2>1. /\ Sound(reserved, free, held') /\ held'[u].at = "insert" /\ held'[u].range = held[u].range
        /\ \A v \in Users : v # u => held'[v] = held[v]
    BY <1>1, <1>5, HoldingOn
  <2>2. Backed(free', held', committed')
    BY <1>1, <1>5, <2>1 DEF ArenaInv, Backed
  <2> QED
    BY <1>1, <1>3, <2>1, <2>2, NextArena
<1> QED
  BY <1>4, <1>5 DEF Commit

LEMMA DecommitKeeps ==
  ASSUME ArenaInv, NEW u \in Users, Decommit(u)
  PROVE  ArenaInv'
<1>1. /\ Sound(reserved, free, held) /\ held[u].at = "use" /\ reserved' = reserved /\ free' = free
      /\ held' = [held EXCEPT ![u].at = "insert"] /\ committed' = committed \ Pages(held[u].range)
  BY DEF ArenaInv, Decommit
<1>2. held[u].range \in Ranges /\ u \in Taken(held)
  BY <1>1 DEF Sound, Holdings, Taken
<1>3. ~reserved' => FALSE
  BY <1>1, <1>2 DEF Sound
<1>4. /\ Sound(reserved, free, held') /\ held'[u].at = "insert" /\ held'[u].range = held[u].range
      /\ \A v \in Users : v # u => held'[v] = held[v]
  BY <1>1, HoldingOn
<1>5. \A p \in Int : p \in committed' <=> p \in committed /\ ~In(p, held[u].range)
  BY <1>1, <1>2, PagesOf
<1>6. \A p \in Int : \A v \in Users :
        v # u /\ held[v].at # "idle" /\ In(p, held[u].range) => ~In(p, held[v].range)
  BY <1>1, <1>2, ApartMeansDisjoint DEF Sound, Taken, Holdings
<1>7. Backed(free', held', committed')
  BY <1>1, <1>4, <1>5, <1>6 DEF ArenaInv, Backed
<1> QED
  BY <1>1, <1>3, <1>4, <1>7, NextArena

LEMMA GiveBackKeeps ==
  ASSUME ArenaInv, NEW u \in Users, GiveBack(u)
  PROVE  ArenaInv'
<1> DEFINE r == held[u].range
<1>1. /\ Sound(reserved, free, held) /\ held[u].at = "insert" /\ reserved' = reserved
      /\ committed' = committed /\ held' = [held EXCEPT ![u] = Idle] /\ free' = Inserted(free, r)
  BY DEF ArenaInv, GiveBack
<1>2. r \in Ranges /\ u \in Taken(held) /\ Tidy(free)
  BY <1>1 DEF Sound, Holdings, Taken
<1>3. \A x \in free : Apart(x, r)
  BY <1>1, <1>2 DEF Sound, Apart
<1>4. Idle \in Holdings /\ Idle.at = "idle"
  BY DEF Idle, Holdings, Ranges, ArenaRange
<1>5. /\ held' \in [Users -> Holdings] /\ held'[u].at = "idle"
      /\ \A v \in Users : v # u => held'[v] = held[v]
  BY <1>1, <1>4 DEF Sound
<1>6. Taken(held') = Taken(held) \ {u}
  BY <1>5 DEF Taken
<1> HIDE DEF r
<1>7. /\ Tidy(free')
      /\ \A p \in Int : (\E x \in free' : In(p, x)) <=> (\E x \in free : In(p, x)) \/ In(p, r)
      /\ \A q \in Ranges : Apart(q, r) /\ (\A x \in free : Apart(q, x)) => \A x \in free' : Apart(q, x)
  BY <1>1, <1>2, <1>3, InsertedIsTidy
<1>8. reserved
  BY <1>1, <1>2 DEF Sound
<1>9. \A v \in Taken(held') : \A x \in free' : Apart(held'[v].range, x)
  <2>1. \A v \in Taken(held') : held'[v] = held[v] /\ v \in Taken(held) /\ held[v].range \in Ranges
    BY <1>1, <1>5, <1>6 DEF Taken, Sound, Holdings
  <2>2. \A v \in Taken(held') : Apart(held[v].range, r)
    BY <1>1, <1>2, <1>6, <2>1 DEF Sound, r
  <2> QED
    BY <1>1, <1>7, <2>1, <2>2 DEF Sound
<1>10. ASSUME NEW p \in Int
       PROVE  ((\E x \in free : In(p, x)) \/ (\E v \in Taken(held) : In(p, held[v].range))) <=>
              ((\E x \in free' : In(p, x)) \/ (\E v \in Taken(held') : In(p, held'[v].range)))
  <2>1. (\E v \in Taken(held) : In(p, held[v].range)) <=>
        (\E v \in Taken(held') : In(p, held'[v].range)) \/ In(p, r)
    BY <1>2, <1>5, <1>6 DEF r, Taken
  <2> QED
    BY <1>7, <2>1
<1>11. Sound(reserved', free', held')
  BY <1>1, <1>5, <1>6, <1>7, <1>8, <1>9, <1>10 DEF Sound, Taken
<1>12. Backed(free', held', committed')
  BY <1>1, <1>5, <1>7 DEF ArenaInv, Backed, r
<1> QED
  BY <1>1, <1>8, <1>11, <1>12, NextArena

LEMMA UserStepKeeps ==
  ASSUME ArenaInv, NEW u \in Users, UserStep(u)
  PROVE  ArenaInv'
BY TakeKeeps, CommitKeeps, DecommitKeeps, GiveBackKeeps DEF UserStep

LEMMA ArenaStutters == ArenaInv /\ UNCHANGED arenavars => ArenaInv'
BY DEF ArenaInv, Sound, Backed, Taken, arenavars

(***************************************************************************)
(* What the invariant says in pages                                        *)
(***************************************************************************)
LEMMA SoundIsPartitioned == ArenaInv => ArenaIsPartitioned
<1> SUFFICES ASSUME ArenaInv PROVE ArenaIsPartitioned
  OBVIOUS
<1> DEFINE whole == IF reserved THEN 0..(ArenaPages - 1) ELSE {}
           taken == {u \in Users : held[u].at # "idle"}
<1>1. Sound(reserved, free, held) /\ free \subseteq Ranges /\ taken = Taken(held)
  BY DEF ArenaInv, Sound, Tidy, Taken
<1>2. \A u \in taken : u \in Users /\ held[u].range \in Ranges
  BY <1>1 DEF Sound, Holdings, Taken
<1>3. \A r \in free : r.size > 0
  BY <1>1 DEF Sound, Tidy
<1>4. \A r, x \in free : r # x => Pages(r) \cap Pages(x) = {} /\ End(r) # x.offset
  BY <1>1, PagesOf, ApartMeansDisjoint DEF Sound, Tidy, End
<1>5. \A u \in taken : \A r \in free : Pages(held[u].range) \cap Pages(r) = {}
  BY <1>1, <1>2, PagesOf, ApartMeansDisjoint DEF Sound
<1>6. \A u, v \in taken : u # v => Pages(held[u].range) \cap Pages(held[v].range) = {}
  BY <1>1, <1>2, PagesOf, ApartMeansDisjoint DEF Sound
<1>7. whole = UNION ({Pages(r) : r \in free} \cup {Pages(held[u].range) : u \in taken})
  <2>1. \A p : p \in whole <=> p \in Int /\ reserved /\ 0 <= p /\ p < ArenaPages
    BY ArenaAssumption
  <2>2. \A p : p \in UNION ({Pages(r) : r \in free} \cup {Pages(held[u].range) : u \in taken}) <=>
              (\E r \in free : p \in Pages(r)) \/ (\E u \in taken : p \in Pages(held[u].range))
    OBVIOUS
  <2>3. \A p : (\E r \in free : p \in Pages(r)) <=> p \in Int /\ \E r \in free : In(p, r)
    BY <1>1, PagesOf
  <2>4. \A p : (\E u \in taken : p \in Pages(held[u].range)) <=>
              p \in Int /\ \E u \in taken : In(p, held[u].range)
    BY <1>2, PagesOf
  <2>5. \A p \in Int : (reserved /\ 0 <= p /\ p < ArenaPages) <=>
          (\E r \in free : In(p, r)) \/ (\E u \in taken : In(p, held[u].range))
    BY <1>1 DEF Sound
  <2> HIDE DEF whole, taken
  <2> QED
    BY <2>1, <2>2, <2>3, <2>4, <2>5
<1> QED
  BY <1>3, <1>4, <1>5, <1>6, <1>7 DEF ArenaIsPartitioned

LEMMA BackedIsCommitted == ArenaInv => BuffersAreCommitted
<1> SUFFICES ASSUME ArenaInv PROVE BuffersAreCommitted
  OBVIOUS
<1>1. free \subseteq Ranges /\ \A u \in Users : held[u].range \in Ranges
  BY DEF ArenaInv, Sound, Tidy, Holdings
<1>a. Backed(free, held, committed)
  BY DEF ArenaInv
<1>2. ASSUME NEW u \in Users, held[u].at = "use", NEW p \in Pages(held[u].range) PROVE p \in committed
  <2>1. p \in Int /\ In(p, held[u].range)
    BY <1>1, PagesOf
  <2> QED
    BY <1>a, <1>2, <2>1 DEF Backed
<1>3. ASSUME NEW r \in free, NEW p \in Pages(r) PROVE p \notin committed
  <2>1. p \in Int /\ In(p, r)
    BY <1>1, PagesOf
  <2> QED
    BY <1>a, <2>1 DEF Backed
<1> QED
  BY <1>2, <1>3 DEF BuffersAreCommitted


(***************************************************************************)
(* Which steps touch what                                                  *)
(***************************************************************************)
\* Scripts touch the arena only where DllMain reserves it.
LEMMA RunAndArena ==
  ASSUME NEW h \in Threads, Run(h)
  PROVE  UNCHANGED arenavars \/ \E can \in BOOLEAN : Reserve(can)
BY DEF Run, DoInstall, DoEnable, DoPatch, DoArm, DoStore, DoReserve, DoSpawn, DoWait, DoPublish,
       DoGet, DoRegister, Decline

\* Scripts leave handles alone.
LEMMA RunAndFiles ==
  ASSUME NEW h \in Threads, Run(h)
  PROVE  UNCHANGED <<file, opening, natives>>
BY DEF Run, DoInstall, DoEnable, DoPatch, DoArm, DoStore, DoReserve, DoSpawn, DoWait, DoPublish,
       DoGet, DoRegister, Decline, filevars

LEMMA OthersAndArena ==
  EnterInit \/ LoadExtensions \/ EnterOther \/ Device \/ Proceed \/ Files \/ Streams
  => UNCHANGED arenavars
BY DEF EnterInit, LoadExtensions, EnterOther, Device, Proceed, Files, Streams

LEMMA OthersAndFiles ==
  EnterInit \/ LoadExtensions \/ EnterOther \/ Device \/ Proceed \/ Buffers \/ Streams
  => UNCHANGED filevars
BY DEF EnterInit, LoadExtensions, EnterOther, Device, Proceed, Buffers, Streams

(***************************************************************************)
(* The arena                                                               *)
(***************************************************************************)
LEMMA ArenaInvariant == Spec => []ArenaInv
<1>1. Init => ArenaInv
  BY ArenaStarts DEF Init
<1>2. ArenaInv /\ [Next]_vars => ArenaInv'
  <2> SUFFICES ASSUME ArenaInv, [Next]_vars PROVE ArenaInv'
    OBVIOUS
  <2>1. ASSUME NEW h \in Threads, Run(h) PROVE ArenaInv'
    BY <2>1, RunAndArena, ReserveKeeps, ArenaStutters
  <2>2. CASE EnterInit \/ LoadExtensions \/ EnterOther \/ Device \/ Proceed \/ Files \/ Streams
    BY <2>2, OthersAndArena, ArenaStutters
  <2>3. CASE Buffers
    BY <2>3, UserStepKeeps DEF Buffers
  <2>4. CASE UNCHANGED vars
    BY <2>4, ArenaStutters DEF vars
  <2> QED
    BY <2>1, <2>2, <2>3, <2>4 DEF Next
<1> QED
  BY <1>1, <1>2, PTL DEF Spec

\* No page is lost, free twice or held twice, and free neighbours are merged.
THEOREM ArenaStaysPartitioned == Spec => []ArenaIsPartitioned
BY ArenaInvariant, SoundIsPartitioned, PTL

\* What a user holds has memory, what is free has none.
THEOREM BuffersStayCommitted == Spec => []BuffersAreCommitted
BY ArenaInvariant, BackedIsCommitted, PTL

(***************************************************************************)
(* Handles                                                                 *)
(***************************************************************************)
\* Inside OpenDetour the handle is a native one, which nobody has moved before
\* its bytes are read; a native handle is open when that is what is held.
HandleInv ==
  /\ file \in [kind : {"none", "native", "synthetic"}, size : Nat, pos : Int]
  /\ opening \in {"done", "sizing", "reading", "read"}
  /\ opening # "done" => file.kind = "native"
  /\ opening \in {"sizing", "reading"} => file.pos = 0
  /\ natives = IF file.kind = "native" THEN 1 ELSE 0

LEMMA FileStepKeeps == HandleInv /\ FileStep => HandleInv'
<1> SUFFICES ASSUME HandleInv, FileStep PROVE HandleInv'
  OBVIOUS
<1> USE StorageAssumption DEF HandleInv
<1>1. CASE Open
  <2>1. file = NoFile /\ natives = 0 /\ opening = "done"
    BY <1>1 DEF Open, NoFile
  <2>2. CASE Provided
    <3>1. PICK n \in Sizes : file' \in Synthetic(n)
      BY <2>2 DEF Provided
    <3>2. PICK m \in 0..n : file' = [kind |-> "synthetic", size |-> m, pos |-> 0]
      BY <3>1 DEF Synthetic
    <3>3. m \in Nat
      OBVIOUS
    <3> QED
      BY <2>1, <2>2, <3>2, <3>3 DEF Provided
  <2>3. ASSUME NEW next \in {"sizing", "done"}, Opened(next) PROVE HandleInv'
    <3>1. CASE UNCHANGED <<file, natives, opening>>
      BY <3>1
    <3>2. CASE /\ \E n \in Sizes : file' = Native(n)
               /\ natives' = natives + 1 /\ opening' = next
      BY <2>1, <3>2 DEF Native
    <3> QED
      BY <2>3, <3>1, <3>2 DEF Opened
  <2> QED
    BY <1>1, <2>2, <2>3 DEF Open
<1>2. CASE Sizing
  BY <1>2 DEF Sizing
<1>3. CASE Reading
  BY <1>3 DEF Reading
<1>4. CASE Transform
  BY <1>4 DEF Transform, Synthetic
<1>5. CASE Size
  BY <1>5 DEF Size, Use
<1>6. CASE Read
  BY <1>6 DEF Read, Use, Least
<1>7. CASE Seek
  BY <1>7 DEF Seek, Use, Clamped, Least
<1>8. CASE Close
  BY <1>8 DEF Close, Use, NoFile
<1> QED
  BY <1>1, <1>2, <1>3, <1>4, <1>5, <1>6, <1>7, <1>8 DEF FileStep

LEMMA HandleInvariant == Spec => []HandleInv
<1>1. Init => HandleInv
  BY DEF Init, FileInit, NoFile, HandleInv
<1>2. HandleInv /\ [Next]_vars => HandleInv'
  <2> SUFFICES ASSUME HandleInv, [Next]_vars PROVE HandleInv'
    OBVIOUS
  <2>1. UNCHANGED <<file, opening, natives>> => HandleInv'
    BY DEF HandleInv
  <2>2. CASE Files
    BY <2>2, FileStepKeeps DEF Files
  <2>3. CASE EnterInit \/ LoadExtensions \/ EnterOther \/ Device \/ Proceed \/ Buffers \/ Streams
    BY <2>1, <2>3, OthersAndFiles DEF filevars
  <2>4. CASE UNCHANGED vars
    BY <2>1, <2>4 DEF vars, filevars
  <2> QED
    BY <2>1, <2>2, <2>3, <2>4, RunAndFiles DEF Next
<1> QED
  BY <1>1, <1>2, PTL DEF Spec

\* What OpenDetour hands back stands at its beginning, and the archive's handle
\* is open exactly when it is the one handed back.
THEOREM HandlesStayWhole == Spec => HandlesAreWhole
<1>1. HandleInv /\ [Next]_vars =>
        [(opening # "done" /\ opening' = "done") =>
           file'.pos = 0 /\ natives' = IF file'.kind = "native" THEN 1 ELSE 0]_filevars
  <2> SUFFICES ASSUME HandleInv, [Next]_vars, opening # "done", opening' = "done"
               PROVE  file'.pos = 0 /\ natives' = IF file'.kind = "native" THEN 1 ELSE 0
    OBVIOUS
  <2>1. FileStep
    BY OthersAndFiles, RunAndFiles DEF Next, Files, filevars, vars
  <2>2. Sizing \/ Transform
    BY <2>1 DEF FileStep, Open, Sizing, Reading, Transform, Size, Read, Seek, Close, Use
  <2>3. CASE Sizing
    BY <2>3 DEF Sizing, HandleInv
  <2>4. CASE Transform
    BY <2>4, StorageAssumption DEF Transform, HandleInv, Synthetic
  <2> QED
    BY <2>2, <2>3, <2>4
<1> QED
  BY <1>1, HandleInvariant, PTL DEF Spec, HandlesAreWhole

(***************************************************************************)
(* Sequences: the list of completed reads, the client's stack              *)
(***************************************************************************)
\* One frame more.
LEMMA PushFacts ==
  ASSUME NEW F, NEW s \in Seq(F), NEW f \in F
  PROVE  /\ <<f>> \o s \in Seq(F) /\ Len(<<f>> \o s) = Len(s) + 1 /\ Len(s) \in Nat
         /\ (<<f>> \o s)[1] = f
         /\ \A i \in 1..Len(s) : (<<f>> \o s)[i + 1] = s[i]
         /\ \A i \in 2..(Len(s) + 1) : (<<f>> \o s)[i] = s[i - 1]
<1>1. <<f>> \in Seq(F) /\ Len(<<f>>) = 1 /\ <<f>>[1] = f
  OBVIOUS
<1>2. <<f>> \o s \in Seq(F) /\ Len(s) \in Nat
  BY <1>1
<1>3. Len(<<f>> \o s) = Len(s) + 1
  BY <1>1, <1>2, ConcatProperties
<1>4. ASSUME NEW i \in 1..(Len(s) + 1)
      PROVE  (<<f>> \o s)[i] = IF i = 1 THEN f ELSE s[i - 1]
  <2>1. (<<f>> \o s)[i] = IF i <= 1 THEN <<f>>[i] ELSE s[i - 1]
    BY <1>1, <1>2, ConcatProperties
  <2> QED BY <1>1, <2>1
<1> QED BY <1>2, <1>3, <1>4

\* One frame less.
LEMMA PopFacts ==
  ASSUME NEW F, NEW s \in Seq(F), s # <<>>
  PROVE  /\ Tail(s) \in Seq(F) /\ Len(s) \in Nat /\ Len(s) > 0 /\ Len(Tail(s)) = Len(s) - 1
         /\ Head(s) = s[1] /\ s[1] \in F
         /\ \A i \in 1..(Len(s) - 1) : Tail(s)[i] = s[i + 1]
<1>1. Len(s) \in Nat /\ Len(s) > 0
  BY EmptySeq
<1>2. Tail(s) \in Seq(F) /\ Len(Tail(s)) = Len(s) - 1
      /\ \A i \in 1..(Len(s) - 1) : Tail(s)[i] = s[i + 1]
  BY <1>1, HeadTailProperties
<1> QED BY <1>1, <1>2

\* One element less somewhere.
LEMMA WithoutOne ==
  ASSUME NEW S, NEW q \in Seq(S), NEW k \in 1..Len(q)
  PROVE  LET r == SubSeq(q, 1, k - 1) \o SubSeq(q, k + 1, Len(q))
         IN /\ r \in Seq(S) /\ Len(q) \in Nat /\ Len(r) = Len(q) - 1
            /\ \A i \in 1..(Len(q) - 1) : r[i] = IF i < k THEN q[i] ELSE q[i + 1]
<1> DEFINE a == SubSeq(q, 1, k - 1)
           b == SubSeq(q, k + 1, Len(q))
<1>n. Len(q) \in Nat /\ k \in Nat
  OBVIOUS
<1>1. a \in Seq(S) /\ Len(a) = k - 1 /\ \A i \in 1..(k - 1) : a[i] = q[i]
  OBVIOUS
<1>2. b \in Seq(S) /\ Len(b) = Len(q) - k /\ \A i \in 1..(Len(q) - k) : b[i] = q[k + i]
  OBVIOUS
<1> HIDE DEF a, b
<1>3. a \o b \in Seq(S) /\ Len(a \o b) = Len(q) - 1
  <2>1. a \o b \in Seq(S)
    BY <1>1, <1>2
  <2>2. Len(a \o b) = Len(a) + Len(b)
    BY <1>1, <1>2, ConcatProperties
  <2> QED BY <1>n, <1>1, <1>2, <2>1, <2>2
<1>4. ASSUME NEW i \in 1..(Len(q) - 1)
      PROVE  (a \o b)[i] = IF i < k THEN q[i] ELSE q[i + 1]
  <2>1. (a \o b)[i] = IF i <= k - 1 THEN a[i] ELSE b[i - (k - 1)]
    BY <1>n, <1>1, <1>2, ConcatProperties
  <2>2. CASE i < k
    BY <1>n, <1>1, <2>1, <2>2
  <2>3. CASE ~(i < k)
    <3>1. i - (k - 1) \in 1..(Len(q) - k) /\ k + (i - (k - 1)) = i + 1
      BY <1>n, <2>3
    <3> QED BY <1>n, <1>2, <2>1, <2>3, <3>1
  <2> QED BY <2>2, <2>3
<1> QED BY <1>n, <1>3, <1>4 DEF a, b

(***************************************************************************)
(* The number of builds on the stack                                       *)
(***************************************************************************)
BuildSteps == {"fill", "upload", "built"}
Builds(s) == {i \in DOMAIN s : s[i].at \in BuildSteps}

LEMMA BuildsOnPush ==
  ASSUME NEW F, NEW s \in Seq(F), NEW f \in F
  PROVE  /\ IsFiniteSet(Builds(s)) /\ Cardinality(Builds(s)) \in Nat
         /\ Cardinality(Builds(<<f>> \o s)) =
              Cardinality(Builds(s)) + IF f.at \in BuildSteps THEN 1 ELSE 0
<1> DEFINE r == <<f>> \o s
           A == Builds(s)
           B == {i + 1 : i \in A}
           up == [i \in A |-> i + 1]
<1>1. /\ r \in Seq(F) /\ Len(r) = Len(s) + 1 /\ Len(s) \in Nat /\ r[1] = f
      /\ \A i \in 1..Len(s) : r[i + 1] = s[i]
  BY PushFacts
<1>2. DOMAIN s = 1..Len(s) /\ DOMAIN r = 1..(Len(s) + 1)
  BY <1>1
<1> HIDE DEF r
<1>3. A \in SUBSET (1..Len(s))
  BY <1>2 DEF Builds
<1>4. IsFiniteSet(A) /\ Cardinality(A) \in Nat
  <2>1. IsFiniteSet(1..Len(s))
    BY <1>1, FS_Interval
  <2> QED BY <1>3, <2>1, FS_Subset, FS_CardinalityType
<1>5. IsFiniteSet(B) /\ Cardinality(B) = Cardinality(A)
  <2>1. up \in Bijection(A, B)
    BY <1>1, <1>3 DEF Bijection, Injection, Surjection, IsInjective
  <2>2. ExistsBijection(A, B)
    BY <2>1 DEF ExistsBijection
  <2> QED BY <1>4, <2>2, FS_Bijection
<1>6. 1 \notin B
  BY <1>1, <1>3
<1>7. CASE f.at \in BuildSteps
  <2>1. Builds(r) = B \cup {1}
    <3>1. ASSUME NEW i \in Builds(r) PROVE i \in B \cup {1}
      <4>1. CASE i = 1
        BY <4>1
      <4>2. CASE i # 1
        <5>1. i - 1 \in 1..Len(s) /\ r[i] = s[i - 1] /\ i = (i - 1) + 1 /\ r[i].at \in BuildSteps
          BY <1>1, <1>2, <4>2 DEF Builds
        <5>2. i - 1 \in A
          BY <1>2, <5>1 DEF Builds
        <5> QED BY <5>1, <5>2
      <4> QED BY <4>1, <4>2
    <3>2. ASSUME NEW i \in A PROVE i + 1 \in Builds(r)
      BY <1>1, <1>2, <1>3 DEF Builds
    <3>3. 1 \in Builds(r)
      BY <1>1, <1>2, <1>7 DEF Builds
    <3> QED BY <3>1, <3>2, <3>3
  <2> QED BY <1>4, <1>5, <1>6, <1>7, <2>1, FS_AddElement DEF r
<1>8. CASE f.at \notin BuildSteps
  <2>1. Builds(r) = B
    <3>1. ASSUME NEW i \in Builds(r) PROVE i \in B
      <4>1. i # 1
        BY <1>1, <1>8 DEF Builds
      <4>2. i - 1 \in 1..Len(s) /\ r[i] = s[i - 1] /\ i = (i - 1) + 1 /\ r[i].at \in BuildSteps
        BY <1>1, <1>2, <4>1 DEF Builds
      <4>3. i - 1 \in A
        BY <1>2, <4>2 DEF Builds
      <4> QED BY <4>2, <4>3
    <3>2. ASSUME NEW i \in A PROVE i + 1 \in Builds(r)
      BY <1>1, <1>2, <1>3 DEF Builds
    <3> QED BY <3>1, <3>2
  <2>2. Cardinality(Builds(r)) = Cardinality(A)
    BY <1>5, <2>1
  <2> QED BY <1>4, <1>8, <2>2 DEF r
<1> QED BY <1>4, <1>7, <1>8

LEMMA BuildsOnPop ==
  ASSUME NEW F, NEW s \in Seq(F), s # <<>>
  PROVE  /\ Cardinality(Builds(Tail(s))) \in Nat
         /\ Cardinality(Builds(s)) =
              Cardinality(Builds(Tail(s))) + IF Head(s).at \in BuildSteps THEN 1 ELSE 0
<1>1. Tail(s) \in Seq(F) /\ Head(s) \in F
  BY PopFacts
<1>2. s = <<Head(s)>> \o Tail(s)
  <2>1. /\ <<Head(s)>> \o Tail(s) \in Seq(F) /\ Len(<<Head(s)>> \o Tail(s)) = Len(s)
        /\ \A i \in 1..Len(s) : (<<Head(s)>> \o Tail(s))[i] = s[i]
    <3>1. /\ Len(s) \in Nat /\ Len(Tail(s)) = Len(s) - 1 /\ Head(s) = s[1]
          /\ \A i \in 1..(Len(s) - 1) : Tail(s)[i] = s[i + 1]
      BY PopFacts
    <3>2. /\ <<Head(s)>> \o Tail(s) \in Seq(F) /\ Len(<<Head(s)>> \o Tail(s)) = Len(Tail(s)) + 1
          /\ (<<Head(s)>> \o Tail(s))[1] = Head(s)
          /\ \A i \in 2..(Len(Tail(s)) + 1) : (<<Head(s)>> \o Tail(s))[i] = Tail(s)[i - 1]
      BY <1>1, PushFacts
    <3>3. ASSUME NEW i \in 1..Len(s) PROVE (<<Head(s)>> \o Tail(s))[i] = s[i]
      <4>1. CASE i = 1
        BY <3>1, <3>2, <4>1
      <4>2. CASE i # 1
        <5>1. i \in 2..(Len(Tail(s)) + 1) /\ i - 1 \in 1..(Len(s) - 1) /\ (i - 1) + 1 = i
          BY <3>1, <4>2
        <5> QED BY <3>1, <3>2, <5>1
      <4> QED BY <4>1, <4>2
    <3> QED BY <3>1, <3>2, <3>3
  <2> QED BY <2>1, SeqEqual
<1> QED BY <1>1, <1>2, BuildsOnPush
(***************************************************************************)
(* The reads                                                               *)
(***************************************************************************)
Frames == [at : {"drain", "wait"} \cup BuildSteps, read : Reads \cup {"none"},
           guarded : BOOLEAN, saved : [Mips -> Reads \cup {"none"}]]

\* A read is under way or completed, once.
QueueInv ==
  /\ reading \in SUBSET Reads /\ IsFiniteSet(reading)
  /\ completed \in Seq(Reads) /\ stack \in Seq(Frames)
  /\ awaited \in Reads \cup {"none"} /\ table \in [Mips -> Reads \cup {"none"}]
  /\ \A i, j \in DOMAIN completed : completed[i] = completed[j] => i = j
  /\ \A i \in DOMAIN completed : completed[i] \notin reading
  /\ NoReadIsLost

LEMMA BuildingIsBuilds == Building = Builds(stack)
BY DEF Building, Builds, BuildSteps

LEMMA EmptyTable == Empty \in [Mips -> Reads \cup {"none"}]
BY DEF Empty

\* What Push and Pop do to the count.
LEMMA PushCounts ==
  ASSUME stack \in Seq(Frames), NEW f \in Frames, Push(f)
  PROVE  /\ stack' \in Seq(Frames)
         /\ Cardinality(Building) \in Nat
         /\ Cardinality(Building') =
              Cardinality(Building) + IF f.at \in BuildSteps THEN 1 ELSE 0
<1>1. stack' = <<f>> \o stack /\ Building' = Builds(stack')
  BY DEF Push, Building, Builds, BuildSteps
<1> QED BY <1>1, BuildingIsBuilds, BuildsOnPush, PushFacts

LEMMA PopCounts ==
  ASSUME stack \in Seq(Frames), stack # <<>>, Pop
  PROVE  /\ stack' \in Seq(Frames)
         /\ Cardinality(Building') \in Nat
         /\ Cardinality(Building) =
              Cardinality(Building') + IF Head(stack).at \in BuildSteps THEN 1 ELSE 0
<1>1. stack' = Tail(stack) /\ Building' = Builds(stack')
  BY DEF Pop, Building, Builds, BuildSteps
<1> QED BY <1>1, BuildingIsBuilds, BuildsOnPop, PopFacts

\* A build that goes on is the same one.
LEMMA BuildGoesOn ==
  ASSUME stack \in Seq(Frames), stack # <<>>, stack[1].at \in BuildSteps,
         NEW next \in BuildSteps, stack' = [stack EXCEPT ![1].at = next]
  PROVE  /\ stack' \in Seq(Frames) /\ Building' = Building /\ Len(stack') = Len(stack)
         /\ stack'[1].at = next /\ stack'[1].read = stack[1].read
         /\ stack'[1].guarded = stack[1].guarded /\ stack'[1].saved = stack[1].saved
         /\ \A i \in 2..Len(stack) : stack'[i] = stack[i]
<1>1. 1 \in DOMAIN stack /\ stack[1] \in Frames /\ DOMAIN stack = 1..Len(stack) /\ Len(stack) \in Nat
  BY PopFacts
<1>2. [stack[1] EXCEPT !.at = next] \in Frames
  BY <1>1 DEF Frames, BuildSteps
<1>3. /\ stack' = [stack EXCEPT ![1] = [stack[1] EXCEPT !.at = next]]
      /\ stack'[1] = [stack[1] EXCEPT !.at = next] /\ DOMAIN stack' = DOMAIN stack
      /\ \A i \in DOMAIN stack : i # 1 => stack'[i] = stack[i]
  BY <1>1
<1>4. stack' \in Seq(Frames) /\ Len(stack') = Len(stack)
  BY <1>1, <1>2, <1>3, ExceptSeq
<1>5. stack'[1].at = next /\ stack'[1].read = stack[1].read
      /\ stack'[1].guarded = stack[1].guarded /\ stack'[1].saved = stack[1].saved
  BY <1>1, <1>3 DEF Frames
<1>6. Building' = Building
  BY <1>1, <1>3, <1>5 DEF Building, BuildSteps
<1> QED BY <1>1, <1>3, <1>4, <1>5, <1>6

\* A node leaves the list.
LEMMA TakeNodeFacts ==
  ASSUME QueueInv, NEW r, TakeNode(r)
  PROVE  /\ completed' \in Seq(Reads) /\ r \in Reads
         /\ Len(completed') = Len(completed) - 1 /\ Len(completed) \in Nat
         /\ Members(completed') = Members(completed) \ {r}
         /\ \A i, j \in DOMAIN completed' : completed'[i] = completed'[j] => i = j
<1> DEFINE n == Len(completed)
<1>1. PICK k \in DOMAIN completed :
        /\ completed[k] = r
        /\ completed' = SubSeq(completed, 1, k - 1) \o SubSeq(completed, k + 1, n)
  BY DEF TakeNode, Unlinked
<1>2. completed \in Seq(Reads) /\ n \in Nat /\ DOMAIN completed = 1..n /\ k \in 1..n
  BY <1>1 DEF QueueInv
<1>3. /\ completed' \in Seq(Reads) /\ Len(completed') = n - 1
      /\ \A i \in 1..(n - 1) : completed'[i] = IF i < k THEN completed[i] ELSE completed[i + 1]
  BY <1>1, <1>2, WithoutOne
<1>4. DOMAIN completed' = 1..(n - 1)
  BY <1>2, <1>3
<1>5. \A i, j \in 1..n : completed[i] = completed[j] => i = j
  BY <1>2 DEF QueueInv
<1>6. ASSUME NEW i \in 1..(n - 1), NEW j \in 1..(n - 1), completed'[i] = completed'[j]
      PROVE  i = j
  BY <1>2, <1>3, <1>5, <1>6
<1>7. ASSUME NEW i \in 1..(n - 1) PROVE completed'[i] \in Members(completed) \ {r}
  <2>1. PICK j \in 1..n : completed'[i] = completed[j] /\ j # k
    BY <1>2, <1>3
  <2> QED BY <1>1, <1>2, <1>5, <2>1 DEF Members
<1>8. ASSUME NEW x \in Members(completed), x # r PROVE \E i \in 1..(n - 1) : completed'[i] = x
  <2>1. PICK j \in 1..n : completed[j] = x /\ j # k
    BY <1>1, <1>2, <1>8 DEF Members
  <2>2. CASE j < k
    BY <1>2, <1>3, <2>1, <2>2
  <2>3. CASE j > k
    <3>1. j - 1 \in 1..(n - 1) /\ ~(j - 1 < k) /\ (j - 1) + 1 = j
      BY <1>2, <2>3
    <3> QED BY <1>3, <2>1, <3>1
  <2> QED BY <1>2, <2>1, <2>2, <2>3
<1>9. Members(completed') = Members(completed) \ {r}
  BY <1>4, <1>7, <1>8 DEF Members
<1>10. r \in Reads
  BY <1>1, <1>2
<1>11. \A i, j \in DOMAIN completed' : completed'[i] = completed'[j] => i = j
  BY <1>4, <1>6
<1> QED BY <1>2, <1>3, <1>9, <1>10, <1>11

\* Whatever is left of the list is left of the invariant.
LEMMA TakenKeeps ==
  ASSUME QueueInv, NEW r, TakeNode(r), NEW f \in Frames, f.at = "fill", Push(f),
         UNCHANGED <<reading, pending, table>>
  PROVE  QueueInv'
<1>1. /\ completed' \in Seq(Reads) /\ Len(completed') = Len(completed) - 1
      /\ Len(completed) \in Nat /\ Members(completed') = Members(completed) \ {r}
      /\ \A i, j \in DOMAIN completed' : completed'[i] = completed'[j] => i = j
  BY TakeNodeFacts
<1>2. stack \in Seq(Frames)
  BY DEF QueueInv
<1>3. /\ stack' \in Seq(Frames) /\ Cardinality(Building) \in Nat
      /\ Cardinality(Building') = Cardinality(Building) + 1
  BY <1>2, PushCounts DEF BuildSteps
<1>4. awaited' \in Reads \cup {"none"}
  BY DEF QueueInv, TakeNode
<1>5. \A i \in DOMAIN completed' : completed'[i] \notin reading'
  BY <1>1 DEF QueueInv, Members
<1>6. Cardinality(reading) \in Nat
  BY FS_CardinalityType DEF QueueInv
<1>7. pending' = Cardinality(reading') + Len(completed') + Cardinality(Building')
  BY <1>1, <1>3, <1>6 DEF QueueInv, NoReadIsLost
<1>8. awaited' # "none" => awaited' \in reading' \cup Members(completed')
  BY <1>1 DEF QueueInv, NoReadIsLost, TakeNode
<1> QED BY <1>1, <1>3, <1>4, <1>5, <1>7, <1>8 DEF QueueInv, NoReadIsLost

\* Steps that leave the reads and the number of builds as they are.
LEMMA CountKeeps ==
  ASSUME QueueInv, UNCHANGED <<reading, completed, pending>>, stack' \in Seq(Frames),
         Cardinality(Building') = Cardinality(Building),
         awaited' = awaited \/ awaited' = "none",
         table' \in [Mips -> Reads \cup {"none"}]
  PROVE  QueueInv'
<1>1. QueueInv' <=> /\ reading \in SUBSET Reads /\ IsFiniteSet(reading)
                    /\ completed \in Seq(Reads) /\ stack' \in Seq(Frames)
                    /\ awaited' \in Reads \cup {"none"}
                    /\ table' \in [Mips -> Reads \cup {"none"}]
                    /\ \A i, j \in DOMAIN completed : completed[i] = completed[j] => i = j
                    /\ \A i \in DOMAIN completed : completed[i] \notin reading
                    /\ awaited' # "none" => awaited' \in reading \cup Members(completed)
                    /\ pending = Cardinality(reading) + Len(completed) + Cardinality(Building')
  BY DEF QueueInv, NoReadIsLost, Members
<1> QED BY <1>1 DEF QueueInv, NoReadIsLost

LEMMA QueueStep ==
  ASSUME StreamingAssumption, QueueInv, ClientStreams \/ WorkerStreams
  PROVE  QueueInv'
<1>q. /\ reading \in SUBSET Reads /\ IsFiniteSet(reading) /\ Cardinality(reading) \in Nat
      /\ completed \in Seq(Reads) /\ Len(completed) \in Nat /\ stack \in Seq(Frames)
      /\ awaited \in Reads \cup {"none"} /\ table \in [Mips -> Reads \cup {"none"}]
      /\ Cardinality(Building) \in Nat
  <2>1. stack \in Seq(Frames)
    BY DEF QueueInv
  <2>2. Frame("wait", "none", FALSE, Empty) \in Frames
    BY EmptyTable DEF Frame, Frames, BuildSteps
  <2>3. Cardinality(Building) \in Nat
    BY <2>1, <2>2, BuildsOnPush, BuildingIsBuilds
  <2> QED BY <2>3, FS_CardinalityType DEF QueueInv
<1>1. ASSUME NEW r \in Reads, Ask(r) PROVE QueueInv'
  <2>1. /\ r \notin reading /\ r \notin Members(completed) /\ reading' = reading \cup {r}
        /\ pending' = pending + 1 /\ UNCHANGED <<completed, awaited, table, stack>>
    BY <1>1 DEF Ask
  <2>2. IsFiniteSet(reading') /\ Cardinality(reading') = Cardinality(reading) + 1
    BY <1>q, <2>1, FS_AddElement
  <2>3. Building' = Building
    BY <2>1 DEF Building
  <2>4. pending' = Cardinality(reading') + Len(completed') + Cardinality(Building')
    BY <1>q, <2>1, <2>2, <2>3 DEF QueueInv, NoReadIsLost
  <2>5. \A i \in DOMAIN completed' : completed'[i] \notin reading'
    BY <2>1 DEF QueueInv, Members
  <2>6. awaited' # "none" => awaited' \in reading' \cup Members(completed')
    BY <2>1 DEF QueueInv, NoReadIsLost
  <2> QED BY <2>1, <2>2, <2>4, <2>5, <2>6 DEF QueueInv, NoReadIsLost
<1>2. ASSUME NEW r \in Reads, Deliver(r) PROVE QueueInv'
  <2>1. /\ r \in reading /\ reading' = reading \ {r} /\ completed' = Append(completed, r)
        /\ UNCHANGED <<awaited, pending, table, stack>>
    BY <1>2 DEF Deliver
  <2>2. IsFiniteSet(reading') /\ Cardinality(reading') = Cardinality(reading) - 1
    BY <1>q, <2>1, FS_RemoveElement
  <2>3. Building' = Building
    BY <2>1 DEF Building
  <2>4. /\ completed' \in Seq(Reads) /\ Len(completed') = Len(completed) + 1
        /\ completed'[Len(completed) + 1] = r
        /\ \A i \in 1..Len(completed) : completed'[i] = completed[i]
        /\ DOMAIN completed' = 1..(Len(completed) + 1) /\ DOMAIN completed = 1..Len(completed)
    BY <1>q, <2>1
  <2>5. pending' = Cardinality(reading') + Len(completed') + Cardinality(Building')
    BY <1>q, <2>1, <2>2, <2>3, <2>4 DEF QueueInv, NoReadIsLost
  <2>6. /\ \A i, j \in 1..Len(completed) : completed[i] = completed[j] => i = j
        /\ \A i \in 1..Len(completed) : completed[i] \notin reading
    BY <2>4 DEF QueueInv
  <2>7. \A i \in DOMAIN completed' : completed'[i] \notin reading'
    <3> TAKE i \in DOMAIN completed'
    <3>1. CASE i = Len(completed) + 1
      BY <2>1, <2>4, <3>1
    <3>2. CASE i \in 1..Len(completed)
      BY <2>1, <2>4, <2>6, <3>2
    <3> QED BY <1>q, <2>4, <3>1, <3>2
  <2>8. ASSUME NEW i \in DOMAIN completed', NEW j \in DOMAIN completed',
               completed'[i] = completed'[j]
        PROVE  i = j
    <3>1. CASE i \in 1..Len(completed) /\ j \in 1..Len(completed)
      BY <2>4, <2>6, <2>8, <3>1
    <3>2. CASE i = Len(completed) + 1 /\ j \in 1..Len(completed)
      BY <2>1, <2>4, <2>6, <2>8, <3>2
    <3>3. CASE j = Len(completed) + 1 /\ i \in 1..Len(completed)
      BY <2>1, <2>4, <2>6, <2>8, <3>3
    <3>4. CASE i = Len(completed) + 1 /\ j = Len(completed) + 1
      BY <3>4
    <3> QED BY <1>q, <2>4, <3>1, <3>2, <3>3, <3>4
  <2>9. Members(completed') = Members(completed) \cup {r}
    <3>1. \A i \in DOMAIN completed' : completed'[i] \in Members(completed) \cup {r}
      BY <1>q, <2>4 DEF Members
    <3>2. \A i \in DOMAIN completed : completed[i] \in Members(completed')
      BY <1>q, <2>4 DEF Members
    <3>3. r \in Members(completed')
      BY <1>q, <2>4 DEF Members
    <3> QED BY <3>1, <3>2, <3>3 DEF Members
  <2>10. awaited' # "none" => awaited' \in reading' \cup Members(completed')
    BY <2>1, <2>9 DEF QueueInv, NoReadIsLost
  <2> QED BY <1>q, <2>1, <2>2, <2>4, <2>5, <2>7, <2>8, <2>10 DEF QueueInv, NoReadIsLost
<1>3. CASE Drain
  <2>1. UNCHANGED <<reading, pending, table>>
    BY <1>3 DEF Drain
  <2>2. CASE UNCHANGED <<completed, stack>> /\ (awaited' = awaited \/ awaited' = "none")
    <3>1. Building' = Building
      BY <2>2 DEF Building
    <3> QED BY <1>q, <2>1, <2>2, <3>1, CountKeeps
  <2>3. CASE TakeNode(awaited) /\ Push(Frame("fill", awaited, TRUE, table))
    <3>1. /\ Frame("fill", awaited, TRUE, table) \in Frames
          /\ Frame("fill", awaited, TRUE, table).at = "fill"
      BY <1>q DEF Frame, Frames, BuildSteps
    <3> QED BY <2>1, <2>3, <3>1, TakenKeeps
  <2>4. CASE /\ Push(Frame("drain", "none", "drain" \in armed, Empty))
             /\ UNCHANGED <<completed, awaited>>
    <3>1. /\ Frame("drain", "none", "drain" \in armed, Empty) \in Frames
          /\ Frame("drain", "none", "drain" \in armed, Empty).at = "drain"
      BY EmptyTable DEF Frame, Frames, BuildSteps
    <3>2. stack' \in Seq(Frames) /\ Cardinality(Building') = Cardinality(Building) + 0
      BY <1>q, <2>4, <3>1, PushCounts DEF BuildSteps
    <3> QED BY <1>q, <2>1, <2>4, <3>2, CountKeeps
  <2> QED BY <1>3, <2>2, <2>3, <2>4 DEF Drain, DrainAwaitedOnly
<1>4. CASE Service
  <2>1. Head(completed) \in Reads
    BY <1>4, <1>q DEF Service
  <2>2. /\ Frame("fill", Head(completed), FALSE, Empty) \in Frames
        /\ Frame("fill", Head(completed), FALSE, Empty).at = "fill"
    BY <2>1, EmptyTable DEF Frame, Frames, BuildSteps
  <2> QED BY <1>4, <2>2, TakenKeeps DEF Service
<1>5. CASE DrainReturns \/ WaitReturns
  <2>1. /\ stack # <<>> /\ Head(stack).at \notin BuildSteps /\ Pop
        /\ UNCHANGED <<reading, completed, awaited, pending, table>>
    BY <1>5 DEF DrainReturns, WaitReturns, Inside, BuildSteps
  <2>2. stack' \in Seq(Frames) /\ Cardinality(Building) = Cardinality(Building') + 0
        /\ Cardinality(Building') \in Nat
    BY <1>q, <2>1, PopCounts
  <2> QED BY <1>q, <2>1, <2>2, CountKeeps
<1>6. CASE Fill \/ Upload
  <2>1. \E next \in BuildSteps : stack' = [stack EXCEPT ![1].at = next]
    BY <1>6 DEF Fill, Upload, BuildSteps
  <2>2. stack # <<>> /\ stack[1].at \in BuildSteps
    BY <1>6, <1>q, PopFacts DEF Fill, Upload, Inside, BuildSteps
  <2>3. stack' \in Seq(Frames) /\ Building' = Building
    BY <1>q, <2>1, <2>2, BuildGoesOn
  <2>4. table' \in [Mips -> Reads \cup {"none"}]
    <3>1. stack[1] \in Frames /\ Head(stack) = stack[1]
      BY <1>q, <2>2, PopFacts
    <3>2. Head(stack).read \in Reads \cup {"none"}
      BY <3>1 DEF Frames
    <3> QED BY <1>6, <1>q, <3>2, EmptyTable DEF Fill, Upload
  <2> QED BY <1>6, <1>q, <2>3, <2>4, CountKeeps DEF Fill, Upload
<1>7. CASE Built
  <2>1. stack # <<>> /\ Head(stack).at \in BuildSteps /\ Pop /\ pending' = pending - 1
        /\ UNCHANGED <<reading, completed, awaited>>
    BY <1>7 DEF Built, Inside, BuildSteps
  <2>2. stack' \in Seq(Frames) /\ Cardinality(Building) = Cardinality(Building') + 1
        /\ Cardinality(Building') \in Nat
    BY <1>q, <2>1, PopCounts
  <2>3. pending' = Cardinality(reading') + Len(completed') + Cardinality(Building')
    BY <1>q, <2>1, <2>2 DEF QueueInv, NoReadIsLost
  <2>4. table' \in [Mips -> Reads \cup {"none"}]
    <3>1. Head(stack) \in Frames
      BY <1>q, <2>1, PopFacts
    <3> QED BY <1>7, <1>q, <3>1 DEF Built, Frames
  <2> QED BY <1>q, <2>1, <2>2, <2>3, <2>4 DEF QueueInv, NoReadIsLost, Members
<1>8. ASSUME NEW r \in Reads, Wait(r) PROVE QueueInv'
  <2>1. /\ r \in reading \cup Members(completed) /\ awaited' = r
        /\ Push(Frame("wait", r, FALSE, Empty))
        /\ UNCHANGED <<reading, completed, pending, table>>
    BY <1>8 DEF Wait
  <2>2. /\ Frame("wait", r, FALSE, Empty) \in Frames
        /\ Frame("wait", r, FALSE, Empty).at = "wait"
    BY EmptyTable DEF Frame, Frames, BuildSteps
  <2>3. stack' \in Seq(Frames) /\ Cardinality(Building') = Cardinality(Building) + 0
    BY <1>q, <2>1, <2>2, PushCounts DEF BuildSteps
  <2>4. pending' = Cardinality(reading') + Len(completed') + Cardinality(Building')
    BY <1>q, <2>1, <2>3 DEF QueueInv, NoReadIsLost
  <2>5. awaited' # "none" => awaited' \in reading' \cup Members(completed')
    BY <2>1 DEF Members
  <2> QED BY <1>q, <2>1, <2>3, <2>4, <2>5 DEF QueueInv, NoReadIsLost, Members
<1> QED BY <1>1, <1>2, <1>3, <1>4, <1>5, <1>6, <1>7, <1>8 DEF ClientStreams, WorkerStreams
(***************************************************************************)
(* The stack                                                               *)
(***************************************************************************)
\* A wait is the client's or an upload's; a build inside a wait may not wait;
\* the service through the detour is inside the detour.
StackInv ==
  \A i \in DOMAIN stack :
    /\ stack[i].at = "wait" => i = Len(stack) \/ stack[i + 1].at = "upload"
    /\ stack[i].at \in BuildSteps /\ stack[i].guarded =>
         i + 2 \in DOMAIN stack /\ stack[i + 2].at = "upload"
    /\ i > 1 /\ stack[i].at \in BuildSteps => stack[i].at = "upload"
    /\ stack[i].at = "drain" /\ stack[i].guarded => "drain" \in armed

LEMMA StackOnPush ==
  ASSUME stack \in Seq(Frames), StackInv, armed' = armed, NEW f \in Frames, Push(f),
         stack # <<>> /\ stack[1].at \in BuildSteps => stack[1].at = "upload",
         f.at = "wait" => stack = <<>> \/ stack[1].at = "upload",
         f.at \in BuildSteps /\ f.guarded => Len(stack) >= 2 /\ stack[2].at = "upload",
         f.at = "drain" /\ f.guarded => "drain" \in armed
  PROVE  StackInv'
<1> DEFINE n == Len(stack)
<1>1. /\ stack' \in Seq(Frames) /\ Len(stack') = n + 1 /\ n \in Nat /\ stack'[1] = f
      /\ \A i \in 1..n : stack'[i + 1] = stack[i]
      /\ \A i \in 2..(n + 1) : stack'[i] = stack[i - 1]
  BY PushFacts DEF Push
<1>2. DOMAIN stack = 1..n /\ DOMAIN stack' = 1..(n + 1) /\ (stack = <<>> <=> n = 0)
  BY <1>1, EmptySeq
<1>3. ASSUME NEW i \in 1..(n + 1)
      PROVE  /\ stack'[i].at = "wait" => i = n + 1 \/ stack'[i + 1].at = "upload"
             /\ stack'[i].at \in BuildSteps /\ stack'[i].guarded =>
                  i + 2 \in 1..(n + 1) /\ stack'[i + 2].at = "upload"
             /\ i > 1 /\ stack'[i].at \in BuildSteps => stack'[i].at = "upload"
             /\ stack'[i].at = "drain" /\ stack'[i].guarded => "drain" \in armed'
  <2>1. CASE i = 1
    <3>1. stack'[1].at = "wait" => 1 = n + 1 \/ stack'[1 + 1].at = "upload"
      BY <1>1, <1>2
    <3>2. stack'[1].at \in BuildSteps /\ stack'[1].guarded =>
            1 + 2 \in 1..(n + 1) /\ stack'[1 + 2].at = "upload"
      <4> SUFFICES ASSUME f.at \in BuildSteps, f.guarded PROVE 3 \in 1..(n + 1) /\ stack'[3].at = "upload"
        BY <1>1
      <4>1. n >= 2 /\ stack[2].at = "upload"
        OBVIOUS
      <4> QED BY <1>1, <4>1
    <3>3. stack'[1].at = "drain" /\ stack'[1].guarded => "drain" \in armed'
      BY <1>1
    <3> QED BY <2>1, <3>1, <3>2, <3>3
  <2>2. CASE i # 1
    <3> DEFINE j == i - 1
    <3>1. j \in 1..n /\ stack'[i] = stack[j] /\ i = j + 1
      BY <1>1, <2>2
    <3>2. /\ stack[j].at = "wait" => j = n \/ stack[j + 1].at = "upload"
          /\ stack[j].at \in BuildSteps /\ stack[j].guarded =>
               j + 2 \in 1..n /\ stack[j + 2].at = "upload"
          /\ j > 1 /\ stack[j].at \in BuildSteps => stack[j].at = "upload"
          /\ stack[j].at = "drain" /\ stack[j].guarded => "drain" \in armed
      BY <1>2, <3>1 DEF StackInv
    <3> HIDE DEF j
    <3>3. stack'[i].at = "wait" => i = n + 1 \/ stack'[i + 1].at = "upload"
      <4>1. j # n => j + 1 \in 1..n /\ stack'[i + 1] = stack[j + 1]
        BY <1>1, <3>1
      <4> QED BY <3>1, <3>2, <4>1
    <3>4. stack'[i].at \in BuildSteps /\ stack'[i].guarded =>
            i + 2 \in 1..(n + 1) /\ stack'[i + 2].at = "upload"
      <4>1. j + 2 \in 1..n => stack'[i + 2] = stack[j + 2] /\ i + 2 \in 1..(n + 1)
        BY <1>1, <3>1
      <4> QED BY <3>1, <3>2, <4>1
    <3>5. stack'[i].at \in BuildSteps => stack'[i].at = "upload"
      <4>1. j = 1 => stack # <<>>
        BY <1>2, <3>1
      <4>2. j = 1 \/ j > 1
        BY <3>1
      <4> QED BY <3>1, <3>2, <4>1, <4>2
    <3> QED BY <3>1, <3>2, <3>3, <3>4, <3>5
  <2> QED BY <2>1, <2>2
<1> QED BY <1>1, <1>2, <1>3 DEF StackInv

LEMMA StackOnPop ==
  ASSUME stack \in Seq(Frames), StackInv, armed' = armed, stack # <<>>, Pop
  PROVE  StackInv'
<1> DEFINE n == Len(stack)
<1>1. /\ stack' \in Seq(Frames) /\ n \in Nat /\ n > 0 /\ Len(stack') = n - 1
      /\ \A i \in 1..(n - 1) : stack'[i] = stack[i + 1]
  BY PopFacts DEF Pop
<1>2. DOMAIN stack = 1..n /\ DOMAIN stack' = 1..(n - 1)
  BY <1>1
<1>3. ASSUME NEW i \in 1..(n - 1)
      PROVE  /\ stack'[i].at = "wait" => i = n - 1 \/ stack'[i + 1].at = "upload"
             /\ stack'[i].at \in BuildSteps /\ stack'[i].guarded =>
                  i + 2 \in 1..(n - 1) /\ stack'[i + 2].at = "upload"
             /\ i > 1 /\ stack'[i].at \in BuildSteps => stack'[i].at = "upload"
             /\ stack'[i].at = "drain" /\ stack'[i].guarded => "drain" \in armed'
  <2> DEFINE j == i + 1
  <2>1. j \in 1..n /\ j > 1 /\ stack'[i] = stack[j] /\ j = i + 1
    BY <1>1
  <2>2. /\ stack[j].at = "wait" => j = n \/ stack[j + 1].at = "upload"
        /\ stack[j].at \in BuildSteps /\ stack[j].guarded =>
             j + 2 \in 1..n /\ stack[j + 2].at = "upload"
        /\ j > 1 /\ stack[j].at \in BuildSteps => stack[j].at = "upload"
        /\ stack[j].at = "drain" /\ stack[j].guarded => "drain" \in armed
    BY <1>2, <2>1 DEF StackInv
  <2> HIDE DEF j
  <2>3. stack'[i].at = "wait" => i = n - 1 \/ stack'[i + 1].at = "upload"
    <3>1. j # n => i + 1 \in 1..(n - 1) /\ stack'[i + 1] = stack[j + 1]
      BY <1>1, <2>1
    <3>2. j = n => i = n - 1
      BY <1>1, <2>1
    <3> QED BY <2>1, <2>2, <3>1, <3>2
  <2>4. stack'[i].at \in BuildSteps /\ stack'[i].guarded =>
          i + 2 \in 1..(n - 1) /\ stack'[i + 2].at = "upload"
    <3>1. j + 2 \in 1..n => stack'[i + 2] = stack[j + 2] /\ i + 2 \in 1..(n - 1)
      BY <1>1, <2>1
    <3> QED BY <2>1, <2>2, <3>1
  <2> QED BY <2>1, <2>2, <2>3, <2>4
<1> QED BY <1>1, <1>2, <1>3 DEF StackInv

LEMMA StackGoesOn ==
  ASSUME stack \in Seq(Frames), StackInv, armed' = armed, stack # <<>>,
         stack[1].at \in BuildSteps, NEW next \in BuildSteps,
         stack' = [stack EXCEPT ![1].at = next]
  PROVE  StackInv'
<1> DEFINE n == Len(stack)
<1>1. /\ stack' \in Seq(Frames) /\ Len(stack') = n /\ stack'[1].at = next
      /\ stack'[1].guarded = stack[1].guarded /\ \A i \in 2..n : stack'[i] = stack[i]
  BY BuildGoesOn
<1>2. DOMAIN stack = 1..n /\ DOMAIN stack' = 1..n /\ n \in Nat /\ 1 \in 1..n
  BY <1>1, PopFacts
<1>3. next # "wait" /\ next # "drain"
  BY DEF BuildSteps
<1>4. ASSUME NEW i \in 1..n
      PROVE  /\ stack'[i].at = "wait" => i = n \/ stack'[i + 1].at = "upload"
             /\ stack'[i].at \in BuildSteps /\ stack'[i].guarded =>
                  i + 2 \in 1..n /\ stack'[i + 2].at = "upload"
             /\ i > 1 /\ stack'[i].at \in BuildSteps => stack'[i].at = "upload"
             /\ stack'[i].at = "drain" /\ stack'[i].guarded => "drain" \in armed'
  <2>1. /\ stack[i].at = "wait" => i = n \/ stack[i + 1].at = "upload"
        /\ stack[i].at \in BuildSteps /\ stack[i].guarded =>
             i + 2 \in 1..n /\ stack[i + 2].at = "upload"
        /\ i > 1 /\ stack[i].at \in BuildSteps => stack[i].at = "upload"
        /\ stack[i].at = "drain" /\ stack[i].guarded => "drain" \in armed
    BY <1>2 DEF StackInv
  <2>2. i # n => stack'[i + 1] = stack[i + 1]
    BY <1>1, <1>2
  <2>3. i + 2 \in 1..n => stack'[i + 2] = stack[i + 2]
    BY <1>1, <1>2
  <2>4. CASE i = 1
    BY <1>1, <1>3, <2>1, <2>3, <2>4
  <2>5. CASE i # 1
    <3>1. stack'[i] = stack[i]
      BY <1>1, <1>2, <2>5
    <3> QED BY <2>1, <2>2, <2>3, <3>1
  <2> QED BY <2>4, <2>5
<1> QED BY <1>1, <1>2, <1>4 DEF StackInv

\* Depth counts detoured services, of which there are none without a frame.
LEMMA DepthFacts ==
  ASSUME stack \in Seq(Frames)
  PROVE  Depth > 0 <=> \E i \in DOMAIN stack : stack[i].at = "drain" /\ stack[i].guarded
<1> DEFINE D == {i \in DOMAIN stack : stack[i].at = "drain" /\ stack[i].guarded}
<1>1. DOMAIN stack = 1..Len(stack) /\ Len(stack) \in Nat
  OBVIOUS
<1>2. IsFiniteSet(D)
  <2>1. IsFiniteSet(1..Len(stack))
    BY <1>1, FS_Interval
  <2> QED BY <1>1, <2>1, FS_Subset
<1>3. Cardinality(D) \in Nat /\ (Cardinality(D) = 0 <=> D = {})
  BY <1>2, FS_CardinalityType, FS_EmptySet
<1>4. Depth = Cardinality(D)
  BY DEF Depth
<1> QED BY <1>3, <1>4

\* Where a detoured service is on the stack and a wait on top of it, it is an
\* upload that waits.
LEMMA NestedFacts ==
  ASSUME stack \in Seq(Frames), StackInv, Inside("wait"), Depth > 0
  PROVE  Len(stack) >= 2 /\ stack[2].at = "upload"
<1>1. stack # <<>> /\ stack[1].at = "wait" /\ Len(stack) \in Nat /\ Len(stack) > 0
      /\ DOMAIN stack = 1..Len(stack)
  BY PopFacts DEF Inside
<1>2. PICK i \in 1..Len(stack) : stack[i].at = "drain"
  BY <1>1, DepthFacts
<1>3. i # 1
  BY <1>1, <1>2
<1>4. 1 = Len(stack) \/ stack[1 + 1].at = "upload"
  BY <1>1 DEF StackInv
<1> QED BY <1>1, <1>2, <1>3, <1>4

LEMMA StackStep ==
  ASSUME QueueInv, StackInv, ClientStreams \/ WorkerStreams, armed' = armed
  PROVE  StackInv'
<1>q. stack \in Seq(Frames) /\ table \in [Mips -> Reads \cup {"none"}]
      /\ awaited \in Reads \cup {"none"} /\ completed \in Seq(Reads)
  BY DEF QueueInv
<1>h. ASSUME NEW at, Inside(at) PROVE stack # <<>> /\ stack[1].at = at
  BY <1>q, <1>h, PopFacts DEF Inside
<1>1. CASE UNCHANGED stack
  BY <1>1 DEF StackInv
<1>2. CASE Drain /\ ~UNCHANGED stack
  <2>1. CASE TakeNode(awaited) /\ Push(Frame("fill", awaited, TRUE, table)) /\ Depth > 0
    <3> DEFINE f == Frame("fill", awaited, TRUE, table)
    <3>1. f \in Frames /\ f.at = "fill"
      BY <1>q DEF Frame, Frames, BuildSteps
    <3>2. stack # <<>>
      BY <1>q, <2>1, DepthFacts
    <3>3. Inside("wait")
      BY <1>2, <3>2 DEF Drain
    <3>4. Len(stack) >= 2 /\ stack[2].at = "upload" /\ stack[1].at = "wait"
      BY <1>q, <1>h, <2>1, <3>3, NestedFacts
    <3> QED BY <1>q, <2>1, <3>1, <3>4, StackOnPush DEF BuildSteps
  <2>2. CASE Push(Frame("drain", "none", "drain" \in armed, Empty))
    <3> DEFINE f == Frame("drain", "none", "drain" \in armed, Empty)
    <3>1. f \in Frames /\ f.at = "drain"
      BY EmptyTable DEF Frame, Frames, BuildSteps
    <3>3. f.guarded => "drain" \in armed
      BY DEF Frame
    <3>2. stack = <<>> \/ stack[1].at = "wait"
      BY <1>2, <1>h DEF Drain
    <3> HIDE DEF f
    <3> QED BY <1>q, <2>2, <3>1, <3>2, <3>3, StackOnPush DEF BuildSteps, f
  <2> QED BY <1>2, <2>1, <2>2 DEF Drain, DrainAwaitedOnly
<1>3. CASE Service
  <2> DEFINE f == Frame("fill", Head(completed), FALSE, Empty)
  <2>1. f \in Frames /\ f.at = "fill" /\ ~f.guarded
    BY <1>3, <1>q, EmptyTable DEF Frame, Frames, BuildSteps, Service
  <2>2. stack[1].at = "drain"
    BY <1>3, <1>h DEF Service
  <2>3. Push(f)
    BY <1>3 DEF Service
  <2> HIDE DEF f
  <2> QED BY <1>q, <2>1, <2>2, <2>3, StackOnPush DEF BuildSteps
<1>4. CASE DrainReturns \/ WaitReturns \/ Built
  BY <1>4, <1>q, StackOnPop DEF DrainReturns, WaitReturns, Built, Inside
<1>5. CASE Fill \/ Upload
  <2>1. \E next \in BuildSteps : stack' = [stack EXCEPT ![1].at = next]
    BY <1>5 DEF Fill, Upload, BuildSteps
  <2>2. stack # <<>> /\ stack[1].at \in BuildSteps
    BY <1>5, <1>h DEF Fill, Upload, BuildSteps
  <2> QED BY <1>q, <2>1, <2>2, StackGoesOn
<1>6. ASSUME NEW r \in Reads, Wait(r) PROVE StackInv'
  <2> DEFINE f == Frame("wait", r, FALSE, Empty)
  <2>1. f \in Frames /\ f.at = "wait"
    BY EmptyTable DEF Frame, Frames, BuildSteps
  <2>2. stack = <<>> \/ stack[1].at = "upload"
    BY <1>6, <1>h DEF Wait
  <2>3. Push(f)
    BY <1>6 DEF Wait
  <2> HIDE DEF f
  <2> QED BY <1>q, <2>1, <2>2, <2>3, StackOnPush DEF BuildSteps
<1>7. ASSUME NEW r, Ask(r) \/ Deliver(r) PROVE UNCHANGED stack
  BY <1>7 DEF Ask, Deliver
<1> QED BY <1>1, <1>2, <1>3, <1>4, <1>5, <1>6, <1>7 DEF ClientStreams, WorkerStreams
(***************************************************************************)
(* The table                                                               *)
(***************************************************************************)
\* Once cleared, the table is empty whenever no build is under way.
TableInv ==
  cleared => /\ "upload" \in armed
             /\ Building = {} \/ Inside("built") => table = Empty

\* No build is under way if none is on top and none is below.
LEMMA NoBuildOnPush ==
  ASSUME stack \in Seq(Frames), NEW f \in Frames, Push(f), Building' = {}
  PROVE  Building = {}
<1>1. /\ Len(stack) \in Nat /\ Len(stack') = Len(stack) + 1
      /\ \A i \in 1..Len(stack) : stack'[i + 1] = stack[i]
      /\ DOMAIN stack = 1..Len(stack) /\ DOMAIN stack' = 1..(Len(stack) + 1)
  <2>1. /\ stack' \in Seq(Frames) /\ Len(stack) \in Nat /\ Len(stack') = Len(stack) + 1
        /\ \A i \in 1..Len(stack) : stack'[i + 1] = stack[i]
    BY PushFacts DEF Push
  <2> QED BY <2>1
<1>2. ASSUME NEW i \in Building PROVE FALSE
  <2>1. i \in 1..Len(stack) /\ i + 1 \in DOMAIN stack' /\ stack'[i + 1] = stack[i]
    BY <1>1 DEF Building
  <2>2. i + 1 \in Building'
    BY <2>1 DEF Building
  <2> QED BY <2>2
<1> QED BY <1>2

LEMMA NoBuildOnPop ==
  ASSUME stack \in Seq(Frames), stack # <<>>, Pop, stack[1].at \notin BuildSteps, Building' = {}
  PROVE  Building = {}
<1>1. /\ stack' \in Seq(Frames) /\ Len(stack) \in Nat /\ Len(stack') = Len(stack) - 1
      /\ \A i \in 1..(Len(stack) - 1) : stack'[i] = stack[i + 1]
  BY PopFacts DEF Pop
<1>2. DOMAIN stack = 1..Len(stack) /\ DOMAIN stack' = 1..(Len(stack) - 1)
  BY <1>1
<1>3. ASSUME NEW i \in Building PROVE FALSE
  <2>1. i \in 1..Len(stack) /\ i # 1 /\ stack[i].at \in BuildSteps
    BY <1>2 DEF Building, BuildSteps
  <2>2. i - 1 \in 1..(Len(stack) - 1) /\ stack'[i - 1] = stack[i]
    BY <1>1, <2>1
  <2>3. i - 1 \in Building'
    BY <1>2, <2>1, <2>2 DEF Building, BuildSteps
  <2> QED BY <2>3
<1> QED BY <1>3

\* Of the frame below a build nothing is "built".
LEMMA NotBuiltBelow ==
  ASSUME stack \in Seq(Frames), StackInv, stack # <<>>, Pop
  PROVE  ~Inside("built")'
<1> SUFFICES ASSUME stack' # <<>>, Head(stack').at = "built" PROVE FALSE
  BY DEF Inside
<1>1. /\ stack' \in Seq(Frames) /\ Len(stack) \in Nat /\ Len(stack') = Len(stack) - 1
      /\ \A i \in 1..(Len(stack) - 1) : stack'[i] = stack[i + 1]
  BY PopFacts DEF Pop
<1>2. Len(stack') > 0 /\ Head(stack') = stack'[1]
  BY <1>1, PopFacts
<1>3. 2 \in DOMAIN stack /\ stack[2].at = "built"
  BY <1>1, <1>2
<1> QED BY <1>3 DEF StackInv, BuildSteps

\* A step that is not a build's own leaves one of three stacks.
Pushes ==
  \E f \in Frames :
    /\ Push(f) /\ f.at # "built" /\ (f.at \in BuildSteps => f.at = "fill")
    /\ UNCHANGED <<table, cleared>>

LEMMA StepKinds ==
  ASSUME QueueInv, StackInv, ClientStreams \/ WorkerStreams
  PROVE  \/ UNCHANGED <<stack, table, cleared>>
         \/ Pushes
         \/ DrainReturns \/ WaitReturns
         \/ Fill \/ Upload \/ Built
<1>q. stack \in Seq(Frames) /\ table \in [Mips -> Reads \cup {"none"}]
      /\ awaited \in Reads \cup {"none"} /\ completed \in Seq(Reads)
  BY DEF QueueInv
<1>1. CASE Drain
  <2>1. UNCHANGED <<table, cleared>>
    BY <1>1 DEF Drain
  <2>2. CASE Push(Frame("fill", awaited, TRUE, table))
    <3>1. /\ Frame("fill", awaited, TRUE, table) \in Frames
          /\ Frame("fill", awaited, TRUE, table).at = "fill"
      BY <1>q DEF Frame, Frames, BuildSteps
    <3> QED BY <2>1, <2>2, <3>1 DEF Pushes
  <2>3. CASE Push(Frame("drain", "none", "drain" \in armed, Empty))
    <3>1. /\ Frame("drain", "none", "drain" \in armed, Empty) \in Frames
          /\ Frame("drain", "none", "drain" \in armed, Empty).at = "drain"
      BY EmptyTable DEF Frame, Frames, BuildSteps
    <3> QED BY <2>1, <2>3, <3>1 DEF Pushes, BuildSteps
  <2> QED BY <1>1, <2>1, <2>2, <2>3 DEF Drain, DrainAwaitedOnly
<1>2. CASE Service
  <2>1. Head(completed) \in Reads
    BY <1>2, <1>q DEF Service
  <2>2. /\ Frame("fill", Head(completed), FALSE, Empty) \in Frames
        /\ Frame("fill", Head(completed), FALSE, Empty).at = "fill"
    BY <2>1, EmptyTable DEF Frame, Frames, BuildSteps
  <2> QED BY <1>2, <2>2 DEF Service, Pushes
<1>3. ASSUME NEW r \in Reads, Wait(r) PROVE Pushes
  <2>1. /\ Frame("wait", r, FALSE, Empty) \in Frames
        /\ Frame("wait", r, FALSE, Empty).at = "wait"
    BY EmptyTable DEF Frame, Frames, BuildSteps
  <2> QED BY <1>3, <2>1 DEF Wait, Pushes, BuildSteps
<1>4. ASSUME NEW r, Ask(r) \/ Deliver(r) PROVE UNCHANGED <<stack, table, cleared>>
  BY <1>4 DEF Ask, Deliver
<1> QED BY <1>1, <1>2, <1>3, <1>4 DEF ClientStreams, WorkerStreams

LEMMA TableStep ==
  ASSUME QueueInv, StackInv, TableInv, ClientStreams \/ WorkerStreams, armed' = armed
  PROVE  TableInv'
<1>q. stack \in Seq(Frames)
  BY DEF QueueInv
<1>h. ASSUME NEW at, Inside(at) PROVE stack # <<>> /\ stack[1].at = at /\ 1 \in DOMAIN stack
  BY <1>q, <1>h, PopFacts DEF Inside
<1>1. CASE UNCHANGED <<stack, table, cleared>>
  BY <1>1 DEF TableInv, Building, Inside
<1>2. CASE Pushes
  <2>1. PICK f \in Frames : Push(f) /\ f.at # "built"
    BY <1>2 DEF Pushes
  <2>2. ~Inside("built")'
    <3>1. stack'[1] = f /\ stack' \in Seq(Frames) /\ Len(stack') = Len(stack) + 1 /\ Len(stack) \in Nat
      BY <1>q, <2>1, PushFacts DEF Push
    <3>2. stack' # <<>> => Head(stack') = f
      BY <3>1, PopFacts
    <3> QED BY <2>1, <3>2 DEF Inside
  <2>3. Building' = {} => Building = {}
    BY <1>q, <2>1, NoBuildOnPush
  <2> QED BY <1>2, <2>2, <2>3 DEF TableInv, Pushes
<1>3. CASE DrainReturns \/ WaitReturns
  <2>1. stack # <<>> /\ stack[1].at \notin BuildSteps /\ Pop /\ UNCHANGED <<table, cleared>>
    BY <1>3, <1>h DEF DrainReturns, WaitReturns, BuildSteps
  <2>2. ~Inside("built")' /\ (Building' = {} => Building = {})
    BY <1>q, <2>1, NotBuiltBelow, NoBuildOnPop
  <2> QED BY <2>1, <2>2 DEF TableInv
<1>4. CASE Fill
  <2>1. /\ stack # <<>> /\ stack[1].at = "fill" /\ 1 \in DOMAIN stack
        /\ stack' = [stack EXCEPT ![1].at = "upload"]
    BY <1>4, <1>h DEF Fill
  <2>2. Building' = Building /\ stack'[1].at = "upload" /\ stack' \in Seq(Frames)
    BY <1>q, <2>1, BuildGoesOn DEF BuildSteps
  <2>3. 1 \in Building
    BY <2>1 DEF Building
  <2>4. ~Inside("built")'
    <3>1. stack' # <<>> => Head(stack') = stack'[1]
      BY <2>2, PopFacts
    <3> QED BY <2>2, <3>1 DEF Inside
  <2> QED BY <1>4, <2>2, <2>3, <2>4 DEF TableInv, Fill
<1>5. CASE Upload
  BY <1>5 DEF TableInv, Upload
<1>6. CASE Built
  <2>1. stack # <<>> /\ stack[1].at = "built" /\ 1 \in DOMAIN stack /\ Pop /\ Head(stack) = stack[1]
        /\ cleared' = cleared
    BY <1>6, <1>h, <1>q, PopFacts DEF Built
  <2>2. ~Inside("built")'
    BY <1>q, <2>1, NotBuiltBelow
  <2>3. CASE stack[1].guarded
    <3>1. 1 + 2 \in DOMAIN stack /\ stack[1 + 2].at = "upload"
      BY <2>1, <2>3 DEF StackInv, BuildSteps
    <3>2. /\ stack' \in Seq(Frames) /\ Len(stack) \in Nat /\ Len(stack') = Len(stack) - 1
          /\ \A i \in 1..(Len(stack) - 1) : stack'[i] = stack[i + 1]
      BY <1>q, <2>1, PopFacts DEF Pop
    <3>3. 2 \in DOMAIN stack' /\ stack'[2].at = "upload"
      BY <1>q, <3>1, <3>2
    <3>4. 2 \in Building'
      BY <3>3 DEF Building
    <3> QED BY <2>1, <2>2, <3>4 DEF TableInv
  <2>4. CASE ~stack[1].guarded
    <3>1. table' = table
      BY <1>6, <2>1, <2>4 DEF Built
    <3>2. Inside("built")
      BY <1>6 DEF Built
    <3> QED BY <2>1, <3>1, <3>2 DEF TableInv
  <2> QED BY <2>3, <2>4
<1> QED BY <1>1, <1>2, <1>3, <1>4, <1>5, <1>6, StepKinds
(***************************************************************************)
(* Inside the detoured service                                             *)
(***************************************************************************)
\* The table when a build with read r has filled it.
Over(r, t) == [m \in Mips |-> IF m \in Filled[r] THEN r ELSE t[m]]
Own(r) == Over(r, Empty)

\* A build runs; it alone, once the table has been cleared, is in the table.
Alone ==
  /\ Len(stack) = 2 /\ stack[1].at \in BuildSteps /\ ~stack[1].guarded
  /\ cleared => /\ stack[1].at = "fill" => table = Empty
                /\ stack[1].at = "upload" => table = Own(stack[1].read)

\* The same build waits, below n - 2 frames.
Suspended(n) ==
  /\ Len(stack) = n /\ stack[n - 1].at = "upload" /\ ~stack[n - 1].guarded
  /\ stack[n - 2].at = "wait"

Waits == Suspended(3) /\ (cleared => table = Own(stack[2].read))

\* The awaited build runs over it.
Nested ==
  /\ Suspended(4) /\ stack[1].at \in BuildSteps /\ stack[1].guarded
  /\ cleared => /\ stack[1].saved = Own(stack[3].read)
                /\ stack[1].at = "fill" => table = Own(stack[3].read)
                /\ stack[1].at = "upload" => table = Over(stack[1].read, Own(stack[3].read))

SerialInv == Serialized => Len(stack) = 1 \/ Alone \/ Waits \/ Nested

\* What is outermost stays so, until nothing is left.
LEMMA OutermostOnPush ==
  ASSUME stack \in Seq(Frames), stack # <<>>, NEW f \in Frames, Push(f), Serialized'
  PROVE  Serialized
<1>1. /\ stack' \in Seq(Frames) /\ Len(stack) \in Nat /\ Len(stack) > 0
      /\ Len(stack') = Len(stack) + 1 /\ \A i \in 1..Len(stack) : stack'[i + 1] = stack[i]
  BY PushFacts, PopFacts DEF Push
<1>2. stack'[Len(stack')] = stack[Len(stack)]
  BY <1>1
<1> QED BY <1>2 DEF Serialized

LEMMA OutermostOnPop ==
  ASSUME stack \in Seq(Frames), stack # <<>>, Pop, Serialized'
  PROVE  Serialized /\ Len(stack) > 1
<1>1. /\ stack' \in Seq(Frames) /\ Len(stack) \in Nat /\ Len(stack') = Len(stack) - 1
      /\ \A i \in 1..(Len(stack) - 1) : stack'[i] = stack[i + 1]
  BY PopFacts DEF Pop
<1>2. stack' # <<>>
  BY DEF Serialized
<1>3. Len(stack') > 0
  BY <1>1, <1>2, EmptySeq
<1>4. stack'[Len(stack')] = stack[Len(stack)]
  BY <1>1, <1>3
<1> QED BY <1>1, <1>3, <1>4 DEF Serialized

LEMMA SerialOnDrain ==
  ASSUME QueueInv, StackInv, TableInv, SerialInv, Drain, Serialized'
  PROVE  Len(stack') = 1 \/ Alone' \/ Waits' \/ Nested'
<1>q. stack \in Seq(Frames) /\ table \in [Mips -> Reads \cup {"none"}]
      /\ awaited \in Reads \cup {"none"}
  BY DEF QueueInv
<1>u. UNCHANGED <<table, cleared>>
  BY DEF Drain
<1>1. CASE stack = <<>>
  <2>1. ~(Depth > 0)
    BY <1>q, <1>1, DepthFacts
  <2>2. Push(Frame("drain", "none", "drain" \in armed, Empty))
    BY <2>1 DEF Drain
  <2>3. Frame("drain", "none", "drain" \in armed, Empty) \in Frames
    BY EmptyTable DEF Frame, Frames, BuildSteps
  <2>4. Len(stack') = Len(stack) + 1 /\ Len(stack) = 0
    BY <1>q, <1>1, <2>2, <2>3, PushFacts DEF Push
  <2> QED BY <2>4
<1>2. CASE stack # <<>>
  <2>1. Inside("wait") /\ stack[1].at = "wait" /\ DOMAIN stack = 1..Len(stack) /\ Len(stack) > 0
        /\ Len(stack) \in Nat
    BY <1>q, <1>2, PopFacts DEF Drain, Inside
  <2>2. Serialized
    <3>1. CASE UNCHANGED stack
      BY <3>1 DEF Serialized
    <3>2. CASE Push(Frame("fill", awaited, TRUE, table))
      <4>1. Frame("fill", awaited, TRUE, table) \in Frames
        BY <1>q DEF Frame, Frames, BuildSteps
      <4> QED BY <1>q, <1>2, <3>2, <4>1, OutermostOnPush
    <3>3. CASE Push(Frame("drain", "none", "drain" \in armed, Empty))
      <4>1. Frame("drain", "none", "drain" \in armed, Empty) \in Frames
        BY EmptyTable DEF Frame, Frames, BuildSteps
      <4> QED BY <1>q, <1>2, <3>3, <4>1, OutermostOnPush
    <3> QED BY <3>1, <3>2, <3>3 DEF Drain, DrainAwaitedOnly
  <2>3. stack[Len(stack)].at = "drain" /\ stack[Len(stack)].guarded
    BY <2>2 DEF Serialized
  <2>4. Waits
    <3>1. Len(stack) # 1
      BY <2>1, <2>3
    <3>2. ~Alone /\ ~Nested
      BY <2>1 DEF Alone, Nested, BuildSteps
    <3> QED BY <2>2, <3>1, <3>2 DEF SerialInv
  <2>5. Len(stack) \in DOMAIN stack
    BY <2>1
  <2>6. "drain" \in armed /\ Depth > 0
    BY <1>q, <2>3, <2>5, DepthFacts DEF StackInv
  <2>7. CASE UNCHANGED stack
    BY <1>u, <2>4, <2>7 DEF Waits, Suspended
  <2>8. CASE Push(Frame("fill", awaited, TRUE, table))
    <3> DEFINE f == Frame("fill", awaited, TRUE, table)
    <3>1. f \in Frames /\ f.at = "fill" /\ f.guarded /\ f.saved = table
      BY <1>q DEF Frame, Frames, BuildSteps
    <3> HIDE DEF f
    <3>2. /\ Len(stack) = 3 /\ stack[2].at = "upload" /\ ~stack[2].guarded
          /\ cleared => table = Own(stack[2].read)
      BY <2>4 DEF Waits, Suspended
    <3>3. /\ Len(stack') = 3 + 1 /\ stack'[1] = f
          /\ \A i \in 1..3 : stack'[i + 1] = stack[i]
      <4>1. Push(f)
        BY <2>8 DEF f
      <4>2. /\ Len(stack') = Len(stack) + 1 /\ stack'[1] = f
            /\ \A i \in 1..Len(stack) : stack'[i + 1] = stack[i]
        BY <1>q, <3>1, <4>1, PushFacts DEF Push
      <4> QED BY <3>2, <4>2
    <3>4. Len(stack') = 4 /\ stack'[3] = stack[2] /\ stack'[2] = stack[1]
      BY <3>3
    <3>5. Suspended(4)'
      BY <2>1, <3>2, <3>4 DEF Suspended
    <3>7. cleared' => /\ stack'[1].saved = Own(stack'[3].read)
                      /\ table' = Own(stack'[3].read)
      BY <1>u, <3>1, <3>2, <3>3, <3>4
    <3>8. stack'[1].at = "fill" /\ stack'[1].guarded
      BY <3>1, <3>3
    <3> QED BY <3>5, <3>7, <3>8 DEF Nested, BuildSteps, Own, Over, Empty
  <2> QED BY <2>6, <2>7, <2>8 DEF Drain, DrainAwaitedOnly
<1> QED BY <1>1, <1>2

LEMMA SerialOnService ==
  ASSUME QueueInv, StackInv, TableInv, SerialInv, Service, Serialized'
  PROVE  Alone'
<1>q. stack \in Seq(Frames) /\ completed \in Seq(Reads)
  BY DEF QueueInv
<1> DEFINE f == Frame("fill", Head(completed), FALSE, Empty)
<1>1. f \in Frames /\ f.at = "fill" /\ ~f.guarded
  BY <1>q, EmptyTable DEF Frame, Frames, BuildSteps, Service
<1>2. Push(f) /\ UNCHANGED <<table, cleared>>
  BY DEF Service
<1> HIDE DEF f
<1>3. stack # <<>> /\ stack[1].at = "drain"
  BY <1>q, PopFacts DEF Service, Inside
<1>4. Serialized
  BY <1>q, <1>1, <1>2, <1>3, OutermostOnPush
<1>5. Len(stack) = 1
  <2>1. ~Alone /\ ~Waits /\ ~Nested
    BY <1>3 DEF Alone, Waits, Suspended, Nested, BuildSteps
  <2> QED BY <1>4, <2>1 DEF SerialInv
<1>6. Building = {}
  <2>1. DOMAIN stack = {1}
    BY <1>q, <1>5
  <2> QED BY <1>3, <2>1 DEF Building
<1>7. Len(stack') = 2 /\ stack'[1] = f
  BY <1>q, <1>1, <1>2, <1>5, PushFacts DEF Push
<1> QED BY <1>1, <1>2, <1>6, <1>7 DEF Alone, TableInv, BuildSteps, Empty

LEMMA SerialOnPop ==
  ASSUME QueueInv, SerialInv, DrainReturns \/ WaitReturns \/ Built, Serialized'
  PROVE  Len(stack') = 1 \/ Alone' \/ Waits'
<1>q. stack \in Seq(Frames)
  BY DEF QueueInv
<1>1. stack # <<>> /\ Pop /\ cleared' = cleared
  BY DEF DrainReturns, WaitReturns, Built, Inside
<1>2. Serialized /\ Len(stack) > 1
  BY <1>q, <1>1, OutermostOnPop
<1>3. /\ Len(stack) \in Nat /\ Len(stack') = Len(stack) - 1 /\ Head(stack) = stack[1]
      /\ \A i \in 1..(Len(stack) - 1) : stack'[i] = stack[i + 1]
  BY <1>q, <1>1, PopFacts DEF Pop
<1>4. CASE Alone
  BY <1>3, <1>4 DEF Alone
<1>5. CASE Waits
  <2>1. WaitReturns
    BY <1>3, <1>5 DEF Waits, Suspended, DrainReturns, WaitReturns, Built, Inside
  <2>2. table' = table
    BY <2>1 DEF WaitReturns
  <2>3. /\ Len(stack) = 3 /\ stack[2].at = "upload" /\ ~stack[2].guarded
        /\ cleared => table = Own(stack[2].read)
    BY <1>5 DEF Waits, Suspended
  <2>4. Len(stack') = 2 /\ stack'[1] = stack[2]
    BY <1>3, <2>3
  <2>5. cleared' => table' = Own(stack'[1].read)
    BY <1>1, <2>2, <2>3, <2>4
  <2> QED BY <2>3, <2>4, <2>5 DEF Alone, BuildSteps, Own, Over, Empty
<1>6. CASE Nested
  <2>1. Built
    BY <1>3, <1>6 DEF Nested, DrainReturns, WaitReturns, Built, Inside, BuildSteps
  <2>2. table' = stack[1].saved
    BY <1>3, <1>6, <2>1 DEF Built, Nested
  <2>3. /\ Len(stack) = 4 /\ stack[3].at = "upload" /\ ~stack[3].guarded /\ stack[2].at = "wait"
        /\ cleared => stack[1].saved = Own(stack[3].read)
    BY <1>6 DEF Nested, Suspended
  <2>4. Len(stack') = 3 /\ stack'[1] = stack[2] /\ stack'[2] = stack[3]
    BY <1>3, <2>3
  <2>5. cleared' => table' = Own(stack'[2].read)
    BY <1>1, <2>2, <2>3, <2>4
  <2> QED BY <2>3, <2>4, <2>5 DEF Waits, Suspended, Own, Over, Empty
<1>7. Alone \/ Waits \/ Nested
  BY <1>2, <1>3 DEF SerialInv
<1> QED BY <1>4, <1>5, <1>6, <1>7

LEMMA SerialOnBuild ==
  ASSUME QueueInv, SerialInv, Fill \/ Upload, Serialized'
  PROVE  Alone' \/ Nested'
<1>q. stack \in Seq(Frames)
  BY DEF QueueInv
<1>1. /\ stack # <<>> /\ stack[1].at \in BuildSteps /\ Len(stack) \in Nat /\ Len(stack) > 0
      /\ Head(stack) = stack[1]
  BY <1>q, PopFacts DEF Fill, Upload, Inside, BuildSteps
<1>2. PICK next \in BuildSteps : stack' = [stack EXCEPT ![1].at = next]
  BY DEF Fill, Upload, BuildSteps
<1>3. /\ stack' \in Seq(Frames) /\ Len(stack') = Len(stack) /\ Building' = Building
      /\ stack'[1].at = next /\ stack'[1].read = stack[1].read
      /\ stack'[1].guarded = stack[1].guarded /\ stack'[1].saved = stack[1].saved
      /\ \A i \in 2..Len(stack) : stack'[i] = stack[i]
  BY <1>q, <1>1, <1>2, BuildGoesOn
<1>4. Serialized /\ Len(stack) # 1
  <2>1. CASE Len(stack) = 1
    <3>1. stack'[Len(stack')].at = "drain"
      BY DEF Serialized
    <3> QED BY <1>3, <2>1, <3>1 DEF BuildSteps
  <2>2. CASE Len(stack) # 1
    <3>1. stack'[Len(stack')] = stack[Len(stack)]
      BY <1>1, <1>3, <2>2
    <3> QED BY <1>1, <2>2, <3>1 DEF Serialized
  <2> QED BY <2>1, <2>2
<1>5. Alone \/ Nested
  <2>1. ~Waits
    BY <1>1 DEF Waits, Suspended, BuildSteps
  <2> QED BY <1>4, <2>1 DEF SerialInv
<1>6. CASE Fill
  <2>1. /\ cleared' = cleared /\ stack[1].at = "fill" /\ stack'[1].at = "upload"
        /\ table' = Over(stack[1].read, table)
    <3>1. stack[1].at = "fill" /\ next = "upload"
      BY <1>1, <1>2, <1>3, <1>6, PopFacts, <1>q, BuildGoesOn DEF Fill, Inside, BuildSteps
    <3> QED BY <1>1, <1>3, <1>6, <3>1 DEF Fill, Over
  <2>2. CASE Alone
    <3>1. /\ Len(stack') = 2 /\ ~stack'[1].guarded
          /\ cleared' => table' = Own(stack'[1].read)
      BY <1>3, <2>1, <2>2 DEF Alone, Own
    <3> QED BY <2>1, <3>1 DEF Alone, Own, Over, Empty, BuildSteps
  <2>3. CASE Nested
    <3>1. /\ Len(stack') = 4 /\ stack'[3] = stack[3] /\ stack'[2] = stack[2] /\ stack'[1].guarded
      BY <1>3, <2>3 DEF Nested, Suspended
    <3>2. cleared' => /\ stack'[1].saved = Own(stack'[3].read)
                      /\ table' = Over(stack'[1].read, Own(stack'[3].read))
      BY <1>3, <2>1, <2>3, <3>1 DEF Nested
    <3>3. Suspended(4)'
      BY <2>3, <3>1 DEF Nested, Suspended
    <3> QED BY <2>1, <3>1, <3>2, <3>3 DEF Nested, Own, Over, Empty, BuildSteps
  <2> QED BY <1>5, <2>2, <2>3
<1>7. CASE Upload
  <2>1. stack'[1].at = "built"
    <3>1. stack' = [stack EXCEPT ![1].at = "built"]
      BY <1>7 DEF Upload
    <3> QED BY <1>q, <1>1, <3>1, BuildGoesOn DEF BuildSteps
  <2>2. CASE Alone
    BY <1>3, <2>1, <2>2 DEF Alone, BuildSteps
  <2>3. CASE Nested
    <3>1. /\ Len(stack') = 4 /\ stack'[3] = stack[3] /\ stack'[2] = stack[2] /\ stack'[1].guarded
      BY <1>3, <2>3 DEF Nested, Suspended
    <3>2. 1 \in Building /\ 3 \in Building
      BY <1>q, <1>1, <2>3 DEF Nested, Suspended, Building, BuildSteps
    <3>3. Cardinality(Building) # 1
      <4>1. IsFiniteSet(Building)
        <5>1. Building \in SUBSET (1..Len(stack))
          BY <1>q DEF Building
        <5>2. IsFiniteSet(1..Len(stack))
          BY <1>1, FS_Interval
        <5> QED BY <5>1, <5>2, FS_Subset
      <4> QED BY <3>2, <4>1, FS_Singleton
    <3>4. cleared' => cleared
      BY <1>7, <3>3 DEF Upload
    <3>5. cleared' => stack'[1].saved = Own(stack'[3].read)
      BY <1>3, <2>3, <3>1, <3>4 DEF Nested
    <3>6. Suspended(4)'
      BY <2>3, <3>1 DEF Nested, Suspended
    <3> QED BY <2>1, <3>1, <3>5, <3>6 DEF Nested, Own, Over, Empty, BuildSteps
  <2> QED BY <1>5, <2>2, <2>3
<1> QED BY <1>6, <1>7

LEMMA SerialOnWait ==
  ASSUME QueueInv, SerialInv, NEW r \in Reads, Wait(r), Serialized'
  PROVE  Waits'
<1>q. stack \in Seq(Frames)
  BY DEF QueueInv
<1> DEFINE f == Frame("wait", r, FALSE, Empty)
<1>1. f \in Frames /\ f.at = "wait"
  BY EmptyTable DEF Frame, Frames, BuildSteps
<1>2. Push(f) /\ UNCHANGED <<table, cleared>> /\ ~Waiting /\ (stack = <<>> \/ Inside("upload"))
  BY DEF Wait
<1> HIDE DEF f
<1>3. /\ stack' \in Seq(Frames) /\ Len(stack) \in Nat /\ Len(stack') = Len(stack) + 1
      /\ stack'[1] = f /\ \A i \in 1..Len(stack) : stack'[i + 1] = stack[i]
  BY <1>q, <1>1, <1>2, PushFacts DEF Push
<1>4. stack # <<>>
  <2>1. stack = <<>> => stack'[Len(stack')] = f
    BY <1>3
  <2> QED BY <1>1, <2>1 DEF Serialized
<1>5. stack[1].at = "upload" /\ Serialized
  BY <1>q, <1>1, <1>2, <1>4, PopFacts, OutermostOnPush DEF Inside
<1>6. Alone
  <2>1. Len(stack) # 1
    BY <1>5 DEF Serialized
  <2>2. ~Waits
    BY <1>5 DEF Waits, Suspended
  <2>3. ~Nested
    <3>1. Nested => Waiting
      BY <1>q DEF Nested, Suspended, Waiting
    <3> QED BY <1>2, <3>1
  <2> QED BY <1>5, <2>1, <2>2, <2>3 DEF SerialInv
<1>7. Len(stack') = 3 /\ stack'[2] = stack[1]
  BY <1>3, <1>6 DEF Alone
<1>8. ~stack'[2].guarded /\ (cleared' => table' = Own(stack'[2].read))
  <2>1. cleared' = cleared /\ table' = table
    BY <1>2
  <2> QED BY <1>5, <1>6, <1>7, <2>1 DEF Alone
<1>9. Suspended(3)'
  <2>1. stack'[1].at = "wait" /\ stack'[2].at = "upload" /\ ~stack'[2].guarded
    BY <1>1, <1>3, <1>5, <1>7, <1>8
  <2> QED BY <1>7, <2>1 DEF Suspended
<1> QED BY <1>8, <1>9 DEF Waits, Own, Over, Empty

LEMMA SerialStep ==
  ASSUME QueueInv, StackInv, TableInv, SerialInv, ClientStreams \/ WorkerStreams
  PROVE  SerialInv'
<1> SUFFICES ASSUME Serialized' PROVE Len(stack') = 1 \/ Alone' \/ Waits' \/ Nested'
  BY DEF SerialInv
<1>1. ASSUME NEW r, Ask(r) \/ Deliver(r) PROVE Len(stack') = 1 \/ Alone' \/ Waits' \/ Nested'
  <2>1. UNCHANGED <<stack, table, cleared>>
    BY <1>1 DEF Ask, Deliver
  <2> QED BY <2>1 DEF SerialInv, Serialized, Alone, Waits, Nested, Suspended, Own, Over, Empty
<1> QED BY <1>1, SerialOnDrain, SerialOnService, SerialOnPop, SerialOnBuild, SerialOnWait
        DEF ClientStreams, WorkerStreams

StreamInv == QueueInv /\ StackInv /\ TableInv /\ SerialInv

LEMMA StreamStart == StreamInit => StreamInv
<1> SUFFICES ASSUME StreamInit PROVE StreamInv
  OBVIOUS
<1> USE DEF StreamInit
<1>1. Cardinality({}) = 0 /\ IsFiniteSet({}) /\ Len(<<>>) = 0
  BY FS_EmptySet
<1>2. Building = {}
  BY DEF Building
<1>3. QueueInv
  BY <1>1, <1>2, EmptyTable DEF QueueInv, NoReadIsLost, Members
<1> QED BY <1>3 DEF StreamInv, StackInv, TableInv, SerialInv, Serialized

LEMMA StreamStepKeeps ==
  ASSUME StreamingAssumption, StreamInv, ClientStreams \/ WorkerStreams, armed' = armed
  PROVE  StreamInv'
BY QueueStep, StackStep, TableStep, SerialStep DEF StreamInv

\* What is armed meanwhile does no harm.
LEMMA StreamStutters ==
  ASSUME StreamInv, UNCHANGED streamvars, armed \subseteq armed'
  PROVE  StreamInv'
<1> USE DEF streamvars
<1>1. QueueInv'
  BY DEF StreamInv, QueueInv, NoReadIsLost, Members, Building
<1>2. StackInv'
  BY DEF StreamInv, StackInv
<1>3. TableInv'
  BY DEF StreamInv, TableInv, Building, Inside, Empty
<1>4. SerialInv'
  BY DEF StreamInv, SerialInv, Serialized, Alone, Waits, Nested, Suspended, Own, Over, Empty
<1> QED BY <1>1, <1>2, <1>3, <1>4 DEF StreamInv

LEMMA StreamMeansLive ==
  ASSUME StreamInv
  PROVE  UploadsReadLiveData
<1> SUFFICES ASSUME Serialized, cleared, Inside("upload"), NEW m \in Mips
             PROVE  IF m \in Filled[Head(stack).read] THEN table[m] = Head(stack).read
                    ELSE table[m] \in {"none"} \cup {stack[i].read : i \in Building}
  BY DEF UploadsReadLiveData
<1>q. stack \in Seq(Frames)
  BY DEF StreamInv, QueueInv
<1>1. stack # <<>> /\ stack[1].at = "upload" /\ Head(stack) = stack[1]
  BY <1>q, PopFacts DEF Inside
<1>2. Alone \/ Nested
  <2>1. Len(stack) # 1
    BY <1>1 DEF Serialized
  <2>2. ~Waits
    BY <1>1 DEF Waits, Suspended
  <2> QED BY <2>1, <2>2 DEF StreamInv, SerialInv
<1>3. CASE Alone
  BY <1>1, <1>3 DEF Alone, Own, Over, Empty
<1>4. CASE Nested
  <2>1. table = Over(stack[1].read, Own(stack[3].read))
    BY <1>1, <1>4 DEF Nested
  <2>2. 3 \in Building
    BY <1>q, <1>4 DEF Nested, Suspended, Building
  <2> QED BY <1>1, <2>1, <2>2 DEF Own, Over, Empty
<1> QED BY <1>2, <1>3, <1>4

(***************************************************************************)
(* The queue of reads, under everything the core does                      *)
(***************************************************************************)
\* Only what MinHook has a hook for is armed, so that nothing is ever disarmed.
ArmedInv == armed \subseteq patched

LEMMA HookStepsArm ==
  ASSUME ArmedInv, NEW h, NEW x,
         Install(h, x) \/ Patch(h, x) \/ Store(h) \/ Arm
  PROVE  ArmedInv' /\ armed \subseteq armed'
BY DEF Install, Patch, Store, Arm, ArmedInv, hookvars

LEMMA RunArms ==
  ASSUME ArmedInv, NEW h \in Threads, Run(h)
  PROVE  ArmedInv' /\ armed \subseteq armed'
<1>1. CASE UNCHANGED hookvars
  BY <1>1 DEF hookvars, ArmedInv
<1>2. (\E x : Install(h, x) \/ Patch(h, x)) \/ Store(h) \/ Arm \/ UNCHANGED hookvars
  BY DEF Run, DoInstall, DoEnable, DoPatch, DoArm, DoStore, DoReserve, DoSpawn, DoWait, DoPublish,
         DoGet, DoRegister, Decline
<1> QED
  BY <1>1, <1>2, HookStepsArm

\* Nothing else touches the hooks, and only Streams the reads.
LEMMA OthersAndHooks ==
  EnterInit \/ LoadExtensions \/ EnterOther \/ Device \/ Proceed \/ Files \/ Buffers \/ Streams
  => UNCHANGED hookvars
BY DEF EnterInit, LoadExtensions, EnterOther, Device, Proceed, Files, Buffers, Streams, hookvars

LEMMA OthersAndStreams ==
  (\E h \in Threads : Run(h))
    \/ EnterInit \/ LoadExtensions \/ EnterOther \/ Device \/ Proceed \/ Files \/ Buffers
  => UNCHANGED streamvars
BY DEF Run, DoInstall, DoEnable, DoPatch, DoArm, DoStore, DoReserve, DoSpawn, DoWait, DoPublish,
       DoGet, DoRegister, Decline, EnterInit, LoadExtensions, EnterOther, Device, Proceed, Files,
       Buffers, streamvars

LEMMA StreamInvariant == Spec => [](ArmedInv /\ StreamInv)
<1>1. Init => ArmedInv /\ StreamInv
  BY StreamStart DEF Init, HookInit, ArmedInv
<1>2. ArmedInv /\ StreamInv /\ [Next]_vars => ArmedInv' /\ StreamInv'
  <2> SUFFICES ASSUME ArmedInv, StreamInv, [Next]_vars PROVE ArmedInv' /\ StreamInv'
    OBVIOUS
  <2>1. UNCHANGED hookvars => armed' = armed /\ ArmedInv'
    BY DEF hookvars, ArmedInv
  <2>2. CASE \E h \in Threads : Run(h)
    BY <2>2, RunArms, OthersAndStreams, StreamStutters
  <2>3. CASE EnterInit \/ LoadExtensions \/ EnterOther \/ Device \/ Proceed \/ Files \/ Buffers
    BY <2>1, <2>3, OthersAndHooks, OthersAndStreams, StreamStutters
  <2>4. CASE Streams
    <3>1. ClientStreams \/ WorkerStreams
      BY <2>4 DEF Streams
    <3> QED
      BY <2>1, <2>4, <3>1, OthersAndHooks, StreamingAssumption, StreamStepKeeps
  <2>5. CASE UNCHANGED vars
    BY <2>1, <2>5, StreamStutters DEF vars
  <2> QED
    BY <2>2, <2>3, <2>4, <2>5 DEF Next
<1> QED
  BY <1>1, <1>2, PTL DEF Spec

\* Whatever is awaited is still on its way, and pending counts what there is,
\* whoever services the queue and however deep.
THEOREM ReadsAreNeverLost == Spec => []NoReadIsLost
<1>1. StreamInv => NoReadIsLost
  BY DEF StreamInv, QueueInv
<1> QED
  BY <1>1, StreamInvariant, PTL

\* An upload inside a detoured service finds its own data, and no freed one.
THEOREM UploadsStayLive == Spec => []UploadsReadLiveData
BY StreamInvariant, StreamMeansLive, PTL
=============================================================================
