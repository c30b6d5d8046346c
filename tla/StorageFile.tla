---------------------------- MODULE StorageFile ----------------------------
(***************************************************************************)
(* engine/storage/StorageHook.cpp and runtime/StorageBridge.cpp: a thread  *)
(* of the client opens a file, reads it, moves in it and closes it.  Each  *)
(* of the five functions may be detoured, through a chain of HookChain.    *)
(* Providers and transforms of extensions may answer for the archive: the  *)
(* thread then holds a synthetic handle, which only the detours know.      *)
(* The detours of extensions on these functions are not modelled.          *)
(***************************************************************************)
EXTENDS HookChain

CONSTANTS Sizes       \* sizes of files; 0 is one of them

StorageOps == {"open", "size", "read", "seek", "close"}

ASSUME StorageAssumption == Sizes \subseteq Nat

VARIABLES
  registered,  \* what extensions have registered: "provider", "transform"
  file,        \* the handle that the thread holds
  opening,     \* what OpenDetour does with it
  natives,     \* native handles open
  wild         \* history: native code was given a synthetic handle, or a
               \* detour called an original nobody has set

filevars == <<registered, file, opening, natives, wild>>

NoFile == [kind |-> "none", size |-> 0, pos |-> 0]
Native(n) == [kind |-> "native", size |-> n, pos |-> 0]

FileInit ==
  /\ registered = {} /\ file = NoFile /\ opening = "done" /\ natives = 0 /\ wild = FALSE

\* A call to one of the five functions.
Ours(op) == op \in armed

\* A detour falls through to the native function.
FallThrough(op) == wild' = (wild \/ original[op] = "null")

\* BuildBufferedHandle: a copy of the bytes; a filter may expose fewer.
Synthetic(n) == {[kind |-> "synthetic", size |-> m, pos |-> 0] : m \in 0..n}

\* TryServe, for a name worth intercepting, in no archive of its own: the first
\* provider to claim it.
Provided ==
  /\ "provider" \in registered
  /\ \E n \in Sizes : file' \in Synthetic(n)
  /\ opening' = "done" /\ UNCHANGED <<natives, wild>>

\* The native open; the name may have been redirected, and may not exist.
Opened(next) ==
  \/ /\ \E n \in Sizes : file' = Native(n)
     /\ natives' = natives + 1 /\ opening' = next
  \/ UNCHANGED <<file, natives, opening>>

Open ==
  /\ opening = "done" /\ file = NoFile
  /\ \/ Ours("open") /\ Provided
     \/ Ours("open") /\ FallThrough("open") /\ Opened("sizing")
     \/ ~Ours("open") /\ Opened("done") /\ UNCHANGED wild
  /\ UNCHANGED registered

\* Faulty: a transform that declines leaves the handle where its read left it.
FaultyTransform ==
  /\ opening = "read"
  /\ opening' = "done" /\ UNCHANGED <<registered, file, natives, wild>>

\* TryNativeTransform: an empty file, or a name of no registered suffix, is left
\* alone.  FindClientTransform reads the registry now, not when the open began.
Sizing ==
  /\ opening = "sizing"
  /\ \/ opening' = "done" /\ UNCHANGED wild
     \/ /\ "transform" \in registered /\ FallThrough("size")
        /\ opening' = IF file.size = 0 THEN "done" ELSE "reading"
  /\ UNCHANGED <<registered, file, natives>>

\* The whole file is read; the read may stop short.
Reading ==
  /\ opening = "reading" /\ FallThrough("read")
  /\ \E n \in 0..file.size : file' = [file EXCEPT !.pos = n]
  /\ opening' = "read" /\ UNCHANGED <<registered, natives>>

\* A transform claims the bytes and the native handle is closed, or the native
\* handle is rewound and handed back.
Transform ==
  /\ opening = "read"
  /\ \/ /\ file.pos = file.size /\ FallThrough("close")
        /\ \E n \in Sizes : file' \in Synthetic(n)
        /\ natives' = natives - 1
     \/ /\ FallThrough("seek")
        /\ file' = [file EXCEPT !.pos = 0] /\ UNCHANGED natives
  /\ opening' = "done" /\ UNCHANGED registered

\* Faulty: SeekDetour passes every handle on.
FaultyUse(op) ==
  /\ opening = "done" /\ file # NoFile
  /\ wild' = (wild \/ IF file.kind = "synthetic" THEN ~Ours(op) \/ op = "seek"
                      ELSE Ours(op) /\ original[op] = "null")

\* The client's own calls.  A synthetic handle that meets no detour is taken
\* for a native one; a detour passes a native handle on.
Use(op) ==
  /\ opening = "done" /\ file # NoFile
  /\ wild' = (wild \/ IF file.kind = "synthetic" THEN ~Ours(op)
                      ELSE Ours(op) /\ original[op] = "null")

Least(a, b) == IF a < b THEN a ELSE b

Size == Use("size") /\ UNCHANGED <<registered, file, opening, natives>>

\* ReadDetour copies what is left; so does the archive.
Read ==
  /\ Use("read")
  /\ \E len \in 1..2 : file' = [file EXCEPT !.pos = Least(@ + len, file.size)]
  /\ UNCHANGED <<registered, opening, natives>>

\* SeekDetour clamps the position at both ends.
Clamped(n) == IF n < 0 THEN 0 ELSE Least(n, file.size)
Seek ==
  /\ Use("seek")
  /\ \E base \in {0, file.pos, file.size}, dist \in {-1, 0, 1} :
       file' = [file EXCEPT !.pos = Clamped(base + dist)]
  /\ UNCHANGED <<registered, opening, natives>>

Close ==
  /\ Use("close")
  /\ natives' = IF file.kind = "native" THEN natives - 1 ELSE natives
  /\ file' = NoFile /\ UNCHANGED <<registered, opening>>

\* An extension registers; the client's thread may be opening a file.
Register(what) == registered' = registered \cup {what}

FileStep == Open \/ Sizing \/ Reading \/ Transform \/ Size \/ Read \/ Seek \/ Close

(***************************************************************************)
(* Properties                                                              *)
(***************************************************************************)
\* When OpenDetour hands a handle back it is at the beginning of its file, and
\* the archive's own handle is open exactly when that is the one: a transform
\* that declines, or whose read stops short, leaves no trace (StorageHook.cpp:354).
HandlesAreWhole ==
  [][(opening # "done" /\ opening' = "done") =>
       file'.pos = 0 /\ natives' = IF file'.kind = "native" THEN 1 ELSE 0]_filevars

\* Only while some of the five functions are armed and others are not does a
\* synthetic handle come to native code, or a detour to an original that is not
\* set (StorageHook.hpp:40: "Call once at startup, before EnableAll").
OnlyHalfArmedIsWild ==
  [][(wild' /\ ~wild) => armed \cap StorageOps \notin {{}, StorageOps}]_filevars
=============================================================================
