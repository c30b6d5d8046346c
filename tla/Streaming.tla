----------------------------- MODULE Streaming -----------------------------
(***************************************************************************)
(* client/SFile/Streaming.cpp and client/CGxDevice/Textures.cpp: reads     *)
(* that a worker has completed are serviced on the client's thread, where  *)
(* the completion of a texture fills the one table of mip sources and      *)
(* uploads from it.  An upload may have to wait for another read, and the  *)
(* wait services the queue again, inside the upload.  One detour lets such *)
(* a nested service run the awaited completion only, another clears the    *)
(* table behind each upload.                                               *)
(*                                                                         *)
(* The queue, the wait and the builds are the engine's; a build that waits *)
(* is a completion, and nothing waits while another wait is on, which the  *)
(* engine asserts.  The accesses under the engine's lock are one step.     *)
(***************************************************************************)
EXTENDS HookChain, FiniteSets

CONSTANTS Reads,    \* texture reads
          Mips,     \* slots of the table
          Filled    \* the slots that the texture of each read fills

ASSUME StreamingAssumption == Filled \in [Reads -> SUBSET Mips] /\ "none" \notin Reads

VARIABLES
  reading,   \* reads the worker has yet to complete
  completed, \* the list of completed reads
  serviced,  \* reads whose node is marked as serviced
  awaited,   \* kAwaitedObj
  pending,   \* kPendingCount
  table,     \* the texture whose data each slot points to
  stack,     \* the client's thread: services, builds and waits, innermost first
  cleared    \* history: the table was cleared, with no other build under way

streamvars == <<reading, completed, serviced, awaited, pending, table, stack, cleared>>

Empty == [m \in Mips |-> "none"]

StreamInit ==
  /\ reading = {} /\ completed = <<>> /\ serviced = {} /\ awaited = "none" /\ pending = 0
  /\ table = Empty /\ stack = <<>> /\ cleared = FALSE

Frame(at, read, guarded, saved) == [at |-> at, read |-> read, guarded |-> guarded, saved |-> saved]
Push(f) == stack' = <<f>> \o stack
Pop == stack' = Tail(stack)
Inside(at) == stack # <<>> /\ Head(stack).at = at
Waiting == \E i \in DOMAIN stack : stack[i].at = "wait"
Building == {i \in DOMAIN stack : stack[i].at \in {"fill", "upload", "built"}}

\* g_drainDepth counts the services that came through the detour.
Depth == Cardinality({i \in DOMAIN stack : stack[i].at = "drain" /\ stack[i].guarded})

\* The client asks for a texture, the worker completes its read.
Ask(r) ==
  /\ stack = <<>> /\ r \notin reading \cup Members(completed)
  /\ reading' = reading \cup {r} /\ serviced' = serviced \ {r} /\ pending' = pending + 1
  /\ UNCHANGED <<completed, awaited, table, stack, cleared>>

Deliver(r) ==
  /\ r \in reading /\ reading' = reading \ {r} /\ completed' = Append(completed, r)
  /\ UNCHANGED <<serviced, awaited, pending, table, stack, cleared>>

\* A node is taken from the list and marked; nobody waits for it any more.
Unlinked(r) ==
  \E i \in DOMAIN completed :
    /\ completed[i] = r
    /\ completed' = SubSeq(completed, 1, i - 1) \o SubSeq(completed, i + 1, Len(completed))

TakeNode(r) ==
  /\ Unlinked(r)
  /\ serviced' = serviced \cup {r}
  /\ awaited' = IF awaited = r THEN "none" ELSE awaited

\* Faulty: the wait is not told that its node was taken.
FaultyDrainAwaitedOnly ==
  IF awaited = "none" \/ awaited \notin Members(completed)
  THEN UNCHANGED <<completed, serviced, awaited, stack>>
  ELSE /\ Unlinked(awaited)
       /\ serviced' = serviced \cup {awaited} /\ UNCHANGED awaited
       /\ Push(Frame("fill", awaited, TRUE, table))

\* DrainAwaitedOnly: nothing to do if nothing is awaited, or the read is not
\* there yet; the table is saved for the build that waits.
DrainAwaitedOnly ==
  IF awaited = "none" \/ awaited \notin Members(completed)
  THEN /\ awaited' = IF awaited \in serviced THEN "none" ELSE awaited
       /\ UNCHANGED <<completed, serviced, stack>>
  ELSE TakeNode(awaited) /\ Push(Frame("fill", awaited, TRUE, table))

\* The service, through hkAsyncDrain or not: from a frame, or from a wait.
Drain ==
  /\ stack = <<>> \/ (Inside("wait") /\ awaited # "none")
  /\ IF "drain" \in armed /\ Depth > 0 THEN DrainAwaitedOnly
     ELSE Push(Frame("drain", "none", "drain" \in armed, Empty)) /\ UNCHANGED <<completed, serviced, awaited>>
  /\ UNCHANGED <<reading, pending, table, cleared>>

\* The engine's own service: the next completion, or none any more; it stops
\* early when its time is up.
Service ==
  /\ Inside("drain") /\ completed # <<>>
  /\ TakeNode(Head(completed)) /\ Push(Frame("fill", Head(completed), FALSE, Empty))
  /\ UNCHANGED <<reading, pending, table, cleared>>

DrainReturns ==
  /\ Inside("drain") /\ Pop
  /\ UNCHANGED <<reading, completed, serviced, awaited, pending, table, cleared>>

\* A build writes the slots that its mip chain has.
Fill ==
  /\ Inside("fill")
  /\ table' = [m \in Mips |-> IF m \in Filled[Head(stack).read] THEN Head(stack).read ELSE table[m]]
  /\ stack' = [stack EXCEPT ![1].at = "upload"]
  /\ UNCHANGED <<reading, completed, serviced, awaited, pending, cleared>>

\* kAsyncFileReadWait, from an upload or from a frame.
Wait(r) ==
  /\ stack = <<>> \/ Inside("upload")
  /\ ~Waiting /\ r \in reading \cup Members(completed)
  /\ awaited' = r /\ Push(Frame("wait", r, FALSE, Empty))
  /\ UNCHANGED <<reading, completed, serviced, pending, table, cleared>>

WaitReturns ==
  /\ Inside("wait") /\ awaited = "none" /\ Pop
  /\ UNCHANGED <<reading, completed, serviced, awaited, pending, table, cleared>>

\* Faulty: the table is left as the upload found it.
FaultyUpload ==
  /\ Inside("upload")
  /\ stack' = [stack EXCEPT ![1].at = "built"]
  /\ cleared' = (cleared \/ ("upload" \in armed /\ Cardinality(Building) = 1))
  /\ UNCHANGED <<reading, completed, serviced, awaited, pending, table>>

\* The upload, through hkTexUpdate or not; a fault in it is caught, and the
\* table cleared just the same.
Upload ==
  /\ Inside("upload")
  /\ stack' = [stack EXCEPT ![1].at = "built"]
  /\ table' = IF "upload" \in armed THEN Empty ELSE table
  /\ cleared' = (cleared \/ ("upload" \in armed /\ Cardinality(Building) = 1))
  /\ UNCHANGED <<reading, completed, serviced, awaited, pending>>

\* The completion is over; DrainAwaitedOnly restores the table.
Built ==
  /\ Inside("built") /\ Pop /\ pending' = pending - 1
  /\ table' = IF Head(stack).guarded THEN Head(stack).saved ELSE table
  /\ UNCHANGED <<reading, completed, serviced, awaited, cleared>>

\* What the client's thread does, and the worker.
ClientStreams ==
  \/ Drain \/ Service \/ DrainReturns \/ Fill \/ WaitReturns
  \/ Upload \/ Built
  \/ \E r \in Reads : Ask(r) \/ Wait(r)

WorkerStreams == \E r \in Reads : Deliver(r)

(***************************************************************************)
(* Properties                                                              *)
(***************************************************************************)
\* The thread is inside the engine's service that came through the detour.
Serialized == stack # <<>> /\ LET outer == stack[Len(stack)] IN outer.at = "drain" /\ outer.guarded

\* An upload that runs inside a detoured service finds its own data where it has
\* some, and elsewhere nothing that has been freed: neither a completion that
\* ran while it waited nor a texture before it, with more mips, is seen
\* (Streaming.cpp:38 and Textures.cpp:63), once the table has been cleared.  A
\* nested build may see the build that waits for it, whose data is still there.
UploadsReadLiveData ==
  Serialized /\ cleared /\ Inside("upload") =>
    \A m \in Mips :
      IF m \in Filled[Head(stack).read] THEN table[m] = Head(stack).read
      ELSE table[m] \in {"none"} \cup {stack[i].read : i \in Building}

\* Whatever is awaited is still on its way, so that the wait ends, and the
\* count of outstanding completions is what there is.
NoReadIsLost ==
  /\ awaited # "none" => awaited \in reading \cup Members(completed)
  /\ pending = Cardinality(reading) + Len(completed) + Cardinality(Building)
=============================================================================
