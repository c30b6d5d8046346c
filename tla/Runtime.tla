------------------------------ MODULE Runtime ------------------------------
(***************************************************************************)
(* runtime/Main.cpp and runtime/Extensions.cpp: the core starts in DllMain *)
(* on the client's thread, which later reaches engine initialisation and   *)
(* loads the extensions there; a second thread installs the rest once the  *)
(* graphics device exists.  Both use HookChain.  Extensions then use the   *)
(* arena (ModelArena) and answer file requests (StorageFile); the client's *)
(* thread services its reads (Streaming).                                  *)
(***************************************************************************)
EXTENDS StorageFile, ModelArena, Streaming

CONSTANTS Boot,           \* detours of Boot features
          Features,       \* detours of Normal features
          Installations,  \* bound: what an Extensions directory may hold: the
                          \* operations of each WXL_Load, in the order of the
                          \* folders; part is the folder
          MayTimeOut      \* the device may take longer than MainThread waits

\* The detours that an installation attaches.
Attached(exts) == {o.x : o \in {q \in Members(exts) : q.op = "install"}}

\* A detour is installed once, by one party; each of the five functions of the
\* archive has its one detour, and only the loader and extensions are in front
\* of engine initialisation.
ASSUME RuntimeAssumption ==
  /\ {"client", "main"} \subseteq Threads /\ "client" \in Callers
  /\ StorageOps \cup {"loader"} \subseteq Detours /\ Target["loader"] = "init"
  /\ \A d \in Detours : \A op \in StorageOps : Target[d] = op <=> d = op
  /\ Boot \in Seq(Detours) /\ Features \in Seq(Detours)
  /\ \A ds \in {Boot, Features} : \A i, j \in DOMAIN ds :
       Target[ds[i]] # "init" /\ (ds[i] = ds[j] => i = j)
  /\ \A exts \in Installations :
       /\ exts \in Seq([op : {"install", "publish", "get", "register"},
                        x : {o.x : o \in Members(exts)}, part : {o.part : o \in Members(exts)}])
       /\ \A i, j \in DOMAIN exts :
            /\ exts[i].part # "core"
            /\ exts[i].op = "install" /\ exts[j].op = "install" /\ exts[i].x = exts[j].x => i = j
       /\ Attached(exts) \subseteq Detours
       /\ Attached(exts) \cap (StorageOps \cup {"loader"} \cup Members(Boot) \cup Members(Features)) = {}
  /\ (StorageOps \cup {"loader"}) \cap (Members(Boot) \cup Members(Features)) = {}
  /\ Members(Boot) \cap Members(Features) = {}

VARIABLES
  extensions,  \* what is there
  published,   \* Services()
  found,       \* interfaces that extensions asked for and found
  loaded,      \* EngineInitDetour has loaded them
  device       \* the graphics device exists

vars == <<hookvars, script, calls, filevars, streamvars, arenavars,
          extensions, published, found, loaded, device>>

(***************************************************************************)
(* Scripts                                                                 *)
(***************************************************************************)
Do(op, x) == [op |-> op, x |-> x, part |-> "core"]

InstallAll(ds) == [i \in 1..Len(ds) |-> Do("install", ds[i])]

\* DllMain, under the loader lock: the archive guard, the loader, Boot features.
\* The guard's detour is that of an address nobody else uses and is left out.
DllMain ==
  <<Do("enable", "all"), Do("install", "loader"), Do("reserve", "wxl.m2arena")>>
  \o InstallAll(Boot) \o <<Do("enable", "all"), Do("spawn", "main")>>

\* MainThread: storage::Install, the wait, Normal features.
MainThread ==
  InstallAll(<<"open", "size", "read", "seek", "close">>) \o <<Do("wait", "device")>>
  \o InstallAll(Features) \o <<Do("enable", "all")>>

\* Faulty: nobody arms what the extensions have attached.
FaultyLoadAll(exts) == exts

\* LoadAll, in the order of the names, and EnableAll.
LoadAll(exts) == exts \o <<Do("enable", "all")>>

Init ==
  /\ HookInit /\ CallInit /\ FileInit /\ StreamInit /\ ArenaInit
  /\ script = [h \in Threads |-> IF h = "client" THEN DllMain ELSE <<>>]
  /\ extensions \in Installations
  /\ published = {"wxl.storage"} /\ found = {} /\ loaded = FALSE /\ device = FALSE

runtimevars == <<extensions, published, found, loaded, device>>

(***************************************************************************)
(* Steps of a script                                                       *)
(***************************************************************************)
Alive == ~Crashed /\ ~wild
Ready(h, op) == Alive /\ script[h] # <<>> /\ stores[h] = <<>> /\ Head(script[h]).op = op
Arg(h) == Head(script[h]).x
Next1(h) == script' = [script EXCEPT ![h] = Tail(@)]

\* WXL_Load gives up; what it has attached stays attached, and whatever follows
\* it in the script is next.
GiveUp(h) ==
  \E n \in 1..(Len(script[h]) + 1) :
    /\ \A i \in 1..(n - 1) : script[h][i].part = Head(script[h]).part
    /\ n <= Len(script[h]) => script[h][n].part # Head(script[h]).part
    /\ script' = [script EXCEPT ![h] = SubSeq(@, n, Len(@))]

\* hook::Install from the core, HookAttach from an extension.
DoInstall(h) ==
  /\ Ready(h, "install")
  /\ \/ Install(h, Arg(h)) /\ Next1(h)
     \/ /\ Refused(Arg(h))
        /\ IF Head(script[h]).part = "core" THEN Next1(h) ELSE GiveUp(h)
        /\ UNCHANGED hookvars
  /\ UNCHANGED <<calls, filevars, streamvars, arenavars, runtimevars>>

\* EnableAll: every chain there is, in the order they were created, then MinHook.
DoEnable(h) ==
  /\ Ready(h, "enable")
  /\ script' = [script EXCEPT ![h] =
       [i \in 1..Len(chains) |-> Do("patch", chains[i])] \o <<Do("arm", "all")>> \o Tail(@)]
  /\ UNCHANGED <<hookvars, calls, filevars, streamvars, arenavars, runtimevars>>

DoPatch(h) ==
  /\ Ready(h, "patch") /\ Patch(h, Arg(h)) /\ Next1(h)
  /\ UNCHANGED <<calls, filevars, streamvars, arenavars, runtimevars>>

DoArm(h) ==
  /\ Ready(h, "arm") /\ Arm /\ Next1(h)
  /\ UNCHANGED <<calls, filevars, streamvars, arenavars, runtimevars>>

DoStore(h) == Alive /\ Store(h) /\ UNCHANGED <<filevars, streamvars, arenavars, runtimevars>>

\* ReserveM2Arena publishes its interface whatever comes of the reservation.
DoReserve(h) ==
  /\ Ready(h, "reserve") /\ Next1(h)
  /\ \E can \in BOOLEAN : Reserve(can)
  /\ published' = published \cup {Arg(h)}
  /\ UNCHANGED <<hookvars, calls, filevars, streamvars, extensions, found, loaded, device>>

\* CreateThread.
DoSpawn(h) ==
  /\ Ready(h, "spawn")
  /\ script' = [script EXCEPT ![h] = Tail(@), !["main"] = MainThread]
  /\ UNCHANGED <<hookvars, calls, filevars, streamvars, arenavars, runtimevars>>

\* MainThread waits for the device, for a minute at most.
DoWait(h) ==
  /\ Ready(h, "wait") /\ (device \/ MayTimeOut) /\ Next1(h)
  /\ UNCHANGED <<hookvars, calls, filevars, streamvars, arenavars, runtimevars>>

\* An extension publishes an interface, asks for one, or registers with the
\* storage bridge.
DoPublish(h) ==
  /\ Ready(h, "publish") /\ Next1(h) /\ published' = published \cup {Arg(h)}
  /\ UNCHANGED <<hookvars, calls, filevars, streamvars, arenavars, extensions, found, loaded, device>>

DoGet(h) ==
  /\ Ready(h, "get") /\ Next1(h) /\ found' = found \cup (published \cap {Arg(h)})
  /\ UNCHANGED <<hookvars, calls, filevars, streamvars, arenavars, extensions, published, loaded, device>>

DoRegister(h) ==
  /\ Ready(h, "register") /\ Next1(h) /\ Register(Arg(h))
  /\ UNCHANGED <<hookvars, calls, file, opening, natives, wild, streamvars, arenavars, runtimevars>>

\* LoadOne refuses an extension, or it declines to initialise, at any point.
Decline(h) ==
  /\ Alive /\ script[h] # <<>> /\ stores[h] = <<>> /\ Head(script[h]).part # "core"
  /\ GiveUp(h)
  /\ UNCHANGED <<hookvars, calls, filevars, streamvars, arenavars, runtimevars>>

Run(h) ==
  \/ DoInstall(h) \/ DoEnable(h) \/ DoPatch(h) \/ DoArm(h) \/ DoStore(h) \/ DoReserve(h)
  \/ DoSpawn(h) \/ DoWait(h) \/ DoPublish(h) \/ DoGet(h) \/ DoRegister(h) \/ Decline(h)

(***************************************************************************)
(* The client                                                              *)
(***************************************************************************)
Free == Alive /\ script["client"] = <<>>
Started == \E c \in Callers : calls[c].target = "init" /\ calls[c].at = "engine"

\* Engine initialisation is the first thing the client does, once.
EnterInit ==
  /\ Free /\ ~device /\ Enter("client", "init")
  /\ UNCHANGED <<hookvars, script, filevars, streamvars, arenavars, runtimevars>>

\* EngineInitDetour, in front of everything else on that address.
LoadExtensions ==
  /\ Free /\ calls["client"].at = "loader" /\ ~loaded
  /\ loaded' = TRUE /\ script' = [script EXCEPT !["client"] = LoadAll(extensions)]
  /\ UNCHANGED <<hookvars, calls, filevars, streamvars, arenavars, extensions, published, found, device>>

\* Later the client calls what it likes; engine initialisation brings up the
\* device.
EnterOther ==
  /\ device /\ Free /\ stack = <<>>
  /\ \E t \in Targets \ (StorageOps \cup {"init", "drain", "upload"}) : Enter("client", t)
  /\ UNCHANGED <<hookvars, script, filevars, streamvars, arenavars, runtimevars>>

Device ==
  /\ Alive /\ Started /\ ~device /\ device' = TRUE
  /\ UNCHANGED <<hookvars, script, calls, filevars, streamvars, arenavars,
                 extensions, published, found, loaded>>

Proceed ==
  /\ Free /\ (calls["client"].at = "loader" => loaded)
  /\ \/ Forward("client")
     \/ /\ calls["client"].target = "init" => calls["client"].at = "engine" /\ device
        /\ Return("client")
  /\ UNCHANGED <<hookvars, script, filevars, streamvars, arenavars, runtimevars>>

\* A thread of the engine reads files, which matters once extensions answer for
\* some.
Files ==
  /\ Started \/ device
  /\ Alive /\ registered # {} /\ FileStep
  /\ UNCHANGED <<hookvars, script, calls, streamvars, arenavars, runtimevars>>

\* MainThread has nothing left to do but to arm the detours.
Prepared == \A h \in Threads : \A i \in DOMAIN script[h] : script[h][i].op = "arm"

\* Threads of wxl-m2 allocate.  Bound: from Prepared on, since the arena has
\* nothing to do with the hooks.
Buffers ==
  /\ Alive /\ device /\ Prepared
  /\ "wxl.m2arena" \in found /\ \E u \in Users : UserStep(u)
  /\ UNCHANGED <<hookvars, script, calls, filevars, streamvars, runtimevars>>

\* The client's thread services its reads, between other calls.  Bounds: in a
\* client without extensions, which have no part in it, and from Prepared on,
\* which cannot be told from earlier.
Streams ==
  /\ extensions = <<>> /\ Alive /\ device /\ Prepared
  /\ \/ Free /\ calls["client"] = NoCall /\ ClientStreams
     \/ WorkerStreams
  /\ UNCHANGED <<hookvars, script, calls, filevars, arenavars, runtimevars>>

Next ==
  \/ \E h \in Threads : Run(h)
  \/ EnterInit \/ LoadExtensions \/ EnterOther \/ Device \/ Proceed \/ Files \/ Buffers \/ Streams

Spec == Init /\ [][Next]_vars

(***************************************************************************)
(* Properties                                                              *)
(***************************************************************************)
\* When the engine initialises, everything that extensions attached is armed
\* and every detour of that very address, the extensions' among them, has been
\* met: loading there "makes the ordering a fact instead of a race"
\* (Extensions.cpp:285).
ExtensionsPrecedeEngine ==
  Started /\ ~broken =>
    /\ \A d \in Attached(extensions) : rank[d] > 0 => Target[d] \in armed
    /\ \A c \in Callers : calls[c].target = "init" =>
         Members(links["init"]) \subseteq Members(calls[c].seen)
=============================================================================
