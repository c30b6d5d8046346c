# WoW Companion Screen: models, checks and proofs

This directory is a TLA+ development of the core logic of WoW Companion Screen:
an extension (`extensions/wcs-bridge`) inside the WoW 3.3.5a process that lets
one companion device see the game's state and send input and party requests, the
add-on (`addon/WoWCompanionScreen`) that feeds it, the companion's web client
(`wcs-web`), a gamepad extension (`extensions/wcs-gamepad`) and the runtime that
hosts them (`src/`). Paths below are relative to the repository.

`PROJECT.json` maps every definition to the lines it models, lists the runs, the
hazards and the theorems, and names for every property a faulty variant of the
code that breaks it. Operators called `Faulty...` are those variants; no
specification uses them.

## 1. The system

### Threads and their interaction

* The **game thread** runs everything the client calls: `WcsBridge::OnUpdate`
  every frame, the world and loading callbacks, and the Lua functions the add-on
  calls from its own `OnUpdate` and event handlers.
* The **network thread** is `WebSocketServer::RunImpl`: one loop around a
  `select` of at most 50 ms, with one client at a time.
* They share the atomics `session_`, `connected_`, `disconnect_`, `running_`; the
  queue `outbound_` (its own mutex), the queue `commands_` (`commandMutex_`), the
  `StateStore` (`mutex_`) and the `PairingManager` (`mutex_`). No mutex is held
  across two of them, so the order of the single accesses is what matters.
* The add-on runs on the game thread and is called back synchronously.
* The companion is another program behind a socket: it connects, disappears,
  resends and acts on what it was shown some time ago.
* The controller extension has a polling thread of its own, which shares a
  `ControllerSnapshot` with the game thread's frames under one mutex.
* The runtime starts in `DllMain` on the client's thread, spawns `MainThread`, and
  loads the extensions on the client's thread later; both install hooks.
* Extensions allocate from the model arena on threads of their own; a worker completes
  the client's reads, which are serviced on the client's thread.

### Components

The status is the one in `PROJECT.json`, which also says what each part leaves out.

| component | state | operations | hard behaviour | what makes it correct | module |
|---|---|---|---|---|---|
| WebSocket server | socket, phase, `session_`, `connected_`, `disconnect_`, `outbound_` | accept, hello, auth, pair, receive, drain, closeClient; Send, DisconnectClient, Stop | session boundary against Send, ForgetDevice and Stop; full queues; failing sends | no command of a dead session passes for a live one; revoked sessions end; no update is lost but in the ways the queue and failing sends allow; Stop returns | `WebSocketServer`, `SessionLayer` |
| bridge on the game thread | `commands_`, `partyCommands_`, request IDs, generation counter | OnUpdate, TakePartyCommand, publishing, lifecycle | batches that outlive their session, reloads, loading screens | dead requests are discarded, each is carried out once, on the player that was shown | `WcsBridge` |
| protocol, state store | game state, player, actions, party | Publish..., ValidatePartyCommand | stale party state | a generation names one group | `WcsBridge`, `WebSocketServer` |
| pairing | code, token, failures, block, `pairing.dat` | Initialise, Authenticate, Pair, Forget | failed attempts, failing file operations, process end | durable token, a code whenever unpaired, bounded guesses | `Pairing` |
| input dispatcher | `keys_`, `buttons_` | Dispatch, ReleaseAll | window missing, PostMessage failing, focus lost, refused ReleaseAll | no input of a dead session stays down | `InputDispatcher` |
| web client | sockets, timer, credentials, screen | connect, retry, disconnect, socket callbacks | late callbacks, awaited credentials, two sockets | never without a socket or a timer; the screen is true | `Companion` |
| add-on: party, publishing | signature, generation, last published | State, Tick, PublishParty | group changes seen late, or by no event | acts only in the group the companion was shown | `PartyManagement` |
| add-on: display | hidden frames, pending | Apply, Reconcile | combat lockdown, stock UI that moves the same frames | hidden frames come back | `Display` |
| add-on: controller, navigation | mode, assignments, dirty flag | SyncSystemActions, SetActive | two copies of mode and map, combat, /reload | the copies agree | `ControllerAddon` |
| controller gameplay, polling | snapshot, captured and held actions, mode | Poll, Update, Release, SetActive, Stop | disconnection, focus loss, loading while held | released at once, neutral before it acts again | `Gamepad` |
| hook engine | chains, pointers, MinHook hooks | Install, Relink, EnableAll | insertion into a live chain during calls | detours met in order, the original once | `HookChain` |
| loader, runtime start | scripts of two threads, services | DllMain, MainThread, LoadAll | order of arming; extensions that decline | extensions come before the engine | `Runtime` |
| model arena | free list, committed pages | alloc, free | rounding, merging, commits outside the lock | a partition of the pages | `ModelArena` |
| streaming drain | completed reads, mip table | service, wait, upload | service inside an upload | uploads read live data, no read is lost | `Streaming` |
| storage hooks | handles, providers, transforms | open, read, seek, size, close | half-armed detours, transforms that decline | handles are whole | `StorageFile` |
| overlay, input hook | device, backend objects, open | EnsureDeviceHooks, EndScene, Reset, WndProc | devices replaced, shared vtables, failed Resets | a Reset finds nothing left; no input stays down because the overlay took its release | `Overlay` |
| terrain phases | table, active phase, base map | Set, Clear, tile loader | three variables updated apart | tiles are those of the phase | `Phasing` |
| patcher | `Wow.exe`, its backup | main | ends anywhere, is run again | the backup is the original | `Patcher` |
| JSON codec, smart interact, controller configuration, hook points, offsets, asset conversion | | | | | none, see 7 |

## 2. Modules

`SessionLayer` is **abstract**: numbered sessions of one client and the bounded command
queue they feed, all that the network layer promises the game thread.
`WebSocketServer` implements it under `link <- Link`, checked by TLC and proved.
`WcsBridge` and `InputDispatcher` are composed with `SessionLayer` instead of the
server, so what they are shown to do holds for every server that implements it.

| composition | of | why together |
|---|---|---|
| `WcsBridge` | `SessionLayer`, `PartyManagement` | a request passes the queue, the store and the add-on |
| `Companion` | `Pairing` | the page's sockets compete for the one slot and its credentials; it implements `Pairing` (proved) |
| `ControllerAddon` | `Gamepad` | mode and map are kept on both sides |
| `Runtime` | `HookChain`, `StorageFile`, `ModelArena`, `Streaming` | extensions hook, allocate and serve files; storage and streaming detours are chains of `HookChain` |
| `ClientSide` | `InputDispatcher`, `Overlay`; beside them `Phasing`, `Display`, `Patcher` | the overlay takes messages the dispatcher posts; it implements `InputDispatcher` (proved). The other three are independent of it and of each other: the constant variable `scene` says which one a behaviour is about |

Each `MC...` module holds the constant sets of a run; each `...Proofs` module the
theorems of a composition. Those of `Runtime` are in two: `HookChainProofs` (hooks, scripts
and the order of the start) extends `RuntimeProofs` (arena, handles, streaming).

### WebSocketServer

`npc` is the place in `RunImpl`: `start`, `select`, `read` (the inner loop over frames
stays there), `activate` and `snapshot` (the two halves of `activate`), `deadline`,
`revoked`, `drain`, then the five steps of `closeClient` (`close`, `exchange`, `release`,
`clear`, `reset`), with `resume` the place it returns to, `exit` and `stopped`. `gpc` is
the call the game thread is in: `send`/`push` are the two halves of `Send`, `forget` is
between `PairingManager::Forget` and `DisconnectClient`, `stop`/`joining` are inside `Stop`.

The store is one version number per topic; a message carries the versions it reports, a
snapshot all of them. What the companion shows (`view`) is what `bridgeReducer` does: the
last report of each topic wins. A credential is a number. The HTTP upgrade and the frame
decoder appear by their outcomes: a good frame, a frame that ends the session, nothing. A
second client (`client-busy`), pings, malformed JSON and rejected commands change no state.
Select errors are `LeaveLoop`. `Run`'s handler for an exception (`bad_alloc`) is left out.
History: `lossy` (an update was dropped since the last full snapshot), `carried`
(something was in the queue when the session began), `issued`.

### WcsBridge, PartyManagement

The callback structure of the game thread is kept: `OnUpdate` swaps the queue out and goes
through the batch command by command (`CheckRemove`, `Remove`, `Forward`, `Input`,
`DoReleaseAll`); the add-on's `Tick` is `TakePartyCommand` followed by the live checks, the
stock call and `PublishParty`. Between any two of these the network thread may end the
session and begin another. The live group is external and changes whenever the game thread
is between callbacks. Generations are numbers; the process epoch that prefixes them is
constant within a process. Party results, `activePartyRequest_` and `party.select` (which
changes the target only) are left out, and so are pointer moves, which merge in `Enqueue`,
hold nothing and never make the queue longer. History: `published`, every party state there
ever was, and `done`, what was carried out, with the group as it was at that moment.

### Pairing, Companion

`Pairing` has one action per outcome of each call; `saving`, `saved` and `deleting` are the
places inside `Save` and `Forget` where the process may end. Start may fail to read or decrypt
the file and then starts unpaired, as `Load` does. A random generator that fails is left out.
`guesses` (history) counts, per code, the wrong codes it was compared with; the attempt that
rotates a code is still compared with the old one. `Companion` keeps a set of sockets with
their unhandled events: a browser runs one callback at a time, but a handler that awaits the
credential store goes on after its socket was replaced, and a closed socket's `onclose` comes
late. `serving` is the server's one slot, `phase` what it expects of its client; `stale` is a
client that is gone without the server's knowledge. `leaked` counts timers whose handle was
overwritten. `open()` also schedules a reconnect when the constructor of the socket throws
(`WcsBridgeClient.ts:85`); that path is left out, since it does no more than an `onclose` that
comes at once.

### Gamepad, ControllerAddon

A sample is what a poll reads: the buttons that are down, the sticks past their threshold, the
trigger that selects the layer. What is pressed and released at once holds nothing and is left
out. `fresh` stands for the comparison of the two generation numbers. A frame handles its
buttons in one step, because nothing `Dispatch` calls comes back into the extension. `rest`
(history) is `unseen` after every interruption, until a frame finds the controls at rest:
`seen`, or `presumed` if the state it found is the one `SelectBackend` publishes before the
first poll (`polled`, also history). In `ControllerAddon` a frame, a tick of the add-on and a
game event are steps; `navActive` and `uiNavigation` are the two copies of the mode,
`syncDirty` and `map` the two ends of the synchronisation; `diverged` (history) is set when the
native mode changes, or the add-on restarts, without the other's being told.

### Runtime, HookChain, StorageFile, ModelArena, Streaming

A thread runs a `script`, the list of operations its function would make; `LoadAll` puts the
operations of each extension's `WXL_Load` (its folder is `part`) in the client thread's script,
and an extension may decline at any of them (`GiveUp`), leaving behind what it attached; the
next folder's operations follow. `Relink`'s stores are steps of their own, so that a call may
read the pointers between any two. `wild` records that native code was given a synthetic
handle, or that a detour found a null original. In `ModelArena` a range is neither free nor
usable while its pages are committed or decommitted outside the mutex. In `Streaming` `stack`
is the client thread's nest of services, builds and waits; `Serialized` and `cleared` say from
when on the two detours have been in place. A wait is for a read under way, so the branch for a
read that was serviced before (`Streaming.cpp:145`) is not reached; a fault that unwinds from a
nested build past `DrainAwaitedOnly` to an outer upload (`Textures.cpp:52`), which would leave
the count of outstanding completions too high and the table cleared instead of restored, is not
modelled, and `UploadsReadLiveData` says nothing of an upload in a service that a frame's own
wait runs outside the detour. Storage, arena and streaming use begin once the runtime is
`Prepared`.

### ClientSide: InputDispatcher, Overlay, Phasing, Display, Patcher

`held` is `keys_` and `buttons_`. Each press or release may have no effect (no window,
`PostMessage` refused, WoW not in the foreground), independently, so `Outcomes` is the set of
everything a command can leave behind. `stuck` and `refused` record the two ways in which the
code gives up: a ReleaseAll that could not reach the window, and one refused by a full queue,
which `closeClient` does not notice. `game` is what the client takes for held, after the
overlay took its share: `WndProc` handles the messages of one command, and `OnInput` takes the
toggle's way up in any case (F9, `ToggleKey`, which is one of the dispatcher's inputs too) and,
while the overlay is ready and open, whichever messages ImGui wants. A posted message is
handled before the next is looked at. `swallowed` (history) has the inputs of which an open
overlay took the release. A device is its address, which a later device may be given again;
`hookedDevice` is compared with it as the code does, `patched` is the truth. A map is its name,
a tile where it was loaded from. `Display` has one frame per kind the code treats alike, each
with its alpha, what was saved when it was hidden, and a stock interface that changes it too. A
file of `Patcher` is a build and the set of edits it has; CopyFile is two steps, between which
the process may end.

## 3. Runs

Every run explores its instance completely. `CHECK_DEADLOCK FALSE` everywhere: the bounds
stop the models, and the server, the page and the process may end.

| run | question | answer | distinct states |
|---|---|---|---|
| `delivery` | do updates reach the companion whatever the interleaving of Send, activate, drain and closeClient? | yes, unless visibly dropped at a full queue or socket; at most one message crosses a session boundary | 3.8M |
| `server` | is ForgetDevice ever swallowed, does the server keep SessionLayer's promises, do revoked sessions end, is the queue drained, does Stop return? | never; yes | 490k |
| `stale_event` | is a snapshot ever undone by an older event? | **yes**, see 4 | |
| `bridge` | is every removal or promotion made on the player that was shown; does the add-on act only in the group that was shown? | yes | 8.4M |
| `dead_sessions` | are requests of dead sessions discarded, and none carried out twice? | yes, also when a ReleaseAll is refused | 760k |
| `live_removal` | is a removal checked against the live group? | **no**, see 4 | |
| `pairing` | credentials under failures and restarts, and the companion's sockets, timers and screen | the credentials are sound; never without a socket or a timer; the screen is true as long as no callback of a replaced socket has run | 5.3M |
| `forgotten` | does a forgotten credential stay forgotten? | **no**, see 4 | |
| `busy_alone` | does "busy" mean that another companion is there? | **no**, see 4 | |
| `gamepad` | is anything left pressed, or pressed before the controls were at rest; do the copies of mode and map agree? | nothing; yes, with the exceptions of 4 | 495k |
| `client` | is held input released, also in the game behind the overlay; does a Reset find anything left; are tiles those of the phase; do hidden frames come back; is the backup the original? | yes; nothing; yes; yes; yes, with the exceptions of 4 | 582k |
| `runtime` | hook chains during insertion and calls, order of start, arena, file handles, nested uploads | all hold, with the exact exceptions the properties name | 1.9M |

`delivery`, `bridge`, `pairing`, `gamepad`, `client` and `runtime` take one to three minutes,
the others less.

### Bounds and why they are enough

* Sessions: one with a client in `bridge`, two in the other runs, three in `server`. Every
  property is about one session boundary or the commands of neighbouring sessions; the number
  also moves on without a client, and a queue that is not emptied keeps what several left.
* Queues: `outbound_` of 3 with a soft limit of 1 (256 and 192 in the code), so that thinning,
  superseding and refusing all occur; `commands_` of 1 to 3. The branches compare sizes with
  the limits only.
* Topics: two, one that is replaced and one that is not; versions up to 2.
* Groups: one slot, two players, the four kinds of group the code distinguishes. `slot` is an
  index the code never computes with. Request IDs: one or two, so that the cap is reached.
* Pairing: two failed attempts rotate the code instead of 5 (3 in `forgotten`), two codes; one
  token suffices, because only equality with the file's matters. The proofs hold for any.
* `Sockets`: two that are not finished at a time; `MaxLeaked`: one timer without a handle. A
  third socket would need a second leaked timer, and meets the same server in the same states.
* Gamepad: one action button on two layers, one stick, one trigger and one stand-in for the
  rest. `Assignable`: one slot is reassigned at run time. The saved assignments are none, a
  jump, and an action the build does not know.
* Runtime: `Installations` is a set of `Extensions` directories, one about hooks (equal and different
  priorities, a detour that wants the head of a live chain, one on engine initialisation
  itself), one about the arena, one about files, and none; `Unhookable` are the addresses at
  which MinHook may fail. Three arena pages and requests of 0 (a wrapped size), 1 and 2; two
  users. Three reads, one with fewer mips. `MayTimeOut` is FALSE: the device exists within
  the minute `MainThread` waits; see 4 for what happens otherwise. One call at a time comes to
  the hooked addresses, from the client's thread.
* Client: a modifier and the overlay's toggle, held and tapped, so that the release of the
  other key may come before or after the toggle has opened or closed the overlay; two
  addresses for devices, two maps, two phases with different
  variants, three tiles, two builds of the executable.

`Sessions`, `Versions`, `Tokens`, `Codes`, `Generations`, `Situations`, `Sockets`, `MaxLeaked`,
`Assignable`, `Installations`, `Addresses` and `Unhookable` bound the exploration only.

## 4. What the runs found

Each of the first four is a run that is expected to be violated, and a finding in
`PROJECT.json` with its quotations.

* **An event of an earlier session undoes a snapshot** (`stale_event`). `Send` reads
  `connected_` before it takes the lock. If the session ends in between, the message is pushed
  after `closeClient` has cleared the queue and is sent to the next client behind that client's
  snapshot, though it is older. In the world this lasts until the next periodic snapshot.
  `delivery` shows that it is never more than one message.
* **Removals are not rechecked against the live group** (`live_removal`). The document says
  live identity, generation and permissions are rechecked; promotions and departures are, by
  the add-on, but a removal is checked against the stored state, which lags behind. `bridge`
  shows what holds nevertheless: the player removed is the one the companion was shown.
* **Forget may leave the token on disk** (`forgotten`). The result of `DeleteFileA` is ignored;
  a file that could not be deleted is loaded at the next start.
* **The companion is refused because of itself** (`busy_alone`). Entering an address, or
  Retry, with a socket open or connecting: the old socket's late `onclose` schedules a
  reconnect beside the new socket; the server answers `client-busy`, and the page stops.

### Observations

Met while modelling. A property that would otherwise fail names the exception as a history
variable or a condition of its own; none of these has a run.

* Controller: after a /reload with a panel open the native side stays in UI navigation while
  the add-on, whose copy starts at false, tells it nothing; the controls are dead until a panel
  opens and closes (`docs/CONTROLLER.md` promises otherwise). A loading screen under an open
  panel is the reverse: the native side leaves navigation, the add-on's copy stays true and the
  controls are not paused. Both are `diverged`.
* Controller: `Native:SetSystemAction` turns `false` into `nil`, so one assignment this build
  does not know aborts `SyncSystemActions` in every tick, which also resets the map and ends a
  held jump. `SelectBackend` publishes `connected` with a state at rest before the first poll:
  a frame in between takes it for the controls at rest, and the next frame presses what is
  already held on the new controller, against `docs/CONTROLLER.md:60`. `PressesFollowNeutral`
  names this exception.
* Companion: a reload of the page, or a lost network, leaves the slot taken until the server
  notices; the page is answered "busy" and halts. A leaked timer may fire after `disconnect()`.
* Hook engine: an insertion into the middle or at the end of a live chain stores the
  predecessor's pointer before the new detour's own, so that a call in flight may find null
  there, which the comment at `Hook.cpp:73` excludes. `OnlyUnlinkedCallsFail` says that this is
  the only such window.
* Storage: `MainThread` installs the five detours one by one while the client's thread may run
  `EnableAll`; until the last is armed a synthetic handle can reach native code. If the device
  takes longer than the minute `MainThread` waits, two `EnableAll`s overlap and hooks are armed
  in the middle of a `Relink` (set `MayTimeOut` and TLC shows `OnlyHalfArmedIsWild` and
  `NoOneIsSkipped` violated; `OnlyUnlinkedCallsFail` and `ExtensionsPrecedeEngine` hold).
* Streaming: a texture with a truncated mip chain, built inside another's wait, finds the outer
  build's data in its high slots. It is live data of the wrong texture.
* Overlay: the key-up of the toggle, F9, is taken whatever the state of the overlay, also while
  it is closed, failed or not initialised, though `ImGuiHost.cpp:23` says that it consumes
  input only while it is open; its key-down reaches the game, though `ImGuiHost.cpp:159` says
  that the toggle is never forwarded. A companion's F9, or the player's, therefore stays down
  in the game, and ReleaseAll cannot lift it (`GameInputIsOwned` excepts it). An open overlay
  may take the release of a key that was pressed before it was opened, those of the bridge's
  ReleaseAll included. After the device was recreated ImGui stays bound to the old one. A
  device created at its predecessor's address with a vtable of its own is never hooked
  (`reused`). `Input.cpp:104` stores the old window procedure after the new one is installed.
* Terrain phases: a failed `SetTerrainPhase` wipes the table of the phase that stays active, and
  neither variable follows the client to another map (`strayed`).
* Display: chrome is restored to what was saved when it was hidden (which is what
  `FramesComeBack` asks for), even if the stock interface has wanted otherwise since.
* Patcher: any file called `Wow.exe.orig` counts as the backup. A copy that was cut short, or
  the backup of another build, is trusted by the next run (`disturbed`), though `Main.cpp:115`
  wants the backup "confirmed on disk".
* Server: a single `select` error ends the server for good. Results of the direct sends of
  `auth.ok` and the snapshot are ignored; `pairing.complete` may be lost after the token is
  saved. Modifiers are not counted, so one key's release may lift another's.

## 5. Fairness

Nothing is assumed of the companion, the player or the environment: no accept, frame,
sample or event ever has to happen. Only weak fairness is used.

* `WebSocketServer!FairSpec`: the network loop taken as one (`Loop`): `select` waits 50 ms at
  most, the client's socket does not block, one receive holds finitely many frames, and
  leaving the loop is only promised once `running_` is cleared. `Call`: a call of the game
  thread that has begun goes on, and `join` returns once the thread is over.
* `InputDispatcher!Fairness`: `OnUpdate` runs every frame and works off its batch, and
  `closeClient` runs to its end.
* `ClientSide!FairClientSpec`: besides, the add-on's `OnUpdate` reconciles every two seconds.
* `ControllerAddon!FairSpec`: the client's frames go on.

## 6. Proofs

All are checked by TLAPS for arbitrary constants under the named assumptions of the modules
(capacities are naturals, payloads have one of the listed kinds, and the like).

* `SessionLayerProofs`: `SLInv`. A queued request with the present session number belongs to a
  connected client because every request is from a session that has begun (`RequestsArePast`)
  and the number advances first. `ReleaseBetweenSessions` alone is not inductive: the
  ReleaseAll of a session's end may be refused. `LeftoversAreFollowed` says why that does not
  matter: the queue is then full, and takes no command of the next session until it is emptied.
* `WebSocketServerProofs`: `Control` ties `npc`, `client`, `phase` and `connected_` together.
  `Revocation` strengthens `RevokedSessionIsClosed` to the moment between the comparison of a
  token and `connected_ = true`; `disconnect_ = false` at the end of `closeClient` is harmless
  because no client is there by then. From `Control` every step is a step of `SessionLayer` or a
  stutter (`ServerImplementsSessionLayer`), and `SLInv` is inherited. `OneMessageBetweenSessions`
  needs `GapInv`: while no session is up, there is one message at most between the queue and a
  `Send` that had already read `connected_`. `ClientConverges` needs `ConvInv`: for each topic,
  what the client shows, brought up to date by what is queued (`Tells`, which says "the last
  report" without CHOOSE), is the state, or a call that will queue a report is under way
  (`ToCome`). Before `activate` reads the snapshot the same is said of the state itself, and
  `lossy`/`carried` are the exceptions the property names. The lemmas about the soft and the
  hard limit show that making room drops no report without a later one of the same topic or
  `lossy`. `ServerTypes` has the capacities.
* `WcsBridgeProofs`: `GenerationNamesOneGroup` relates what was published at different times,
  and is inductive only with `PublishedInv` (what was published under the add-on's present
  generation is what it would publish now) and the order of the generations in play
  (`OrderInv`: that of the IDs spent, of the store, of the add-on, of the counter).
  `RequestsAreCarriedOutOnce` needs `SpentInv`: whatever was carried out in the generation of
  the IDs spent is among them, and nothing was in a later one. `CheckedInv` is about the
  request between its checks and the stock call: what was checked is still what the store has,
  and that was published under the request's generation, which gives `ActsOnWhatWasShown`.
  `AddonActsInTheGroupShown` follows from it together with `PublishedInv`: if the add-on still
  names that generation after its live state was computed again, the live group is the one that
  was published under it. `SessionInv` gives `DeadSessionsAreNotServed`.
  `BridgeImplementsSessionLayer` lets `SLInv` in.
* `CompanionProofs`: `PairingInv`. `GuessInv`: each wrong guess at the code at hand counts as a
  failed attempt (`guesses[code] <= failures`), the calls that reset the count happen only
  where that code has met none, and codes still to be drawn have met none, so that a code that
  is given up keeps at most `MaxFailures`; a code is only given up in the step that leaves a
  token in memory and in the file. Every step of the composition is a step of `Pairing` or a
  stutter, so `PairingInv` is inherited; `NeverStranded` and `ScreenTellsTheTruth` follow from
  what a socket's events and the server's phase say of each other.
* `GamepadProofs`: that the holds are those of buttons that captured a jump (with a lemma on
  the cardinality of what one frame changes), that a pause holds nothing, that what was not
  at rest since an interruption is waited for (`RestInv`: a frame that finds nothing fresh and
  has not seen rest has `waitForNeutral`), and `MirrorInv` for the two copies of the mode.
* `RuntimeProofs`: `ArenaInv` (free ranges and held ranges cover the pages, pairwise disjoint,
  and free ranges do not touch) is preserved by first fit and by the merge on both sides;
  `HandleInv` follows a native handle through a transform that reads it and declines.
  `NoReadIsLost` is part of `QueueInv`: a read is under way or completed, once, and the count of
  outstanding completions is that of the reads under way, completed or in a build. For
  `UploadsReadLiveData` the client thread's nest of calls matters: `StackInv` (who waits inside
  whom), `TableInv` and `SerialInv`: once the two detours are in place the nest has one of four
  shapes, and each says whose data the table holds and what was saved. `ArmedInv` (only what
  MinHook knows is armed) keeps the detours in place.
* `HookChainProofs`: the hooks, for chains of any length and any scripts. `ChainInv`: chains are
  not empty and on one address, their pointers stay in them, a pointer in a live chain is set
  or about to be, and calls are in live chains; `OnlyUnlinkedCallsFail` follows whatever the
  timing. The others hold only if `MainThread` waits as long as it takes (`~MayTimeOut`, a
  hypothesis of the theorems; see 4 for what happens otherwise). `PlanInv`, `RankInv` and
  `TurnInv` say what that means: a detour is installed once and by one party, and the two
  threads of the core take turns. Then `OnlyHalfArmedIsWild` follows from `WildInv`: a storage
  detour that is armed has its pointer. `NoOneIsSkipped` needs two invariants: `OrderInv` (chains
  are sorted, pointers go forward, and a pointer that is not the right one is about to be
  stored, by a `Relink` that works from the front to the end, `Pending`) and `WalkInv` (what a call
  has met is in order, what was due it has met or will still come to, and no pointer leads past
  that, `Skips`). `ExtensionsPrecedeEngine`
  needs `CoverInv` (what the client's thread attached is armed, or its script is going to arm
  it), `LoaderInv` (the loader is and remains the first on its address) and `MetInv` (the call
  that initialises the engine has met, or is in front of, each detour of that address).
  `RuntimeAssumption` has what is assumed of the installations: the core and the extensions
  attach different detours, each once, and no extension attaches to the five functions of the
  archive, which is what the storage bridge is for.
* `ClientSideProofs`: `HeldInv`: whatever a session holds, or may still press by a command that
  waits in the batch or the queue, is followed there by a ReleaseAll, unless the session is
  still up, has just ended, or had its ReleaseAll refused. `ClientImplementsInput` carries it
  over to the composition. `TakesInv` (what the game holds the dispatcher holds, but for the
  toggle and what an open overlay took the release of; so `GameInputIsOwned` follows from
  `HeldInv`), `DeviceInv` (the overlay is bound to a device that is hooked, or taken for one),
  `PhaseInv` (a base map is remembered exactly while a phase is active) and `BackupInv` (a
  backup has no edits, and is the executable's own before the image is written) are the other
  inductive invariants.

`PairingTypeOK`, `InputTypeOK` and `HookTypeOK` are proved rather than run, and so are
`QueuedRequestIsLive` and `ReleaseBetweenSessions`, which a run of the server would only repeat.

Every safety property of the passing runs is proved, with the hypothesis above where it is
named. Model-checked only: the liveness properties (`RevokedSessionEnds`, `QueueIsDrained`,
`StopReturns`, `HeldInputIsReleased`, `FramesComeBack`, `DisconnectedLetsGo`), since the prover
does neither ENABLED nor fairness.

## 7. Not modelled

* Tables of addresses and bindings to the client (`offsets/`, `runtime/HookPoints.cpp`,
  `game/*.hpp`), the conversion of models and textures (`engine/assets/`), the client patches
  that replace bytes or forward one call, and vendored code under `deps/`. They hold no state
  and nothing in them happens concurrently. Together they are most of the lines of the
  repository, which is why the map covers a small share of them.
* A buffer size for which `size + 0x20` wraps before it is rounded (`Memory.cpp:225`), and a
  `VirtualFree` that fails (its result is ignored).
* JSON and UTF-8 codecs, command parsing, the HTTP upgrade and the frame decoder: input
  validation without state, present by their outcomes.
* `SmartInteract`: a score of visible objects in floating point; it keeps no state. Controller
  configuration: parsed once, on one thread.
* Views of the web client, widgets and settings pages, migrations of saved variables.
* The subclassing of the game's window, overlay panels, statistics and logging.
* Two insertions into one vector of the hook engine at the same time: undefined behaviour that
  the code excludes only by the order of the start.

## 8. How the development is organised

In order of importance: the session boundary (`SessionLayer`, `WebSocketServer`); acting on
the right player (`PartyManagement`, `WcsBridge`); credentials (`Pairing`, `Companion`); what
is held down in the game (`InputDispatcher`, `Overlay`, `Gamepad`, `ControllerAddon`); the
runtime beneath (`Runtime` and its parts); the client's side (`Phasing`, `Display`, `Patcher`).

Worth adding next: what still holds of chains and of the start if `MainThread` gives up waiting;
the window procedure's subclassing together with `InputDispatcher`; counted modifiers.
