------------------------------- MODULE Overlay -------------------------------
(***************************************************************************)
(* The debug overlay (ImGuiHost.cpp) on the events that Render.cpp and     *)
(* Input.cpp publish: it draws in EndScene, gives up its device objects    *)
(* around a Reset and may take the messages of the game's window, those    *)
(* that InputDispatcher sends included.  All of it runs on the client's    *)
(* thread, which subclasses the window itself before the first message.    *)
(*                                                                         *)
(* A device is its address, which a later device may be given again once   *)
(* nobody refers to the earlier one; 0 is no device.  A message that is    *)
(* posted is handled before the next one is looked at.                     *)
(***************************************************************************)
EXTENDS InputDispatcher

CONSTANTS ToggleKey,    \* kToggleKey: F9, which a companion can send as well
          Addresses     \* bound: where devices are created

ASSUME OverlayAssumption == Addresses \subseteq Nat \ {0} /\ ToggleKey \in Inputs

VARIABLES
  device,        \* the client's device
  patched,       \* devices whose vtable carries the hooks
  hookedDevice,  \* g_hookedDevice
  ready, failed, open,
  bound,         \* the device the backend was initialised with, which it refers to
  objects,       \* the backend's objects in that device's DEFAULT pool exist
  target,        \* the device a tracked render target was created on, or 0
  resetting,     \* inside hkReset, before the native Reset
  reused,        \* history: the device is where a patched one was, and is not
  game,          \* the inputs that the client takes for held
  swallowed      \* history: those of which an open overlay took the last release

devicevars == <<device, patched, hookedDevice, failed, bound, objects, target, resetting, reused>>
windowvars == <<open, game, swallowed>>
overlayvars == <<devicevars, ready, windowvars>>

OverlayInit ==
  /\ device = 0 /\ patched = {} /\ hookedDevice = 0 /\ bound = 0 /\ ready = FALSE
  /\ failed = FALSE /\ objects = FALSE /\ target = 0 /\ resetting = FALSE /\ reused = FALSE
  /\ open = FALSE /\ game = {} /\ swallowed = {}

\* A frame has been drawn on d, with the overlay ready or failed.
OverlayDrawn(d) ==
  /\ device = d /\ patched = {d} /\ hookedDevice = d /\ ready \in BOOLEAN
  /\ bound = IF ready THEN d ELSE 0
  /\ failed = ~ready /\ objects = FALSE /\ target = 0 /\ resetting = FALSE /\ reused = FALSE
  /\ open = FALSE /\ game = {} /\ swallowed = {}

(***************************************************************************)
(* The device                                                              *)
(***************************************************************************)
\* The client creates a device, perhaps in place of another one, whose vtable
\* is its own or that of an earlier device.
CreateDevice ==
  /\ ~resetting
  /\ \E d \in Addresses \ {bound, target}, own \in BOOLEAN :
       /\ device' = d
       /\ patched' = IF own \/ patched = {} THEN patched \ {d} ELSE patched \cup {d}
       /\ reused' = (d = hookedDevice /\ d \notin patched')
  /\ UNCHANGED <<hookedDevice, failed, bound, objects, target, resetting, ready, windowvars>>

\* An extension wants its render target in the course of a frame.
EnsureBackbufferTarget == target' \in {target, IF target = 0 THEN device ELSE target}

\* hkWorldFinalize: EnsureDeviceHooks.
EnsureDeviceHooks ==
  IF hookedDevice = device THEN UNCHANGED <<patched, hookedDevice>>
  ELSE hookedDevice' = device /\ patched' = patched \cup {device}

\* A frame of the world, up to its interface.
WorldFrame ==
  /\ device # 0 /\ ~resetting
  /\ EnsureBackbufferTarget /\ EnsureDeviceHooks
  /\ UNCHANGED <<device, failed, bound, objects, resetting, reused, ready, windowvars>>

\* EnsureReady: no window or no backend, once for ever; else the overlay is
\* bound to the device at hand.
EnsureReady ==
  IF ready \/ failed THEN UNCHANGED <<ready, failed, bound>>
  ELSE \/ failed' = TRUE /\ UNCHANGED <<ready, bound>>
       \/ ready' = TRUE /\ bound' = device /\ UNCHANGED failed

\* OnEndScene: NewFrame and RenderDrawData create what is missing.
EndScene ==
  /\ device \in patched /\ ~resetting
  /\ EnsureReady
  /\ objects' \in {objects, objects \/ (ready' /\ open)}
  /\ UNCHANGED <<device, patched, hookedDevice, target, resetting, reused, windowvars>>

\* Faulty: an overlay that is closed keeps its objects.
FaultyReset ==
  /\ device # 0 /\ ~resetting /\ resetting' = TRUE
  /\ IF device \in patched THEN objects' = (objects /\ ~open) /\ target' = 0
     ELSE UNCHANGED <<objects, target>>
  /\ UNCHANGED <<device, patched, hookedDevice, failed, bound, reused, ready, windowvars>>

\* hkReset, up to the native call: OnDeviceLost and ReleaseResetResources.
Reset ==
  /\ device # 0 /\ ~resetting /\ resetting' = TRUE
  /\ IF device \in patched THEN objects' = (objects /\ ~ready) /\ target' = 0
     ELSE UNCHANGED <<objects, target>>
  /\ UNCHANGED <<device, patched, hookedDevice, failed, bound, reused, ready, windowvars>>

\* The native Reset; OnDeviceReset if it succeeds.
NativeReset ==
  /\ resetting /\ resetting' = FALSE
  /\ objects' \in {objects, objects \/ (device \in patched /\ ready)}
  /\ UNCHANGED <<device, patched, hookedDevice, failed, bound, target, reused, ready, windowvars>>

(***************************************************************************)
(* The window                                                              *)
(***************************************************************************)
\* Faulty: the overlay listens while it is closed.
FaultyTakes(ms, isOpen) == IF ready THEN SUBSET ms ELSE {{}}

\* OnInput, but for the toggle: which of the messages ImGui wants, if the overlay
\* is open at the time.
Takes(ms, isOpen) == IF ready /\ isOpen THEN SUBSET ms ELSE {{}}

\* OnInput for the toggle: it works when the key is let go of, and only if the
\* overlay is ready.
Toggled == ready /\ ~open

\* WndProc: messages for inputs that go down and then up, in the order of `ups`
\* before and after that of the toggle, but for those taken.  The toggle's way
\* up is taken in any case, its way down like that of any other key.
WndProc(downs, before, toggle, after) ==
  /\ open' = IF toggle = {} THEN open ELSE Toggled
  /\ \E d \in Takes(downs, open), b \in Takes(before, open), a \in Takes(after, open') :
       LET forwarded == (before \ b) \cup (after \ a)
           overlaid == {k \in b : open} \cup {k \in a : open'}
       IN /\ game' = (game \cup (downs \ d)) \ forwarded
          /\ swallowed' = (swallowed \ ((downs \ d) \cup forwarded)) \cup overlaid

\* The messages that a command or ReleaseAll brings about; where the toggle comes
\* among the releases depends on the command and the key codes.
Messages(downs, ups) ==
  \E before \in SUBSET (ups \ {ToggleKey}) :
    /\ ToggleKey \notin ups => before = {}
    /\ WndProc(downs, before, ups \cap {ToggleKey}, (ups \ {ToggleKey}) \ before)

\* The player presses the toggle.
Toggle ==
  /\ WndProc({ToggleKey}, {}, {ToggleKey}, {})
  /\ UNCHANGED <<devicevars, ready>>

\* What a command presses and releases at once.
Taps(c) ==
  IF IsRequest(c) /\ c.payload.kind = "press" THEN c.payload.inputs \ (held \cup held') ELSE {}

\* InputDispatcher's actions that press and release, with their messages.
Play ==
  /\ \/ Dispatch /\ \E taps \in SUBSET Taps(Head(pending)) :
                      Messages((held' \ held) \cup taps, (held \ held') \cup taps)
     \/ WorldLeave /\ Messages({}, held \ held')
  /\ UNCHANGED <<devicevars, ready>>

DeviceNext == CreateDevice \/ WorldFrame \/ EndScene \/ Reset \/ NativeReset

-----------------------------------------------------------------------------
\* Nothing of the overlay's or of an extension's is left in the DEFAULT pool of
\* a device that is reset, or the Reset fails and the window is lost
\* (Render.cpp:171), however the overlay was opened and closed, the device
\* replaced, or an earlier Reset failed.  The exception is a device that is
\* where its predecessor was and has a vtable of its own: EnsureDeviceHooks
\* takes it for the old one.
ResetFindsNothing ==
  resetting /\ ~reused => (objects => bound # device) /\ target # device

\* "The overlay only consumes input while it is OPEN" (ImGuiHost.cpp:23): what
\* the client takes for held belongs to the session that is up, or is about to
\* be released, as if there were no overlay.  The exceptions are inputs of which
\* an open overlay took the release, and the toggle, whose way down reaches the
\* client while the overlay is closed and whose way up never does.
GameInputIsOwned ==
  \A k \in game \ (swallowed \cup {ToggleKey}) : Owned(k)
=============================================================================
