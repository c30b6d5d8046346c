------------------------------- MODULE Patcher -------------------------------
(***************************************************************************)
(* wcs-patcher.exe, which puts the core into the client's executable: it   *)
(* edits an image in memory, backs the executable up and replaces it.  It  *)
(* may fail or end at any step and be run again, and between two runs the  *)
(* player may restore the backup or install another build of the client.   *)
(***************************************************************************)
EXTENDS Naturals

CONSTANT Builds      \* the builds of the client that may be installed

ASSUME PatcherAssumption == {"none", "torn"} \cap Builds = {}

VARIABLES
  exe, orig,     \* Wow.exe and Wow.exe.orig
  image,         \* what the patcher holds in memory
  patcher,       \* how far it is: "idle", "backup", "copying", "write"
  disturbed      \* history: a copy was cut short, or a build replaced beside a backup

patchervars == <<exe, orig, image, patcher, disturbed>>

\* A file: of which build, and which edits it has.  The scripts and the import
\* come together, unless an older patcher made them without the flag "large".
Unpatched(b) == [build |-> b, edits |-> {}]
NoFile == Unpatched("none")
Torn == Unpatched("torn")
Edited(f, es) == [f EXCEPT !.edits = @ \cup es]

PatcherInit ==
  /\ \E b \in Builds :
       \/ exe = Unpatched(b) /\ orig = NoFile
       \/ exe = Edited(Unpatched(b), {"import"}) /\ orig = Unpatched(b)
  /\ image = NoFile /\ patcher = "idle" /\ disturbed = FALSE

\* main, up to the first file that is written; a failure before is no step.
Patch ==
  /\ patcher = "idle" /\ exe # Torn
  /\ IF "import" \in exe.edits
     THEN image' = Edited(exe, {"large"}) /\ patcher' = "write"
     ELSE image' = Edited(exe, {"large", "import"}) /\ patcher' = "backup"
  /\ UNCHANGED <<exe, orig, disturbed>>

\* The backup is taken unless there is one; CopyFile is not atomic.
Backup ==
  /\ patcher = "backup"
  /\ IF orig # NoFile THEN patcher' = "write" /\ UNCHANGED orig
     ELSE patcher' = "copying" /\ orig' = Torn
  /\ UNCHANGED <<exe, image, disturbed>>

\* Faulty: what CopyFile returns is not looked at.
FaultyCopied ==
  /\ patcher = "copying" /\ patcher' = "write" /\ orig' \in {exe, NoFile}
  /\ UNCHANGED <<exe, image, disturbed>>

\* CopyFile returns; one that fails leaves no file.
Copied ==
  /\ patcher = "copying"
  /\ \/ orig' = exe /\ patcher' = "write"
     \/ orig' = NoFile /\ patcher' = "idle"
  /\ UNCHANGED <<exe, image, disturbed>>

\* WriteAll: a sibling file is moved into place, or the executable is as before.
WriteAll ==
  /\ patcher = "write" /\ patcher' = "idle"
  /\ exe' \in {exe, image}
  /\ UNCHANGED <<orig, image, disturbed>>

Killed ==
  /\ patcher # "idle" /\ patcher' = "idle"
  /\ disturbed' = (disturbed \/ patcher = "copying")
  /\ UNCHANGED <<exe, orig, image>>

\* "Restore `Wow.exe.orig` as `Wow.exe`" (CLIENT_INSTALL.md:52), as a move or a
\* copy.
RestoreBackup ==
  /\ patcher = "idle" /\ orig # NoFile
  /\ exe' = orig /\ orig' \in {orig, NoFile}
  /\ UNCHANGED <<image, patcher, disturbed>>

InstallBuild(b) ==
  /\ patcher = "idle" /\ exe' = Unpatched(b)
  /\ disturbed' = (disturbed \/ orig \notin {NoFile, Unpatched(b)})
  /\ UNCHANGED <<orig, image, patcher>>

PatcherNext ==
  \/ Patch \/ Backup \/ Copied \/ WriteAll \/ Killed \/ RestoreBackup
  \/ \E b \in Builds : InstallBuild(b)

-----------------------------------------------------------------------------
\* "The backup is the only recovery path if the patched image misbehaves: refuse
\* to touch the target until it is confirmed on disk" (patcher/Main.cpp:115):
\* beside a patched executable lies the one it was made from, whatever failed,
\* was killed, repeated or undone.  The exceptions are a backup that is there
\* and is not the right one, which the patcher takes on trust: what a copy that
\* was cut short has left, and the backup of a build since replaced.
BackupIsTheOriginal ==
  "import" \in exe.edits /\ ~disturbed => orig = Unpatched(exe.build)
=============================================================================
