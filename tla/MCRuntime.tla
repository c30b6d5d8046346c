----------------------------- MODULE MCRuntime -----------------------------
(***************************************************************************)
(* Small instances of Runtime for TLC: four installations of extensions.  *)
(***************************************************************************)
EXTENDS Runtime, TLC

CONSTANT short

\* Two extensions share an address, on which a Normal feature comes between
\* them; one attaches to engine initialisation itself, another wants its head.
TargetOf ==
  [d \in StorageOps |-> d] @@
  [loader |-> "init", follower |-> "init", leader |-> "init",
   early |-> "frame", late |-> "frame", feature |-> "frame", scratch |-> "texture",
   streaming |-> "drain", textures |-> "upload"]
PriorityOf ==
  [d \in DOMAIN TargetOf |-> IF d = "late" THEN 1 ELSE IF d = "leader" THEN -1 ELSE 0]
AllDetours == DOMAIN TargetOf
AllTargets == {TargetOf[d] : d \in AllDetours}

Of(part, op, x) == [op |-> op, x |-> x, part |-> part]
Hooking == <<Of("a", "install", "follower"), Of("a", "install", "early"), Of("b", "install", "leader"),
             Of("c", "install", "late")>>
Models == <<Of("m2", "get", "wxl.m2arena"), Of("m2", "publish", "wxl.m2")>>
Files2 == <<Of("f", "get", "wxl.storage"), Of("f", "register", "provider"),
            Of("f", "register", "transform")>>
BootFeatures == <<"scratch">>
NormalFeatures == <<"feature", "streaming", "textures">>
Installed == {<<>>, Hooking, Models, Files2}
\* One texture has fewer mips than the others.
MipChains == [r \in Reads |-> IF r = short THEN {1} ELSE {1, 2}]
\* The threads of wxl-m2 are alike, and so are the other textures.
AlikeSymmetry == Permutations(Users) \cup Permutations(Reads \ {short})
=============================================================================
