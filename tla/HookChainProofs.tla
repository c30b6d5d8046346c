--------------------------- MODULE HookChainProofs ---------------------------
(***************************************************************************)
(* The hook chains and the order of the start for every set of detours,    *)
(* chains of any length, any extensions and any number of threads with     *)
(* scripts.  In this order:                                                *)
(*                                                                         *)
(*   ChainInv   what scripts, chains, pointers and calls are made of       *)
(*   PlanInv, RankInv, TurnInv   who installs which detour, once, and that *)
(*              the two threads of the core take turns                     *)
(*   WildInv    synthetic handles need an armed OpenDetour                 *)
(*   OrderInv   chains are sorted, pointers right or about to be stored    *)
(*   WalkInv    whom a call has met and is still to meet                   *)
(*   CoverInv, LoaderInv, MetInv   what is armed, and who is in front, when *)
(*              the engine initialises                                     *)
(*                                                                         *)
(* From PlanInv on, MainThread is taken to wait until the device is there  *)
(* (~MayTimeOut).                                                          *)
(***************************************************************************)
EXTENDS RuntimeProofs

(***************************************************************************)
(* Sequences: scripts and chains                                           *)
(***************************************************************************)
\* What is left of a sequence without its first elements.
LEMMA RestFacts ==
  ASSUME NEW S, NEW s \in Seq(S), NEW k \in 1..(Len(s) + 1)
  PROVE  LET r == SubSeq(s, k, Len(s))
         IN /\ r \in Seq(S) /\ Len(s) \in Nat /\ Len(r) = Len(s) - k + 1
            /\ DOMAIN r = 1..(Len(s) - k + 1) /\ DOMAIN s = 1..Len(s)
            /\ \A i \in 1..(Len(s) - k + 1) : r[i] = s[i + k - 1]
OBVIOUS

\* One element more somewhere.
With(s, p, d) == SubSeq(s, 1, p) \o <<d>> \o SubSeq(s, p + 1, Len(s))

LEMMA WithFacts ==
  ASSUME NEW S, NEW s \in Seq(S), NEW d \in S, NEW p \in 0..Len(s)
  PROVE  /\ With(s, p, d) \in Seq(S) /\ Len(s) \in Nat /\ Len(With(s, p, d)) = Len(s) + 1
         /\ \A i \in 1..p : With(s, p, d)[i] = s[i]
         /\ With(s, p, d)[p + 1] = d
         /\ \A i \in (p + 1)..Len(s) : With(s, p, d)[i + 1] = s[i]
<1> DEFINE a == SubSeq(s, 1, p)
           b == SubSeq(s, p + 1, Len(s))
           c == a \o <<d>>
           r == With(s, p, d)
<1>n. Len(s) \in Nat /\ p \in Nat /\ p <= Len(s)
  OBVIOUS
<1>1. a \in Seq(S) /\ Len(a) = p /\ \A i \in 1..p : a[i] = s[i]
  OBVIOUS
<1>2. b \in Seq(S) /\ Len(b) = Len(s) - p /\ \A i \in 1..(Len(s) - p) : b[i] = s[p + i]
  OBVIOUS
<1>3. <<d>> \in Seq(S) /\ Len(<<d>>) = 1 /\ <<d>>[1] = d
  OBVIOUS
<1> HIDE DEF a, b
<1>4. /\ c \in Seq(S) /\ Len(c) = Len(a) + Len(<<d>>)
      /\ \A i \in 1..(Len(a) + Len(<<d>>)) : c[i] = IF i <= Len(a) THEN a[i] ELSE <<d>>[i - Len(a)]
  BY <1>1, <1>3, ConcatProperties
<1>r. r = c \o b
  BY DEF With, a, b
<1> HIDE DEF c
<1>5. /\ c \o b \in Seq(S) /\ Len(c \o b) = Len(c) + Len(b)
      /\ \A i \in 1..(Len(c) + Len(b)) : (c \o b)[i] = IF i <= Len(c) THEN c[i] ELSE b[i - Len(c)]
  <2>0. b \in Seq(S) /\ c \in Seq(S)
    BY <1>2, <1>4
  <2>1. c \o b \in Seq(S)
    BY <2>0
  <2>2. Len(c \o b) = Len(c) + Len(b)
    BY <2>0, ConcatProperties
  <2>3. \A i \in 1..(Len(c) + Len(b)) : (c \o b)[i] = IF i <= Len(c) THEN c[i] ELSE b[i - Len(c)]
    BY <2>0, ConcatProperties
  <2> QED BY <2>1, <2>2, <2>3
<1> HIDE DEF r
<1>6. /\ r \in Seq(S) /\ Len(r) = Len(s) + 1 /\ Len(c) = p + 1
      /\ \A i \in 1..(Len(s) + 1) : r[i] = IF i <= p + 1 THEN c[i] ELSE b[i - (p + 1)]
  BY <1>n, <1>r, <1>1, <1>2, <1>3, <1>4, <1>5
<1>7. ASSUME NEW i \in 1..p PROVE r[i] = s[i]
  <2>1. i \in 1..(Len(s) + 1) /\ i <= p + 1 /\ i \in 1..(p + 1) /\ i <= p
    BY <1>n
  <2>2. r[i] = c[i]
    BY <1>6, <2>1
  <2>3. c[i] = a[i]
    BY <1>1, <1>3, <1>4, <2>1
  <2> QED BY <1>1, <2>2, <2>3
<1>8. r[p + 1] = d
  <2>1. p + 1 \in 1..(Len(s) + 1) /\ p + 1 \in 1..(p + 1) /\ ~(p + 1 <= p) /\ (p + 1) - p = 1
    BY <1>n
  <2>2. r[p + 1] = c[p + 1]
    BY <1>6, <2>1
  <2>3. c[p + 1] = <<d>>[(p + 1) - p]
    BY <1>1, <1>3, <1>4, <2>1
  <2> QED BY <1>3, <2>1, <2>2, <2>3
<1>9. ASSUME NEW i \in (p + 1)..Len(s) PROVE r[i + 1] = s[i]
  <2>1. /\ i + 1 \in 1..(Len(s) + 1) /\ ~(i + 1 <= p + 1) /\ (i + 1) - (p + 1) = i - p
        /\ i - p \in 1..(Len(s) - p) /\ p + (i - p) = i
    BY <1>n
  <2>2. r[i + 1] = b[(i + 1) - (p + 1)]
    BY <1>6, <2>1
  <2>3. b[i - p] = s[p + (i - p)]
    BY <1>2, <2>1
  <2> QED BY <2>1, <2>2, <2>3
<1> QED BY <1>n, <1>6, <1>7, <1>8, <1>9 DEF r

\* Relink closes a chain, or does not.
LEMMA RelinkFacts ==
  ASSUME NEW s \in Seq(Detours), NEW t, NEW live
  PROVE  LET r == Relink(s, t \in live)
         IN /\ r \in Seq(Detours \X (Detours \cup {"engine"})) /\ Len(s) \in Nat
            /\ s # <<>> => Len(r) = IF t \in live THEN Len(s) ELSE Len(s) - 1
            /\ \A i \in DOMAIN r : /\ i \in 1..Len(s)
                                   /\ r[i] = <<s[i], IF i = Len(s) THEN "engine" ELSE s[i + 1]>>
<1> DEFINE m == IF t \in live THEN Len(s) ELSE Len(s) - 1
           e(i) == <<s[i], IF i = Len(s) THEN "engine" ELSE s[i + 1]>>
<1>1. Len(s) \in Nat /\ DOMAIN s = 1..Len(s) /\ \A i \in 1..Len(s) : s[i] \in Detours
  OBVIOUS
<1>2. ASSUME NEW i \in 1..m PROVE i \in 1..Len(s) /\ e(i) \in Detours \X (Detours \cup {"engine"})
  <2>1. i \in 1..Len(s)
    BY <1>1
  <2>2. i # Len(s) => i + 1 \in 1..Len(s)
    <3>1. Len(s) \in Nat /\ i \in Nat /\ 1 <= i /\ i <= Len(s)
      BY <1>1, <2>1
    <3> QED BY <3>1
  <2>3. i # Len(s) => s[i + 1] \in Detours
    BY <1>1, <2>2
  <2> QED BY <1>1, <2>1, <2>3
<1>3. Relink(s, t \in live) = [i \in 1..m |-> e(i)]
  BY DEF Relink
<1>4. CASE m \in Nat
  <2> HIDE DEF m, e
  <2>1. [i \in 1..m |-> e(i)] \in Seq(Detours \X (Detours \cup {"engine"}))
        /\ Len([i \in 1..m |-> e(i)]) = m
    BY <1>2, <1>4
  <2>2. \A i \in 1..m : [j \in 1..m |-> e(j)][i] = e(i)
    OBVIOUS
  <2> QED BY <1>1, <1>2, <1>3, <2>1, <2>2 DEF m, e
<1>5. CASE m \notin Nat
  <2>1. m = -1 /\ Len(s) = 0
    BY <1>1, <1>5
  <2>2. 1..m = {}
    BY <2>1
  <2>3. s = <<>>
    BY <2>1, EmptySeq
  <2>4. Relink(s, t \in live) = <<>>
    BY <1>3, <2>2
  <2>5. <<>> \in Seq(Detours \X (Detours \cup {"engine"})) /\ DOMAIN <<>> = {}
    BY EmptySeq
  <2> QED BY <1>1, <2>3, <2>4, <2>5
<1> QED BY <1>4, <1>5

(***************************************************************************)
(* Scripts                                                                 *)
(***************************************************************************)
Arguments ==
  Detours \cup Targets \cup {"all", "main", "device", "wxl.m2arena"}
  \cup UNION {{o.x : o \in Members(exts)} : exts \in Installations}
Folders == UNION {{o.part : o \in Members(exts)} : exts \in Installations}
Own1 == {"install", "publish", "get", "register"}
Ops == [op : Own1 \cup {"enable", "patch", "arm", "reserve", "spawn", "wait"},
        x : Arguments, part : {"core"} \cup Folders]

\* Operations have arguments that make sense; extensions only attach, publish,
\* ask and register.
ScriptInv ==
  /\ script \in [Threads -> Seq(Ops)] /\ extensions \in Installations
  /\ \A h \in Threads : \A i \in DOMAIN script[h] :
       /\ script[h][i].op = "install" => script[h][i].x \in Detours
       /\ script[h][i].op = "patch" => script[h][i].x \in Members(chains)
       /\ script[h][i].part # "core" => script[h][i].op \in Own1

\* A thread is k operations further in its script.
Further(h, k) == script' = [script EXCEPT ![h] = SubSeq(@, k + 1, Len(@))]

LEMMA FurtherFacts ==
  ASSUME script \in [Threads -> Seq(Ops)], NEW h \in Threads, NEW k \in 1..Len(script[h]), Further(h, k)
  PROVE  /\ script' \in [Threads -> Seq(Ops)] /\ \A g \in Threads : g # h => script'[g] = script[g]
         /\ Len(script[h]) \in Nat /\ DOMAIN script[h] = 1..Len(script[h])
         /\ Len(script'[h]) = Len(script[h]) - k
         /\ DOMAIN script'[h] = 1..(Len(script[h]) - k)
         /\ \A i \in 1..(Len(script[h]) - k) : script'[h][i] = script[h][i + k]
<1> DEFINE s == script[h]
<1>1. s \in Seq(Ops)
  OBVIOUS
<1>2. script'[h] = SubSeq(s, k + 1, Len(s)) /\ \A g \in Threads : g # h => script'[g] = script[g]
  BY DEF Further
<1> HIDE DEF s
<1>3. Len(s) \in Nat /\ k \in Nat /\ k + 1 \in 1..(Len(s) + 1)
  <2>1. Len(s) \in Nat
    BY <1>1
  <2> QED BY <2>1 DEF s
<1>4. /\ script'[h] \in Seq(Ops) /\ Len(script'[h]) = Len(s) - (k + 1) + 1
      /\ DOMAIN script'[h] = 1..(Len(s) - (k + 1) + 1) /\ DOMAIN s = 1..Len(s)
      /\ \A i \in 1..(Len(s) - (k + 1) + 1) : script'[h][i] = s[i + (k + 1) - 1]
  BY <1>1, <1>2, <1>3, RestFacts
<1>5. Len(s) - (k + 1) + 1 = Len(s) - k /\ \A i \in Int : i + (k + 1) - 1 = i + k
  BY <1>3
<1>6. script' \in [Threads -> Seq(Ops)]
  BY <1>4 DEF Further
<1>7. /\ Len(script'[h]) = Len(s) - k /\ DOMAIN script'[h] = 1..(Len(s) - k)
      /\ \A i \in 1..(Len(s) - k) : script'[h][i] = s[i + (k + 1) - 1]
  BY <1>4, <1>5
<1>8. ASSUME NEW i \in 1..(Len(s) - k) PROVE script'[h][i] = s[i + k]
  <2>1. i + (k + 1) - 1 = i + k
    BY <1>3
  <2>2. script'[h][i] = s[i + (k + 1) - 1]
    BY <1>7
  <2> QED BY <2>1, <2>2
<1> QED BY <1>2, <1>3, <1>4, <1>6, <1>7, <1>8 DEF s

LEMMA NextIsFurther ==
  ASSUME script \in [Threads -> Seq(Ops)], NEW h \in Threads, script[h] # <<>>, Next1(h)
  PROVE  Further(h, 1) /\ 1 \in 1..Len(script[h]) /\ Head(script[h]) = script[h][1]
<1>1. Tail(script[h]) = SubSeq(script[h], 2, Len(script[h]))
  BY TailIsSubSeq
<1>2. Len(script[h]) \in Nat /\ Len(script[h]) > 0 /\ Head(script[h]) = script[h][1]
  BY PopFacts
<1>3. Further(h, 1)
  <2>1. SubSeq(script[h], 1 + 1, Len(script[h])) = Tail(script[h])
    BY <1>1
  <2> QED BY <2>1 DEF Next1, Further
<1> QED BY <1>2, <1>3

\* Operations are left out, or have nothing to do with hooks.
Dropping(h) ==
  /\ Alive /\ stores[h] = <<>> /\ script[h] # <<>>
  /\ \E k \in 1..Len(script[h]) :
       /\ Further(h, k)
       /\ \A i \in 1..k :
            /\ script[h][i].op \notin {"enable", "patch", "arm", "spawn"}
            /\ script[h][i].op = "wait" => device \/ MayTimeOut
            /\ script[h][i].op = "install" /\ script[h][i].part = "core" => Refused(script[h][i].x)
  /\ UNCHANGED <<hookvars, calls, extensions, loaded, device>>

\* A detour is installed.
Installing(h) ==
  /\ Alive /\ stores[h] = <<>> /\ script[h] # <<>> /\ script[h][1].op = "install"
  /\ Install(h, script[h][1].x) /\ Further(h, 1) /\ 1 \in 1..Len(script[h])
  /\ UNCHANGED <<calls, extensions, loaded, device>>

LEMMA GivingUpIsDropping ==
  ASSUME ScriptInv, NEW h \in Threads, Alive, stores[h] = <<>>, script[h] # <<>>,
         Head(script[h]).part # "core", GiveUp(h),
         UNCHANGED <<hookvars, calls, extensions, loaded, device>>
  PROVE  Dropping(h)
<1>1. PICK n \in 1..(Len(script[h]) + 1) :
        /\ \A i \in 1..(n - 1) : script[h][i].part = Head(script[h]).part
        /\ n <= Len(script[h]) => script[h][n].part # Head(script[h]).part
        /\ script' = [script EXCEPT ![h] = SubSeq(@, n, Len(@))]
  BY DEF GiveUp
<1>2. script[h] \in Seq(Ops) /\ Len(script[h]) \in Nat /\ Len(script[h]) > 0
      /\ Head(script[h]) = script[h][1] /\ DOMAIN script[h] = 1..Len(script[h])
  BY PopFacts DEF ScriptInv
<1>3. n # 1
  BY <1>1, <1>2
<1>4. n - 1 \in 1..Len(script[h]) /\ (n - 1) + 1 = n
  BY <1>1, <1>2, <1>3
<1>5. Further(h, n - 1)
  BY <1>1, <1>4 DEF Further
<1>6. ASSUME NEW i \in 1..(n - 1)
      PROVE  /\ script[h][i].part # "core" /\ script[h][i].op \in Own1
             /\ script[h][i].op \notin {"enable", "patch", "arm", "spawn", "wait"}
  <2>1. i \in DOMAIN script[h]
    BY <1>2, <1>4
  <2> QED BY <1>1, <2>1 DEF ScriptInv, Own1
<1> QED BY <1>4, <1>5, <1>6 DEF Dropping

LEMMA RunKinds ==
  ASSUME ScriptInv, NEW h \in Threads, Run(h)
  PROVE  Dropping(h) \/ Installing(h) \/ DoEnable(h) \/ DoPatch(h) \/ DoArm(h) \/ DoStore(h) \/ DoSpawn(h)
<1>t. script \in [Threads -> Seq(Ops)]
  BY DEF ScriptInv
<1>1. ASSUME NEW op, Ready(h, op), Next1(h)
      PROVE  /\ Further(h, 1) /\ 1 \in 1..Len(script[h]) /\ Alive /\ stores[h] = <<>> /\ script[h] # <<>>
             /\ script[h][1].op = op /\ Arg(h) = script[h][1].x /\ Head(script[h]) = script[h][1]
  BY <1>t, <1>1, NextIsFurther DEF Ready, Arg
<1>2. ASSUME NEW op, Ready(h, op), Next1(h), UNCHANGED <<hookvars, calls, extensions, loaded, device>>,
             op \notin {"enable", "patch", "arm", "spawn", "install"},
             op = "wait" => device \/ MayTimeOut
      PROVE  Dropping(h)
  <2>1. \A i \in 1..1 : i = 1
    OBVIOUS
  <2> QED BY <1>1, <1>2, <2>1 DEF Dropping
<1>3. CASE DoInstall(h)
  <2>0. Ready(h, "install") /\ UNCHANGED <<calls, extensions, loaded, device>>
    BY <1>3 DEF DoInstall, runtimevars
  <2>1. CASE Install(h, Arg(h)) /\ Next1(h)
    BY <1>1, <2>0, <2>1 DEF Installing
  <2>2. CASE Refused(Arg(h)) /\ UNCHANGED hookvars /\ Head(script[h]).part = "core" /\ Next1(h)
    <3>1. \A i \in 1..1 : i = 1
      OBVIOUS
    <3> QED BY <1>1, <2>0, <2>2, <3>1 DEF Dropping
  <2>3. CASE UNCHANGED hookvars /\ Head(script[h]).part # "core" /\ GiveUp(h)
    BY <2>0, <2>3, GivingUpIsDropping DEF Ready
  <2> QED BY <1>3, <2>1, <2>2, <2>3 DEF DoInstall
<1>4. CASE DoReserve(h)
  BY <1>2, <1>4 DEF DoReserve
<1>5. CASE DoWait(h)
  BY <1>2, <1>5 DEF DoWait, runtimevars
<1>6. CASE DoPublish(h)
  BY <1>2, <1>6 DEF DoPublish
<1>7. CASE DoGet(h)
  BY <1>2, <1>7 DEF DoGet
<1>8. CASE DoRegister(h)
  BY <1>2, <1>8 DEF DoRegister, runtimevars
<1>9. CASE Decline(h)
  BY <1>9, GivingUpIsDropping DEF Decline, runtimevars
<1> QED BY <1>3, <1>4, <1>5, <1>6, <1>7, <1>8, <1>9 DEF Run

\* Nothing happens that has to do with hooks.
Quiet == UNCHANGED <<hookvars, script, calls, extensions, loaded, device>>

LEMMA HookSteps ==
  ASSUME ScriptInv, [Next]_vars
  PROVE  \/ \E h \in Threads : \/ Dropping(h) \/ Installing(h) \/ DoEnable(h) \/ DoPatch(h) \/ DoArm(h)
                               \/ DoStore(h) \/ DoSpawn(h)
         \/ EnterInit \/ LoadExtensions \/ EnterOther \/ Device \/ Proceed \/ Quiet
<1>1. Files \/ Buffers \/ Streams \/ UNCHANGED vars => Quiet
  BY DEF Files, Buffers, Streams, vars, runtimevars, Quiet
<1> QED BY <1>1, RunKinds DEF Next

(***************************************************************************)
(* Chains and pointers, whoever installs                                   *)
(***************************************************************************)
\* The detours that are in a chain; those whose pointer is about to be stored.
Present == {d \in Detours : d \in Members(links[Target[d]])}
Unset(d) == \E h \in Threads : \E i \in DOMAIN stores[h] : stores[h][i][1] = d

\* Chains are not empty, and MinHook was given their first detours.
ChainsInv ==
  /\ HookTypeOK
  /\ patched \subseteq Members(chains)
  /\ \A t \in Targets : t \in Members(chains) <=> links[t] # <<>>
  /\ \A t \in patched : head[t] = links[t][1]

\* Pointers stay within a chain; in one that MinHook has, they are set or about
\* to be.
PointersInv ==
  /\ \A d \in Detours : original[d] \in Detours => original[d] \in Present
  /\ \A h \in Threads : \A i \in DOMAIN stores[h] :
       /\ stores[h][i][1] \in Present
       /\ stores[h][i][2] \in Detours =>
            stores[h][i][2] \in Present /\ Target[stores[h][i][2]] = Target[stores[h][i][1]]
  /\ \A d \in Present : Target[d] \in patched /\ original[d] = "null" => Unset(d)

\* Calls are in live chains.
CallsInv ==
  /\ calls \in [Callers -> [target : Targets \cup {"none"}, at : Detours \cup {"none", "engine", "null"},
                             seen : Seq(Detours), due : SUBSET Detours]]
  /\ \A c \in Callers :
       /\ c # "client" => calls[c] = NoCall
       /\ calls[c].at \in Detours =>
            calls[c].at \in Present /\ Target[calls[c].at] \in patched /\ calls[c].target = Target[calls[c].at]

ChainInv == ScriptInv /\ ChainsInv /\ PointersInv /\ CallsInv

\* What Install does to the chain of d.
InstalledAt(d, p) ==
  LET t == Target[d]
      s == links[t]
  IN /\ t \in Targets /\ s \in Seq(Detours) /\ Len(s) \in Nat /\ p \in 0..Len(s)
     /\ t \in patched => p > 0
     /\ p > 0 => Priority[s[p]] <= Priority[d]
     /\ \A i \in (p + 1)..Len(s) : Priority[s[i]] > Priority[d]
     /\ links' \in [Targets -> Seq(Detours)] /\ \A u \in Targets : u # t => links'[u] = links[u]
     /\ Len(links'[t]) = Len(s) + 1
     /\ \A i \in 1..p : links'[t][i] = s[i]
     /\ links'[t][p + 1] = d
     /\ \A i \in (p + 1)..Len(s) : links'[t][i + 1] = s[i]

LEMMA InstallFacts ==
  ASSUME HookTypeOK, NEW h \in Threads, NEW d \in Detours, Install(h, d)
  PROVE  \E p \in 0..Len(links[Target[d]]) : InstalledAt(d, p)
<1> DEFINE t == Target[d]
           s == links[t]
<1>1. t \in Targets /\ s \in Seq(Detours) /\ links \in [Targets -> Seq(Detours)]
  BY HookAssumption DEF HookTypeOK
<1>2. PICK p \in Place(s, d) :
        /\ ~Refused(d)
        /\ links' = [links EXCEPT ![t] = SubSeq(s, 1, p) \o <<d>> \o SubSeq(s, p + 1, Len(s))]
  BY DEF Install
<1>w. links' = [links EXCEPT ![t] = With(s, p, d)]
  BY <1>2 DEF With
<1>3. /\ p \in 0..Len(s) /\ (p > 0 => Priority[s[p]] <= Priority[d])
      /\ \A i \in (p + 1)..Len(s) : Priority[s[i]] > Priority[d]
  BY DEF Place
<1>4. t \in patched => p > 0
  BY <1>2, <1>3 DEF Refused
<1> HIDE DEF s, t
<1> DEFINE r == With(s, p, d)
<1>5. /\ r \in Seq(Detours) /\ Len(s) \in Nat /\ Len(r) = Len(s) + 1
      /\ \A i \in 1..p : r[i] = s[i]
      /\ r[p + 1] = d
      /\ \A i \in (p + 1)..Len(s) : r[i + 1] = s[i]
  <2>0. s \in Seq(Detours) /\ d \in Detours /\ p \in 0..Len(s)
    BY <1>1, <1>3
  <2>1. r \in Seq(Detours) /\ Len(s) \in Nat /\ Len(r) = Len(s) + 1
    BY <2>0, WithFacts
  <2>2. \A i \in 1..p : r[i] = s[i]
    BY <2>0, WithFacts
  <2>3. r[p + 1] = d
    BY <2>0, WithFacts
  <2>4. \A i \in (p + 1)..Len(s) : r[i + 1] = s[i]
    BY <2>0, WithFacts
  <2> QED BY <2>1, <2>2, <2>3, <2>4
<1>6. /\ links' \in [Targets -> Seq(Detours)] /\ links'[t] = r
      /\ \A u \in Targets : u # t => links'[u] = links[u]
  <2>1. links' = [links EXCEPT ![t] = r]
    BY <1>w
  <2> HIDE DEF r
  <2> QED BY <1>1, <1>5, <2>1
<1> HIDE DEF r
<1>7. InstalledAt(d, p)
  BY <1>1, <1>3, <1>4, <1>5, <1>6 DEF InstalledAt, s, t
<1> QED BY <1>3, <1>7 DEF s, t

\* One detour more is in a chain, and nothing else changes about that.
LEMMA InstallMembers ==
  ASSUME HookTypeOK, NEW h \in Threads, NEW d \in Detours, Install(h, d)
  PROVE  /\ links' \in [Targets -> Seq(Detours)] /\ Target[d] \in Targets /\ links'[Target[d]] # <<>>
         /\ \A u \in Targets : u # Target[d] => links'[u] = links[u]
         /\ Members(links'[Target[d]]) = Members(links[Target[d]]) \cup {d}
         /\ Present' = Present \cup {d}
         /\ Target[d] \in patched => links'[Target[d]][1] = links[Target[d]][1]
<1> DEFINE t == Target[d]
           s == links[t]
<1>1. PICK p \in 0..Len(s) : InstalledAt(d, p)
  BY InstallFacts
<1>2. /\ t \in Targets /\ s \in Seq(Detours) /\ Len(s) \in Nat /\ p \in 0..Len(s)
      /\ t \in patched => p > 0
      /\ links' \in [Targets -> Seq(Detours)] /\ \A u \in Targets : u # t => links'[u] = links[u]
      /\ Len(links'[t]) = Len(s) + 1
      /\ \A i \in 1..p : links'[t][i] = s[i]
      /\ links'[t][p + 1] = d
      /\ \A i \in (p + 1)..Len(s) : links'[t][i + 1] = s[i]
  BY <1>1 DEF InstalledAt
<1> HIDE DEF s, t
<1>3. DOMAIN s = 1..Len(s) /\ DOMAIN links'[t] = 1..(Len(s) + 1)
  BY <1>2
<1>4. Members(links'[t]) = Members(s) \cup {d}
  <2>1. ASSUME NEW e \in Members(links'[t]) PROVE e \in Members(s) \cup {d}
    <3>1. PICK i \in 1..(Len(s) + 1) : e = links'[t][i]
      BY <1>3 DEF Members
    <3>2. CASE i \in 1..p
      BY <1>2, <1>3, <3>1, <3>2 DEF Members
    <3>3. CASE i = p + 1
      BY <1>2, <3>1, <3>3
    <3>4. CASE i > p + 1
      <4>1. i - 1 \in (p + 1)..Len(s) /\ i - 1 \in 1..Len(s) /\ (i - 1) + 1 = i
        BY <1>2, <3>1, <3>4
      <4>2. links'[t][i] = s[i - 1]
        BY <1>2, <4>1
      <4> QED BY <1>3, <3>1, <4>1, <4>2 DEF Members
    <3> QED BY <1>2, <3>2, <3>3, <3>4
  <2>2. d \in Members(links'[t])
    <3>1. p + 1 \in 1..(Len(s) + 1)
      BY <1>2
    <3> QED BY <1>2, <1>3, <3>1 DEF Members
  <2>3. ASSUME NEW e \in Members(s) PROVE e \in Members(links'[t])
    <3>1. PICK i \in 1..Len(s) : e = s[i]
      BY <1>3 DEF Members
    <3>2. CASE i \in 1..p
      <4>1. i \in 1..(Len(s) + 1)
        BY <1>2
      <4> QED BY <1>2, <1>3, <3>1, <3>2, <4>1 DEF Members
    <3>3. CASE i \in (p + 1)..Len(s)
      <4>1. i + 1 \in 1..(Len(s) + 1)
        BY <1>2, <3>3
      <4> QED BY <1>2, <1>3, <3>1, <3>3, <4>1 DEF Members
    <3> QED BY <1>2, <3>2, <3>3
  <2> QED BY <2>1, <2>2, <2>3
<1>5. links'[t] # <<>>
  <2>1. Len(links'[t]) # 0
    BY <1>2
  <2> QED BY <2>1, EmptySeq
<1>6. Present' = Present \cup {d}
  <2>1. ASSUME NEW e \in Detours PROVE e \in Present' <=> e \in Present \cup {d}
    <3>1. Target[e] \in Targets
      BY HookAssumption
    <3>2. CASE Target[e] = t
      BY <1>4, <3>2 DEF Present, s
    <3>3. CASE Target[e] # t
      BY <1>2, <3>1, <3>3 DEF Present, t
    <3> QED BY <3>2, <3>3
  <2> QED BY <2>1 DEF Present
<1>7. ASSUME t \in patched PROVE links'[t][1] = s[1]
  <2>1. 1 \in 1..p
    BY <1>2, <1>7
  <2> QED BY <1>2, <2>1
<1> QED BY <1>2, <1>4, <1>5, <1>6, <1>7 DEF s, t

LEMMA MembersFacts ==
  ASSUME NEW S, NEW s \in Seq(S)
  PROVE  /\ Members(s) \subseteq S /\ \A i \in 1..Len(s) : s[i] \in Members(s)
         /\ \A e \in Members(s) : \E i \in 1..Len(s) : e = s[i]
         /\ Len(s) \in Nat /\ DOMAIN s = 1..Len(s)
         /\ s # <<>> => Len(s) > 0 /\ s[1] \in Members(s) /\ Head(s) = s[1]
<1>1. Len(s) \in Nat /\ DOMAIN s = 1..Len(s)
  OBVIOUS
<1>2. s # <<>> => Len(s) > 0 /\ Head(s) = s[1]
  BY PopFacts
<1> QED BY <1>1, <1>2 DEF Members

\* The stores of a Relink stay in the chain; one that closes it reaches all.
LEMMA RelinkPairs ==
  ASSUME NEW t, NEW s \in Seq(Detours), NEW live,
         \A e \in Members(s) : Target[e] = t
  PROVE  /\ Relink(s, t \in live) \in Seq(Detours \X (Detours \cup {"engine"}))
         /\ \A i \in DOMAIN Relink(s, t \in live) :
              /\ Relink(s, t \in live)[i][1] \in Members(s)
              /\ Relink(s, t \in live)[i][2] \in Members(s) \cup {"engine"}
<1> DEFINE r == Relink(s, t \in live)
<1>1. /\ r \in Seq(Detours \X (Detours \cup {"engine"})) /\ Len(s) \in Nat
      /\ s # <<>> => Len(r) = IF t \in live THEN Len(s) ELSE Len(s) - 1
      /\ \A i \in DOMAIN r : /\ i \in 1..Len(s)
                             /\ r[i] = <<s[i], IF i = Len(s) THEN "engine" ELSE s[i + 1]>>
  BY RelinkFacts
<1> HIDE DEF r
<1>2. DOMAIN r = 1..Len(r)
  BY <1>1
<1>3. ASSUME NEW i \in DOMAIN r
      PROVE  r[i][1] \in Members(s) /\ r[i][2] \in Members(s) \cup {"engine"}
  <2>1. i \in 1..Len(s) /\ r[i] = <<s[i], IF i = Len(s) THEN "engine" ELSE s[i + 1]>>
    BY <1>1
  <2>2. s[i] \in Members(s)
    BY <2>1, MembersFacts
  <2>3. i # Len(s) => s[i + 1] \in Members(s)
    <3>1. i # Len(s) => i + 1 \in 1..Len(s)
      BY <1>1, <2>1
    <3> QED BY <3>1, MembersFacts
  <2> QED BY <2>1, <2>2, <2>3
<1> QED BY <1>1, <1>3 DEF r

LEMMA RelinkCovers ==
  ASSUME NEW s \in Seq(Detours), NEW e \in Members(s)
  PROVE  \E i \in DOMAIN Relink(s, TRUE) : Relink(s, TRUE)[i][1] = e
<1> DEFINE r == [i \in 1..Len(s) |-> <<s[i], IF i = Len(s) THEN "engine" ELSE s[i + 1]>>]
<1>1. Relink(s, TRUE) = r
  BY DEF Relink
<1>2. PICK i \in 1..Len(s) : e = s[i]
  BY MembersFacts
<1>3. i \in DOMAIN r /\ r[i][1] = e
  BY <1>2
<1> QED BY <1>1, <1>3

\* A chain is on one address.
LEMMA OneAddress ==
  ASSUME HookTypeOK
  PROVE  /\ \A t \in Targets : links[t] \in Seq(Detours)
         /\ \A t \in Targets : \A e \in Members(links[t]) : e \in Detours /\ Target[e] = t /\ e \in Present
         /\ \A e \in Present : e \in Detours /\ Target[e] \in Targets /\ e \in Members(links[Target[e]])
<1>1. \A t \in Targets : links[t] \in Seq(Detours)
  BY DEF HookTypeOK
<1>2. ASSUME NEW t \in Targets, NEW e \in Members(links[t])
      PROVE  e \in Detours /\ Target[e] = t
  BY <1>1, MembersFacts DEF HookTypeOK, Members
<1> QED BY <1>1, <1>2, HookAssumption DEF Present

LEMMA InstallKeepsChains ==
  ASSUME ChainsInv, PointersInv, NEW h \in Threads, NEW d \in Detours, stores[h] = <<>>, Install(h, d)
  PROVE  ChainsInv' /\ PointersInv' /\ Members(chains) \subseteq Members(chains')
<1> DEFINE t == Target[d]
<1>0. HookTypeOK
  BY DEF ChainsInv
<1>1. /\ links' \in [Targets -> Seq(Detours)] /\ t \in Targets /\ links'[t] # <<>>
      /\ \A u \in Targets : u # t => links'[u] = links[u]
      /\ Members(links'[t]) = Members(links[t]) \cup {d} /\ Present' = Present \cup {d}
      /\ t \in patched => links'[t][1] = links[t][1]
  BY <1>0, InstallMembers
<1>2. /\ stores' = [stores EXCEPT ![h] = Relink(links'[t], t \in patched)]
      /\ chains' = IF t \in Members(chains) THEN chains ELSE Append(chains, t)
      /\ installs' = installs + 1 /\ rank' = [rank EXCEPT ![d] = installs + 1]
      /\ UNCHANGED <<patched, head, armed, original, broken>>
  <2>1. links' = [links EXCEPT ![t] = links'[t]]
    BY <1>0 DEF Install, HookTypeOK
  <2> QED BY <1>0, <1>1 DEF Install, HookTypeOK
<1>3. \A u \in Targets : \A e \in Members(links'[u]) : Target[e] = u
  BY <1>0, <1>1, OneAddress
<1> DEFINE r == Relink(links'[t], t \in patched)
<1>4. /\ r \in Seq(Detours \X (Detours \cup {"engine"}))
      /\ \A i \in DOMAIN r : r[i][1] \in Members(links'[t]) /\ r[i][2] \in Members(links'[t]) \cup {"engine"}
      /\ t \in patched => \A e \in Members(links'[t]) : \E i \in DOMAIN r : r[i][1] = e
  <2>1. links'[t] \in Seq(Detours)
    BY <1>1
  <2>2. \A e \in Members(links'[t]) : Target[e] = t
    BY <1>1, <1>3
  <2>3. r \in Seq(Detours \X (Detours \cup {"engine"}))
    BY <2>1, <2>2, RelinkPairs
  <2>4. \A i \in DOMAIN r : r[i][1] \in Members(links'[t]) /\ r[i][2] \in Members(links'[t]) \cup {"engine"}
    BY <2>1, <2>2, RelinkPairs
  <2>5. ASSUME t \in patched, NEW e \in Members(links'[t]) PROVE \E i \in DOMAIN r : r[i][1] = e
    <3>1. r = Relink(links'[t], TRUE)
      BY <2>5 DEF Relink
    <3> HIDE DEF r
    <3>2. \E i \in DOMAIN Relink(links'[t], TRUE) : Relink(links'[t], TRUE)[i][1] = e
      BY <2>1, RelinkCovers
    <3> QED BY <3>1, <3>2
  <2> QED BY <2>3, <2>4, <2>5
<1>5. /\ stores' = [stores EXCEPT ![h] = r]
      /\ stores'[h] = r /\ \A g \in Threads : g # h => stores'[g] = stores[g]
  BY <1>0, <1>2 DEF HookTypeOK
<1>6. chains' \in Seq(Targets) /\ Members(chains') = Members(chains) \cup {t}
  <2>1. CASE t \in Members(chains)
    BY <1>0, <1>2, <2>1 DEF HookTypeOK
  <2>2. CASE t \notin Members(chains)
    <3>1. chains \in Seq(Targets) /\ chains' = Append(chains, t)
      BY <1>0, <1>2, <2>2 DEF HookTypeOK
    <3>2. /\ chains' \in Seq(Targets) /\ Len(chains) \in Nat /\ Len(chains') = Len(chains) + 1
          /\ \A i \in 1..Len(chains) : chains'[i] = chains[i]
          /\ chains'[Len(chains) + 1] = t
      BY <1>1, <3>1
    <3>3. DOMAIN chains = 1..Len(chains) /\ DOMAIN chains' = 1..(Len(chains) + 1)
      BY <3>1, <3>2
    <3>4. ASSUME NEW u \in Members(chains') PROVE u \in Members(chains) \cup {t}
      <4>1. PICK i \in 1..(Len(chains) + 1) : u = chains'[i]
        BY <3>3 DEF Members
      <4>2. i \in 1..Len(chains) \/ i = Len(chains) + 1
        BY <3>2
      <4> QED BY <3>2, <3>3, <4>1, <4>2 DEF Members
    <3>5. ASSUME NEW u \in Members(chains) PROVE u \in Members(chains')
      <4>1. PICK i \in 1..Len(chains) : u = chains[i]
        BY <3>3 DEF Members
      <4>2. i \in 1..(Len(chains) + 1)
        BY <3>2
      <4> QED BY <3>2, <3>3, <4>1, <4>2 DEF Members
    <3>6. t \in Members(chains')
      <4>1. Len(chains) + 1 \in 1..(Len(chains) + 1)
        BY <3>2
      <4> QED BY <3>2, <3>3, <4>1 DEF Members
    <3> QED BY <3>2, <3>4, <3>5, <3>6
  <2> QED BY <2>1, <2>2
<1> HIDE DEF t, r
<1>7. HookTypeOK'
  <2>1. /\ armed' \subseteq patched' /\ patched' \subseteq Targets
        /\ head' \in [Targets -> Detours \cup {"none"}]
        /\ original' \in [Detours -> Detours \cup {"engine", "null"}]
        /\ broken' \in BOOLEAN
        /\ \A e \in Detours : original'[e] \in Detours => Target[original'[e]] = Target[e]
    BY <1>0, <1>2 DEF HookTypeOK
  <2>2. installs' \in Nat /\ rank' \in [Detours -> Nat]
    BY <1>0, <1>2 DEF HookTypeOK
  <2>3. stores' \in [Threads -> Seq(Detours \X (Detours \cup {"engine"}))]
    BY <1>0, <1>4, <1>5 DEF HookTypeOK
  <2>4. \A u \in Targets : \A i \in DOMAIN links'[u] : Target[links'[u][i]] = u
    BY <1>3 DEF Members
  <2> QED BY <1>1, <1>6, <2>1, <2>2, <2>3, <2>4 DEF HookTypeOK
<1>8. ChainsInv'
  <2>1. patched' \subseteq Members(chains')
    BY <1>2, <1>6 DEF ChainsInv
  <2>2. \A u \in Targets : u \in Members(chains') <=> links'[u] # <<>>
    BY <1>1, <1>6 DEF ChainsInv
  <2>3. \A u \in patched' : head'[u] = links'[u][1]
    BY <1>0, <1>1, <1>2 DEF ChainsInv, HookTypeOK
  <2> QED BY <1>7, <2>1, <2>2, <2>3 DEF ChainsInv
<1>9. PointersInv'
  <2>1. \A e \in Detours : original'[e] \in Detours => original'[e] \in Present'
    BY <1>1, <1>2 DEF PointersInv
  <2>2. ASSUME NEW g \in Threads, NEW i \in DOMAIN stores'[g]
        PROVE  /\ stores'[g][i][1] \in Present'
               /\ stores'[g][i][2] \in Detours =>
                    stores'[g][i][2] \in Present' /\ Target[stores'[g][i][2]] = Target[stores'[g][i][1]]
    <3>1. CASE g = h
      <4>1. stores'[g][i][1] \in Members(links'[t]) /\ stores'[g][i][2] \in Members(links'[t]) \cup {"engine"}
        BY <1>4, <1>5, <3>1
      <4>2. \A e \in Members(links'[t]) : e \in Present' /\ Target[e] = t
        BY <1>0, <1>1, OneAddress DEF t
      <4> QED BY <4>1, <4>2, HookAssumption
    <3>2. CASE g # h
      BY <1>1, <1>5, <3>2 DEF PointersInv
    <3> QED BY <3>1, <3>2
  <2>3. ASSUME NEW e \in Present', Target[e] \in patched', original'[e] = "null" PROVE Unset(e)'
    <3>1. CASE Target[e] = t
      <4>1. e \in Members(links'[t])
        BY <1>1, <2>3, <3>1 DEF Present
      <4>2. \E i \in DOMAIN stores'[h] : stores'[h][i][1] = e
        BY <1>2, <1>4, <1>5, <2>3, <3>1, <4>1
      <4> QED BY <4>2 DEF Unset
    <3>2. CASE Target[e] # t
      <4>1. e \in Present
        BY <1>1, <3>2 DEF t
      <4>2. PICK g \in Threads : \E i \in DOMAIN stores[g] : stores[g][i][1] = e
        BY <1>2, <2>3, <4>1 DEF PointersInv, Unset
      <4>3. g # h
        BY <4>2
      <4> QED BY <1>5, <4>2, <4>3 DEF Unset
    <3> QED BY <3>1, <3>2
  <2> QED BY <2>1, <2>2, <2>3 DEF PointersInv
<1> QED BY <1>6, <1>8, <1>9

LEMMA PatchKeepsChains ==
  ASSUME ChainsInv, PointersInv, NEW h \in Threads, NEW t \in Members(chains), stores[h] = <<>>, Patch(h, t)
  PROVE  ChainsInv' /\ PointersInv' /\ Present' = Present /\ links' = links /\ chains' = chains
         /\ patched \subseteq patched'
<1>0. HookTypeOK /\ t \in Targets /\ links[t] # <<>>
  BY MembersFacts DEF ChainsInv, HookTypeOK
<1>1. CASE UNCHANGED <<chains, links, patched, head, armed, original, stores, installs, rank>> /\ broken' \in BOOLEAN
  <2>1. HookTypeOK'
    BY <1>0, <1>1 DEF HookTypeOK
  <2>2. ChainsInv'
    BY <1>1, <2>1 DEF ChainsInv, Members
  <2>3. Present' = Present /\ \A d : Unset(d) => Unset(d)'
    BY <1>1 DEF Present, Unset
  <2>4. PointersInv'
    BY <1>1, <2>3 DEF PointersInv
  <2> QED BY <1>1, <2>2, <2>3, <2>4
<1>2. CASE /\ t \notin patched
           /\ patched' = patched \cup {t} /\ head' = [head EXCEPT ![t] = Head(links[t])]
           /\ stores' = [stores EXCEPT ![h] = Relink(links[t], TRUE)]
           /\ UNCHANGED <<chains, links, armed, original, broken, installs, rank>>
  <2> DEFINE r == Relink(links[t], TRUE)
  <2>1. Present' = Present /\ links[t] \in Seq(Detours) /\ \A e \in Members(links[t]) : Target[e] = t /\ e \in Present
    BY <1>0, <1>2, OneAddress DEF Present
  <2>2. /\ r \in Seq(Detours \X (Detours \cup {"engine"}))
        /\ \A i \in DOMAIN r : r[i][1] \in Members(links[t]) /\ r[i][2] \in Members(links[t]) \cup {"engine"}
        /\ \A e \in Members(links[t]) : \E i \in DOMAIN r : r[i][1] = e
    <3>1. r = Relink(links[t], t \in {t})
      BY DEF Relink
    <3>2. \A e \in Members(links[t]) : \E i \in DOMAIN r : r[i][1] = e
      BY <2>1, RelinkCovers
    <3>3. r \in Seq(Detours \X (Detours \cup {"engine"}))
      BY <2>1, <3>1, RelinkPairs
    <3>4. \A i \in DOMAIN r : r[i][1] \in Members(links[t]) /\ r[i][2] \in Members(links[t]) \cup {"engine"}
      <4> HIDE DEF r
      <4> DEFINE q == Relink(links[t], t \in {t})
      <4>1. \A i \in DOMAIN q : q[i][1] \in Members(links[t]) /\ q[i][2] \in Members(links[t]) \cup {"engine"}
        BY <2>1, RelinkPairs
      <4> QED BY <3>1, <4>1
    <3> QED BY <3>2, <3>3, <3>4
  <2>3. stores' = [stores EXCEPT ![h] = r]
    BY <1>2
  <2> HIDE DEF r
  <2>4. stores'[h] = r /\ \A g \in Threads : g # h => stores'[g] = stores[g]
    BY <1>0, <2>3 DEF HookTypeOK
  <2>5. Head(links[t]) = links[t][1] /\ links[t][1] \in Detours
    BY <1>0, <2>1, PopFacts
  <2>6. HookTypeOK'
    <3>1. stores' \in [Threads -> Seq(Detours \X (Detours \cup {"engine"}))]
      BY <1>0, <2>2, <2>3 DEF HookTypeOK
    <3>2. head' \in [Targets -> Detours \cup {"none"}]
      BY <1>0, <1>2, <2>5 DEF HookTypeOK
    <3>3. armed' \subseteq patched' /\ patched' \subseteq Targets
      BY <1>0, <1>2 DEF HookTypeOK
    <3>4. UNCHANGED <<chains, links, original, broken, installs, rank>>
      BY <1>2
    <3> QED BY <1>0, <3>1, <3>2, <3>3, <3>4 DEF HookTypeOK
  <2>7. ChainsInv'
    <3>1. \A u \in patched' : head'[u] = links'[u][1]
      BY <1>0, <1>2, <2>5 DEF ChainsInv, HookTypeOK
    <3>2. patched' \subseteq Members(chains') /\ \A u \in Targets : u \in Members(chains') <=> links'[u] # <<>>
      BY <1>2 DEF ChainsInv, Members
    <3> QED BY <2>6, <3>1, <3>2 DEF ChainsInv
  <2>8. PointersInv'
    <3>1. \A e \in Detours : original'[e] \in Detours => original'[e] \in Present'
      BY <1>2, <2>1 DEF PointersInv
    <3>2. ASSUME NEW g \in Threads, NEW i \in DOMAIN stores'[g]
          PROVE  /\ stores'[g][i][1] \in Present'
                 /\ stores'[g][i][2] \in Detours =>
                      stores'[g][i][2] \in Present' /\ Target[stores'[g][i][2]] = Target[stores'[g][i][1]]
      <4>1. CASE g = h
        BY <2>1, <2>2, <2>4, <4>1, HookAssumption
      <4>2. CASE g # h
        BY <2>1, <2>4, <4>2 DEF PointersInv
      <4> QED BY <4>1, <4>2
    <3>3. ASSUME NEW e \in Present', Target[e] \in patched', original'[e] = "null" PROVE Unset(e)'
      <4>1. CASE Target[e] = t
        <5>1. e \in Members(links[t])
          BY <2>1, <3>3, <4>1 DEF Present
        <5>2. \E i \in DOMAIN stores'[h] : stores'[h][i][1] = e
          BY <2>2, <2>4, <5>1
        <5> QED BY <5>2 DEF Unset
      <4>2. CASE Target[e] # t
        <5>1. PICK g \in Threads : \E i \in DOMAIN stores[g] : stores[g][i][1] = e
          BY <1>2, <2>1, <3>3, <4>2 DEF PointersInv, Unset
        <5>2. g # h
          BY <5>1
        <5> QED BY <2>4, <5>1, <5>2 DEF Unset
      <4> QED BY <4>1, <4>2
    <3> QED BY <3>1, <3>2, <3>3 DEF PointersInv
  <2> QED BY <1>2, <2>1, <2>7, <2>8
<1> QED
  <2>1. HookTypeOK => broken \in BOOLEAN
    BY DEF HookTypeOK
  <2>2. ASSUME UNCHANGED <<chains, links, patched>> PROVE Present' = Present /\ links' = links /\ chains' = chains
         /\ patched \subseteq patched'
    BY <2>2 DEF Present
  <2> QED BY <1>0, <1>1, <1>2, <2>1, <2>2 DEF Patch, hookvars

LEMMA StoreKeepsChains ==
  ASSUME ChainsInv, PointersInv, NEW h \in Threads, Store(h)
  PROVE  ChainsInv' /\ PointersInv' /\ Present' = Present
<1> DEFINE q == stores[h]
           a == q[1][1]
           b == q[1][2]
<1>0. HookTypeOK
  BY DEF ChainsInv
<1>1. /\ q \in Seq(Detours \X (Detours \cup {"engine"})) /\ q # <<>>
      /\ UNCHANGED <<chains, links, patched, head, armed, broken, installs, rank>>
  BY <1>0 DEF Store, HookTypeOK
<1>2. /\ Tail(q) \in Seq(Detours \X (Detours \cup {"engine"})) /\ Len(q) \in Nat /\ Len(q) > 0
      /\ Len(Tail(q)) = Len(q) - 1 /\ Head(q) = q[1] /\ q[1] \in Detours \X (Detours \cup {"engine"})
      /\ \A i \in 1..(Len(q) - 1) : Tail(q)[i] = q[i + 1]
  BY <1>1, PopFacts
<1>3. /\ original' = [original EXCEPT ![a] = b]
      /\ stores' = [stores EXCEPT ![h] = Tail(q)]
      /\ a \in Detours /\ b \in Detours \cup {"engine"}
  BY <1>1, <1>2 DEF Store
<1>4. DOMAIN q = 1..Len(q) /\ DOMAIN Tail(q) = 1..(Len(q) - 1) /\ 1 \in DOMAIN q
  BY <1>1, <1>2
<1>5. Present' = Present
  BY <1>1 DEF Present
<1>6. a \in Present /\ (b \in Detours => b \in Present /\ Target[b] = Target[a])
  BY <1>4 DEF PointersInv
<1> HIDE DEF a, b
<1>7. stores'[h] = Tail(q) /\ \A g \in Threads : g # h => stores'[g] = stores[g]
  BY <1>0, <1>3 DEF HookTypeOK
<1>8. ASSUME NEW i \in DOMAIN stores'[h] PROVE i + 1 \in DOMAIN stores[h] /\ stores'[h][i] = stores[h][i + 1]
  <2>1. i \in 1..(Len(q) - 1)
    BY <1>4, <1>7
  <2>2. i + 1 \in 1..Len(q)
    BY <1>2, <2>1
  <2> QED BY <1>2, <1>4, <1>7, <2>1, <2>2
<1>9. HookTypeOK'
  <2>1. stores' \in [Threads -> Seq(Detours \X (Detours \cup {"engine"}))]
    BY <1>0, <1>2, <1>3 DEF HookTypeOK
  <2>2. /\ original' \in [Detours -> Detours \cup {"engine", "null"}]
        /\ \A d \in Detours : original'[d] \in Detours => Target[original'[d]] = Target[d]
    BY <1>0, <1>3, <1>6 DEF HookTypeOK
  <2> QED BY <1>0, <1>1, <2>1, <2>2 DEF HookTypeOK
<1>10. ChainsInv'
  BY <1>1, <1>9 DEF ChainsInv, Members
<1>11. PointersInv'
  <2>1. \A d \in Detours : original'[d] \in Detours => original'[d] \in Present'
    BY <1>0, <1>3, <1>5, <1>6 DEF PointersInv, HookTypeOK
  <2>2. ASSUME NEW g \in Threads, NEW i \in DOMAIN stores'[g]
        PROVE  /\ stores'[g][i][1] \in Present'
               /\ stores'[g][i][2] \in Detours =>
                    stores'[g][i][2] \in Present' /\ Target[stores'[g][i][2]] = Target[stores'[g][i][1]]
    <3>1. CASE g = h
      BY <1>5, <1>8, <3>1 DEF PointersInv
    <3>2. CASE g # h
      BY <1>5, <1>7, <3>2 DEF PointersInv
    <3> QED BY <3>1, <3>2
  <2>3. ASSUME NEW e \in Present', Target[e] \in patched', original'[e] = "null" PROVE Unset(e)'
    <3>1. e # a /\ original[e] = "null" /\ e \in Detours
      BY <1>0, <1>3, <2>3, HookAssumption DEF HookTypeOK, Present
    <3>2. PICK g \in Threads : \E i \in DOMAIN stores[g] : stores[g][i][1] = e
      BY <1>1, <1>5, <2>3, <3>1 DEF PointersInv, Unset
    <3>3. CASE g # h
      BY <1>7, <3>2, <3>3 DEF Unset
    <3>4. CASE g = h
      <4>1. PICK i \in 1..Len(q) : q[i][1] = e
        BY <1>4, <3>2, <3>4
      <4>2. i # 1
        BY <3>1, <4>1 DEF a
      <4>3. i - 1 \in 1..(Len(q) - 1) /\ (i - 1) + 1 = i
        BY <1>2, <4>1, <4>2
      <4>4. Tail(q)[i - 1] = q[i] /\ i - 1 \in DOMAIN stores'[h]
        BY <1>2, <1>4, <1>7, <4>3
      <4> QED BY <1>7, <4>1, <4>4 DEF Unset
    <3> QED BY <3>3, <3>4
  <2> QED BY <2>1, <2>2, <2>3 DEF PointersInv
<1> QED BY <1>5, <1>10, <1>11

LEMMA ArmKeepsChains ==
  ASSUME ChainsInv, PointersInv, Arm
  PROVE  ChainsInv' /\ PointersInv'
<1>1. /\ armed' \subseteq patched' /\ broken' \in BOOLEAN
      /\ UNCHANGED <<chains, links, patched, head, original, stores, installs, rank>>
  BY DEF Arm, ChainsInv, HookTypeOK
<1> QED BY <1>1 DEF ChainsInv, PointersInv, HookTypeOK, Present, Unset, Members

(***************************************************************************)
(* The scripts of the core and of an installation                          *)
(***************************************************************************)
LEMMA DoIsOp ==
  ASSUME NEW op \in Own1 \cup {"enable", "patch", "arm", "reserve", "spawn", "wait"}, NEW x \in Arguments
  PROVE  Do(op, x) \in Ops /\ Do(op, x).op = op /\ Do(op, x).x = x /\ Do(op, x).part = "core"
BY DEF Do, Ops

LEMMA ArgumentsFacts ==
  /\ Detours \subseteq Arguments /\ Targets \subseteq Arguments
  /\ {"all", "main", "device", "wxl.m2arena"} \subseteq Arguments
BY DEF Arguments

LEMMA InstallAllFacts ==
  ASSUME NEW ds \in Seq(Detours)
  PROVE  /\ InstallAll(ds) \in Seq(Ops) /\ Len(ds) \in Nat /\ Len(InstallAll(ds)) = Len(ds)
         /\ \A i \in 1..Len(ds) : InstallAll(ds)[i] = Do("install", ds[i]) /\ ds[i] \in Detours
<1>1. Len(ds) \in Nat /\ \A i \in 1..Len(ds) : ds[i] \in Detours
  OBVIOUS
<1>2. \A i \in 1..Len(ds) : Do("install", ds[i]) \in Ops
  BY <1>1, DoIsOp, ArgumentsFacts DEF Own1
<1>3. InstallAll(ds) = [i \in 1..Len(ds) |-> Do("install", ds[i])]
  BY DEF InstallAll
<1>4. InstallAll(ds) \in Seq(Ops) /\ Len(InstallAll(ds)) = Len(ds)
  BY <1>1, <1>2, <1>3
<1> QED BY <1>1, <1>3, <1>4

\* One sequence after the other.
LEMMA JoinFacts ==
  ASSUME NEW S, NEW a \in Seq(S), NEW b \in Seq(S)
  PROVE  /\ a \o b \in Seq(S) /\ Len(a) \in Nat /\ Len(b) \in Nat /\ Len(a \o b) = Len(a) + Len(b)
         /\ \A i \in 1..Len(a) : (a \o b)[i] = a[i]
         /\ \A i \in 1..Len(b) : (a \o b)[Len(a) + i] = b[i]
<1>1. a \o b \in Seq(S) /\ Len(a) \in Nat /\ Len(b) \in Nat
  OBVIOUS
<1>2. Len(a \o b) = Len(a) + Len(b)
  BY ConcatProperties
<1>3. \A i \in 1..(Len(a) + Len(b)) : (a \o b)[i] = IF i <= Len(a) THEN a[i] ELSE b[i - Len(a)]
  BY ConcatProperties
<1>4. ASSUME NEW i \in 1..Len(a) PROVE (a \o b)[i] = a[i]
  <2>1. i \in 1..(Len(a) + Len(b)) /\ i <= Len(a)
    BY <1>1
  <2> QED BY <1>3, <2>1
<1>5. ASSUME NEW i \in 1..Len(b) PROVE (a \o b)[Len(a) + i] = b[i]
  <2>1. Len(a) + i \in 1..(Len(a) + Len(b)) /\ ~(Len(a) + i <= Len(a)) /\ (Len(a) + i) - Len(a) = i
    BY <1>1
  <2> QED BY <1>3, <2>1
<1> QED BY <1>1, <1>2, <1>4, <1>5

\* The operations that the core itself starts with.
CoreOps ==
  {o \in Ops : o.part = "core" /\ o.op # "patch" /\ (o.op = "install" => o.x \in Detours)}

LEMMA CoreScripts == MainThread \in Seq(CoreOps) /\ DllMain \in Seq(CoreOps)
<1>1. ASSUME NEW op \in {"enable", "arm", "reserve", "spawn", "wait"}, NEW x \in {"all", "main", "device", "wxl.m2arena"}
      PROVE  Do(op, x) \in CoreOps
  <2>1. x \in Arguments
    BY ArgumentsFacts
  <2>2. Do(op, x) \in Ops /\ Do(op, x).op = op /\ Do(op, x).part = "core"
    BY <2>1, DoIsOp
  <2> QED BY <2>2 DEF CoreOps
<1>2. ASSUME NEW d \in Detours PROVE Do("install", d) \in CoreOps
  <2>1. d \in Arguments
    BY ArgumentsFacts
  <2>2. Do("install", d) \in Ops /\ Do("install", d).x = d /\ Do("install", d).op = "install" /\ Do("install", d).part = "core"
    BY <2>1, DoIsOp DEF Own1
  <2> QED BY <2>2 DEF CoreOps
<1>3. ASSUME NEW ds \in Seq(Detours) PROVE InstallAll(ds) \in Seq(CoreOps)
  <2>1. Len(ds) \in Nat /\ \A i \in 1..Len(ds) : Do("install", ds[i]) \in CoreOps
    BY <1>2
  <2> QED BY <2>1 DEF InstallAll
<1>4. Boot \in Seq(Detours) /\ Features \in Seq(Detours) /\ StorageOps \subseteq Detours /\ "loader" \in Detours
  BY RuntimeAssumption
<1>5. <<"open", "size", "read", "seek", "close">> \in Seq(Detours)
  BY <1>4 DEF StorageOps
<1>6. InstallAll(<<"open", "size", "read", "seek", "close">>) \in Seq(CoreOps)
  BY <1>3, <1>5
<1>7. InstallAll(Boot) \in Seq(CoreOps) /\ InstallAll(Features) \in Seq(CoreOps)
  BY <1>3, <1>4
<1>8. /\ <<Do("wait", "device")>> \in Seq(CoreOps) /\ <<Do("enable", "all")>> \in Seq(CoreOps)
      /\ <<Do("enable", "all"), Do("install", "loader"), Do("reserve", "wxl.m2arena")>> \in Seq(CoreOps)
      /\ <<Do("enable", "all"), Do("spawn", "main")>> \in Seq(CoreOps)
  BY <1>1, <1>2, <1>4
<1>9. ASSUME NEW a \in Seq(CoreOps), NEW b \in Seq(CoreOps) PROVE a \o b \in Seq(CoreOps)
  OBVIOUS
<1> HIDE DEF CoreOps
<1>10. MainThread \in Seq(CoreOps)
  BY <1>6, <1>7, <1>8, <1>9 DEF MainThread
<1>11. DllMain \in Seq(CoreOps)
  BY <1>7, <1>8, <1>9 DEF DllMain
<1> QED BY <1>10, <1>11

\* What LoadAll runs.
LEMMA LoadScript ==
  ASSUME NEW exts \in Installations
  PROVE  /\ exts \in Seq(Ops) /\ LoadAll(exts) \in Seq(Ops)
         /\ Len(exts) \in Nat /\ Len(LoadAll(exts)) = Len(exts) + 1
         /\ \A i \in 1..Len(exts) : /\ LoadAll(exts)[i] = exts[i] /\ exts[i].op \in Own1 /\ exts[i].part # "core"
                                    /\ exts[i].op = "install" => exts[i].x \in Attached(exts)
         /\ LoadAll(exts)[Len(exts) + 1] = Do("enable", "all")
         /\ Attached(exts) \subseteq Detours
<1>1. /\ exts \in Seq([op : Own1, x : {o.x : o \in Members(exts)}, part : {o.part : o \in Members(exts)}])
      /\ \A i \in DOMAIN exts : exts[i].part # "core"
      /\ Attached(exts) \subseteq Detours
  BY RuntimeAssumption DEF Own1
<1>2. Len(exts) \in Nat /\ DOMAIN exts = 1..Len(exts)
  BY <1>1
<1>3. ASSUME NEW i \in 1..Len(exts)
      PROVE  exts[i] \in Ops /\ exts[i].op \in Own1 /\ (exts[i].op = "install" => exts[i].x \in Attached(exts))
  <2>1. exts[i] \in [op : Own1, x : {o.x : o \in Members(exts)}, part : {o.part : o \in Members(exts)}]
    <3> DEFINE S == [op : Own1, x : {o.x : o \in Members(exts)}, part : {o.part : o \in Members(exts)}]
    <3>1. exts \in Seq(S)
      BY <1>1
    <3> HIDE DEF S
    <3>2. exts[i] \in S
      BY <1>2, <3>1
    <3> QED BY <3>2 DEF S
  <2>2. exts[i] \in Members(exts)
    BY <1>2 DEF Members
  <2>3. {o.x : o \in Members(exts)} \subseteq Arguments /\ {o.part : o \in Members(exts)} \subseteq Folders
    BY DEF Arguments, Folders
  <2>4. exts[i] \in Ops
    BY <2>1, <2>3 DEF Ops
  <2> QED BY <2>1, <2>2, <2>4 DEF Attached
<1>4. exts \in Seq(Ops)
  <2>1. exts \in [1..Len(exts) -> Ops]
    <3>1. exts = [i \in 1..Len(exts) |-> exts[i]]
      BY <1>1, <1>2
    <3> QED BY <1>3, <3>1
  <2> QED BY <1>2, <2>1
<1> DEFINE e == <<Do("enable", "all")>>
<1>5. e \in Seq(Ops) /\ Len(e) = 1 /\ e[1] = Do("enable", "all")
  <2>1. Do("enable", "all") \in Ops
    BY DoIsOp, ArgumentsFacts
  <2> QED BY <2>1
<1>6. LoadAll(exts) = exts \o e
  BY DEF LoadAll
<1> HIDE DEF e
<1>7. /\ exts \o e \in Seq(Ops) /\ Len(exts \o e) = Len(exts) + Len(e)
      /\ \A i \in 1..Len(exts) : (exts \o e)[i] = exts[i]
      /\ \A i \in 1..Len(e) : (exts \o e)[Len(exts) + i] = e[i]
  <2>0. exts \in Seq(Ops) /\ e \in Seq(Ops)
    BY <1>4, <1>5
  <2>1. exts \o e \in Seq(Ops)
    BY <2>0
  <2>2. Len(exts \o e) = Len(exts) + Len(e)
    BY <2>0, JoinFacts
  <2>3. \A i \in 1..Len(exts) : (exts \o e)[i] = exts[i]
    BY <2>0, JoinFacts
  <2>4. \A i \in 1..Len(e) : (exts \o e)[Len(exts) + i] = e[i]
    BY <2>0, JoinFacts
  <2> QED BY <2>1, <2>2, <2>3, <2>4
<1>8. (exts \o e)[Len(exts) + 1] = Do("enable", "all")
  <2>1. 1 \in 1..Len(e)
    BY <1>5
  <2> QED BY <1>5, <1>7, <2>1
<1>9. \A i \in 1..Len(exts) : exts[i].part # "core"
  BY <1>1, <1>2
<1>10. Len(exts \o e) = Len(exts) + 1
  BY <1>5, <1>7
<1> HIDE DEF CoreOps, Ops
<1> QED BY <1>1, <1>2, <1>3, <1>4, <1>6, <1>7, <1>8, <1>9, <1>10

\* What EnableAll puts in front of the rest.
EnableIs(h) ==
  LET n == Len(chains)
      m == Len(script[h])
  IN /\ n \in Nat /\ m \in Nat /\ m > 0
     /\ script' \in [Threads -> Seq(Ops)] /\ \A g \in Threads : g # h => script'[g] = script[g]
     /\ Len(script'[h]) = n + m
     /\ \A i \in 1..n : script'[h][i] = Do("patch", chains[i]) /\ chains[i] \in Members(chains) /\ chains[i] \in Targets
     /\ script'[h][n + 1] = Do("arm", "all")
     /\ \A i \in 1..(m - 1) : script'[h][n + 1 + i] = script[h][i + 1]

LEMMA EnableFacts ==
  ASSUME ScriptInv, HookTypeOK, NEW h \in Threads, DoEnable(h)
  PROVE  EnableIs(h)
<1> DEFINE n == Len(chains)
           m == Len(script[h])
           a == [i \in 1..n |-> Do("patch", chains[i])]
           b == <<Do("arm", "all")>>
           c == Tail(script[h])
           ab == a \o b
<1>1. /\ script' = [script EXCEPT ![h] = (a \o b) \o Tail(@)]
      /\ script[h] # <<>> /\ script \in [Threads -> Seq(Ops)] /\ chains \in Seq(Targets)
  BY DEF DoEnable, Ready, ScriptInv, HookTypeOK
<1>2. n \in Nat /\ \A i \in 1..n : chains[i] \in Members(chains) /\ chains[i] \in Targets
  BY <1>1, MembersFacts
<1>3. a \in Seq(Ops) /\ Len(a) = n /\ \A i \in 1..n : a[i] = Do("patch", chains[i])
  <2>1. \A i \in 1..n : Do("patch", chains[i]) \in Ops
    BY <1>2, DoIsOp, ArgumentsFacts
  <2> QED BY <1>2, <2>1
<1>4. b \in Seq(Ops) /\ Len(b) = 1 /\ b[1] = Do("arm", "all")
  <2>1. Do("arm", "all") \in Ops
    BY DoIsOp, ArgumentsFacts
  <2> QED BY <2>1
<1>5. /\ c \in Seq(Ops) /\ m \in Nat /\ m > 0 /\ Len(c) = m - 1
      /\ \A i \in 1..(m - 1) : c[i] = script[h][i + 1]
  <2>1. script[h] \in Seq(Ops)
    BY <1>1
  <2> QED BY <1>1, <2>1, PopFacts
<1> HIDE DEF a, b, c, m, n
<1>6. ab \in Seq(Ops) /\ Len(ab) = n + 1 /\ (\A i \in 1..n : ab[i] = a[i]) /\ ab[n + 1] = b[1]
  <2>1. ab \in Seq(Ops)
    BY <1>3, <1>4
  <2>2. Len(a \o b) = Len(a) + Len(b)
    BY <1>3, <1>4, JoinFacts
  <2>3. \A i \in 1..Len(a) : (a \o b)[i] = a[i]
    BY <1>3, <1>4, JoinFacts
  <2>4. \A i \in 1..Len(b) : (a \o b)[Len(a) + i] = b[i]
    BY <1>3, <1>4, JoinFacts
  <2>5. 1 \in 1..Len(b)
    BY <1>4
  <2> QED BY <1>3, <1>4, <2>1, <2>2, <2>3, <2>4, <2>5
<1>7. script' = [script EXCEPT ![h] = ab \o c]
  BY <1>1 DEF c
<1> HIDE DEF ab
<1> DEFINE r == ab \o c
<1>8. /\ r \in Seq(Ops) /\ Len(r) = (n + 1) + (m - 1)
      /\ \A i \in 1..(n + 1) : r[i] = ab[i]
      /\ \A i \in 1..(m - 1) : r[n + 1 + i] = c[i]
  <2>1. r \in Seq(Ops)
    BY <1>5, <1>6
  <2>2. Len(ab \o c) = Len(ab) + Len(c)
    BY <1>5, <1>6, JoinFacts
  <2>3. \A i \in 1..Len(ab) : (ab \o c)[i] = ab[i]
    BY <1>5, <1>6, JoinFacts
  <2>4. \A i \in 1..Len(c) : (ab \o c)[Len(ab) + i] = c[i]
    BY <1>5, <1>6, JoinFacts
  <2> QED BY <1>5, <1>6, <2>1, <2>2, <2>3, <2>4
<1>9. script'[h] = r /\ \A g \in Threads : g # h => script'[g] = script[g]
  BY <1>1, <1>7
<1> HIDE DEF r
<1>10. script' \in [Threads -> Seq(Ops)]
  <2>1. script' = [script EXCEPT ![h] = r]
    BY <1>7 DEF r
  <2> QED BY <1>1, <1>8, <2>1
<1>11. (n + 1) + (m - 1) = n + m /\ \A i \in 1..n : i \in 1..(n + 1)
  BY <1>2, <1>5
<1>12. n + 1 \in 1..(n + 1)
  BY <1>2
<1>13. \A i \in 1..n : r[i] = Do("patch", chains[i])
  BY <1>3, <1>6, <1>8, <1>11
<1>14. r[n + 1] = Do("arm", "all")
  BY <1>4, <1>6, <1>8, <1>12
<1> QED BY <1>2, <1>5, <1>8, <1>9, <1>10, <1>11, <1>13, <1>14 DEF EnableIs, n, m

LEMMA FurtherKeepsScripts ==
  ASSUME ScriptInv, NEW h \in Threads, NEW k \in 1..Len(script[h]), Further(h, k),
         extensions' = extensions, Members(chains) \subseteq Members(chains')
  PROVE  ScriptInv'
<1>1. /\ script \in [Threads -> Seq(Ops)] /\ extensions \in Installations
      /\ \A g \in Threads : \A i \in DOMAIN script[g] :
           /\ script[g][i].op = "install" => script[g][i].x \in Detours
           /\ script[g][i].op = "patch" => script[g][i].x \in Members(chains)
           /\ script[g][i].part # "core" => script[g][i].op \in Own1
  BY DEF ScriptInv
<1>2. /\ script' \in [Threads -> Seq(Ops)] /\ \A g \in Threads : g # h => script'[g] = script[g]
      /\ Len(script[h]) \in Nat /\ DOMAIN script[h] = 1..Len(script[h])
      /\ DOMAIN script'[h] = 1..(Len(script[h]) - k)
      /\ \A i \in 1..(Len(script[h]) - k) : script'[h][i] = script[h][i + k]
  BY <1>1, FurtherFacts
<1>3. ASSUME NEW i \in DOMAIN script'[h] PROVE i + k \in DOMAIN script[h] /\ script'[h][i] = script[h][i + k]
  <2>1. i \in 1..(Len(script[h]) - k)
    BY <1>2
  <2>2. i + k \in 1..Len(script[h])
    BY <1>2, <2>1
  <2> QED BY <1>2, <2>1, <2>2
<1>4. ASSUME NEW g \in Threads, NEW i \in DOMAIN script'[g]
      PROVE  /\ script'[g][i].op = "install" => script'[g][i].x \in Detours
             /\ script'[g][i].op = "patch" => script'[g][i].x \in Members(chains')
             /\ script'[g][i].part # "core" => script'[g][i].op \in Own1
  <2>1. CASE g = h
    BY <1>1, <1>3, <2>1
  <2>2. CASE g # h
    BY <1>1, <1>2, <2>2
  <2> QED BY <2>1, <2>2
<1> QED BY <1>1, <1>2, <1>4 DEF ScriptInv

LEMMA EnableKeepsScripts ==
  ASSUME ScriptInv, HookTypeOK, NEW h \in Threads, DoEnable(h)
  PROVE  ScriptInv'
<1> DEFINE n == Len(chains)
           m == Len(script[h])
<1>1. /\ script \in [Threads -> Seq(Ops)] /\ extensions' \in Installations /\ chains' = chains
      /\ \A g \in Threads : \A i \in DOMAIN script[g] :
           /\ script[g][i].op = "install" => script[g][i].x \in Detours
           /\ script[g][i].op = "patch" => script[g][i].x \in Members(chains)
           /\ script[g][i].part # "core" => script[g][i].op \in Own1
  BY DEF ScriptInv, DoEnable, hookvars, runtimevars
<1>2. /\ n \in Nat /\ m \in Nat /\ m > 0
      /\ script' \in [Threads -> Seq(Ops)] /\ \A g \in Threads : g # h => script'[g] = script[g]
      /\ Len(script'[h]) = n + m
      /\ \A i \in 1..n : script'[h][i] = Do("patch", chains[i]) /\ chains[i] \in Members(chains) /\ chains[i] \in Targets
      /\ script'[h][n + 1] = Do("arm", "all")
      /\ \A i \in 1..(m - 1) : script'[h][n + 1 + i] = script[h][i + 1]
  BY EnableFacts DEF EnableIs
<1>3. DOMAIN script[h] = 1..m /\ DOMAIN script'[h] = 1..(n + m)
  BY <1>1, <1>2
<1> HIDE DEF n, m
<1>4. ASSUME NEW i \in DOMAIN script'[h]
      PROVE  /\ script'[h][i].op = "install" => script'[h][i].x \in Detours
             /\ script'[h][i].op = "patch" => script'[h][i].x \in Members(chains)
             /\ script'[h][i].part # "core" => script'[h][i].op \in Own1
  <2>1. CASE i \in 1..n
    <3>1. script'[h][i] = Do("patch", chains[i]) /\ chains[i] \in Members(chains)
      BY <1>2, <2>1
    <3>2. Do("patch", chains[i]).op = "patch" /\ Do("patch", chains[i]).x = chains[i] /\ Do("patch", chains[i]).part = "core"
      BY DEF Do
    <3> QED BY <3>1, <3>2
  <2>2. CASE i = n + 1
    BY <1>2, <2>2 DEF Do
  <2>3. CASE i > n + 1
    <3>0. i \in 1..(n + m) /\ n \in Nat /\ m \in Nat
      BY <1>2, <1>3
    <3>1. i - (n + 1) \in 1..(m - 1) /\ n + 1 + (i - (n + 1)) = i /\ (i - (n + 1)) + 1 \in 1..m
      BY <2>3, <3>0
    <3>2. script'[h][i] = script[h][(i - (n + 1)) + 1]
      BY <1>2, <3>1
    <3> QED BY <1>1, <1>3, <3>1, <3>2
  <2>4. i \in 1..n \/ i = n + 1 \/ i > n + 1
    BY <1>2, <1>3
  <2> QED BY <2>1, <2>2, <2>3, <2>4
<1>5. ASSUME NEW g \in Threads, NEW i \in DOMAIN script'[g]
      PROVE  /\ script'[g][i].op = "install" => script'[g][i].x \in Detours
             /\ script'[g][i].op = "patch" => script'[g][i].x \in Members(chains')
             /\ script'[g][i].part # "core" => script'[g][i].op \in Own1
  BY <1>1, <1>2, <1>4
<1> QED BY <1>1, <1>2, <1>5 DEF ScriptInv

\* A script of the core is put in place of one.
LEMMA CoreKeepsScripts ==
  ASSUME ScriptInv, NEW s \in Seq(CoreOps), NEW h \in Threads, NEW g \in Threads, script' = [script EXCEPT ![h] = Tail(@), ![g] = s],
         script[h] # <<>>, extensions' = extensions, chains' = chains
  PROVE  ScriptInv'
<1>1. /\ script \in [Threads -> Seq(Ops)] /\ extensions \in Installations
      /\ \A f \in Threads : \A i \in DOMAIN script[f] :
           /\ script[f][i].op = "install" => script[f][i].x \in Detours
           /\ script[f][i].op = "patch" => script[f][i].x \in Members(chains)
           /\ script[f][i].part # "core" => script[f][i].op \in Own1
  BY DEF ScriptInv
<1>2. s \in Seq(Ops) /\ \A i \in DOMAIN s : s[i] \in CoreOps
  <2>1. Len(s) \in Nat /\ DOMAIN s = 1..Len(s) /\ \A i \in 1..Len(s) : s[i] \in CoreOps
    BY MembersFacts
  <2>2. s \in [1..Len(s) -> Ops]
    BY <2>1 DEF CoreOps
  <2> QED BY <2>1, <2>2
<1>3. /\ Tail(script[h]) \in Seq(Ops) /\ Len(script[h]) \in Nat /\ Len(script[h]) > 0
      /\ Len(Tail(script[h])) = Len(script[h]) - 1
      /\ \A i \in 1..(Len(script[h]) - 1) : Tail(script[h])[i] = script[h][i + 1]
  <2>1. script[h] \in Seq(Ops)
    BY <1>1
  <2> QED BY <2>1, PopFacts
<1>4. ASSUME NEW i \in DOMAIN Tail(script[h]) PROVE i + 1 \in DOMAIN script[h] /\ Tail(script[h])[i] = script[h][i + 1]
  <2>1. i \in 1..(Len(script[h]) - 1) /\ DOMAIN script[h] = 1..Len(script[h])
    BY <1>1, <1>3
  <2>2. i + 1 \in 1..Len(script[h])
    BY <1>3, <2>1
  <2> QED BY <1>3, <2>1, <2>2
<1>5. (h # g => script'[h] = Tail(script[h])) /\ script'[g] = s /\ \A f \in Threads : f # h /\ f # g => script'[f] = script[f]
  BY <1>1
<1>6. script' \in [Threads -> Seq(Ops)]
  BY <1>1, <1>2, <1>3
<1>7. ASSUME NEW f \in Threads, NEW i \in DOMAIN script'[f]
      PROVE  /\ script'[f][i].op = "install" => script'[f][i].x \in Detours
             /\ script'[f][i].op = "patch" => script'[f][i].x \in Members(chains')
             /\ script'[f][i].part # "core" => script'[f][i].op \in Own1
  <2>1. CASE f = h /\ f # g
    BY <1>1, <1>4, <1>5, <2>1
  <2>2. CASE f = g
    BY <1>2, <1>5, <2>2 DEF CoreOps
  <2>3. CASE f # h /\ f # g
    BY <1>1, <1>5, <2>3
  <2> QED BY <2>1, <2>2, <2>3
<1> QED BY <1>1, <1>6, <1>7 DEF ScriptInv

LEMMA LoadKeepsScripts ==
  ASSUME ScriptInv, LoadExtensions
  PROVE  ScriptInv'
<1>1. /\ script \in [Threads -> Seq(Ops)] /\ extensions \in Installations
      /\ \A f \in Threads : \A i \in DOMAIN script[f] :
           /\ script[f][i].op = "install" => script[f][i].x \in Detours
           /\ script[f][i].op = "patch" => script[f][i].x \in Members(chains)
           /\ script[f][i].part # "core" => script[f][i].op \in Own1
  BY DEF ScriptInv
<1>2. script' = [script EXCEPT !["client"] = LoadAll(extensions)] /\ extensions' = extensions /\ chains' = chains
  BY DEF LoadExtensions, hookvars
<1>3. /\ LoadAll(extensions) \in Seq(Ops) /\ Len(extensions) \in Nat /\ Len(LoadAll(extensions)) = Len(extensions) + 1
      /\ \A i \in 1..Len(extensions) :
           /\ LoadAll(extensions)[i] = extensions[i] /\ extensions[i].op \in Own1 /\ extensions[i].part # "core"
           /\ extensions[i].op = "install" => extensions[i].x \in Attached(extensions)
      /\ LoadAll(extensions)[Len(extensions) + 1] = Do("enable", "all")
      /\ Attached(extensions) \subseteq Detours
  BY <1>1, LoadScript
<1> DEFINE s == LoadAll(extensions)
<1>4. DOMAIN s = 1..(Len(extensions) + 1)
  BY <1>3
<1> HIDE DEF s
<1>5. ASSUME NEW i \in DOMAIN s
      PROVE  /\ s[i].op = "install" => s[i].x \in Detours
             /\ s[i].op # "patch"
             /\ s[i].part # "core" => s[i].op \in Own1
  <2>1. CASE i \in 1..Len(extensions)
    BY <1>3, <2>1 DEF s, Own1
  <2>2. CASE i = Len(extensions) + 1
    BY <1>3, <2>2 DEF s, Do
  <2>3. i \in 1..Len(extensions) \/ i = Len(extensions) + 1
    BY <1>3, <1>4
  <2> QED BY <2>1, <2>2, <2>3
<1>6. "client" \in Threads
  BY RuntimeAssumption
<1>7. script' \in [Threads -> Seq(Ops)] /\ script'["client"] = s /\ \A g \in Threads : g # "client" => script'[g] = script[g]
  BY <1>1, <1>2, <1>3, <1>6 DEF s
<1>8. ASSUME NEW g \in Threads, NEW i \in DOMAIN script'[g]
      PROVE  /\ script'[g][i].op = "install" => script'[g][i].x \in Detours
             /\ script'[g][i].op = "patch" => script'[g][i].x \in Members(chains')
             /\ script'[g][i].part # "core" => script'[g][i].op \in Own1
  <2>1. CASE g = "client"
    BY <1>5, <1>7, <2>1
  <2>2. CASE g # "client"
    BY <1>1, <1>2, <1>7, <2>2
  <2> QED BY <2>1, <2>2
<1> QED BY <1>1, <1>2, <1>7, <1>8 DEF ScriptInv

(***************************************************************************)
(* What every step keeps of scripts, chains, pointers and calls            *)
(***************************************************************************)
LEMMA InitChains == Init => ChainInv
<1> SUFFICES ASSUME Init PROVE ChainInv
  OBVIOUS
<1>0. /\ HookInit /\ CallInit /\ script = [h \in Threads |-> IF h = "client" THEN DllMain ELSE <<>>]
      /\ extensions \in Installations
  BY DEF Init
<1>1. ScriptInv
  <2>1. DllMain \in Seq(CoreOps) /\ Len(DllMain) \in Nat /\ DOMAIN DllMain = 1..Len(DllMain)
        /\ \A i \in DOMAIN DllMain : DllMain[i] \in CoreOps
    <3>1. DllMain \in Seq(CoreOps)
      BY CoreScripts
    <3> QED BY <3>1
  <2>2. DllMain \in Seq(Ops)
    <3>1. DllMain \in [1..Len(DllMain) -> Ops]
      <4>1. DllMain = [i \in 1..Len(DllMain) |-> DllMain[i]]
        BY <2>1
      <4> QED BY <2>1, <4>1 DEF CoreOps
    <3> QED BY <2>1, <3>1
  <2>3. script \in [Threads -> Seq(Ops)]
    <3>1. <<>> \in Seq(Ops)
      OBVIOUS
    <3> QED BY <1>0, <2>2, <3>1
  <2>4. ASSUME NEW h \in Threads, NEW i \in DOMAIN script[h]
        PROVE  script[h][i] \in CoreOps
    <3>1. script[h] = IF h = "client" THEN DllMain ELSE <<>>
      BY <1>0
    <3>2. DOMAIN <<>> = {}
      OBVIOUS
    <3> QED BY <2>1, <2>4, <3>1, <3>2
  <2> QED BY <1>0, <2>3, <2>4 DEF ScriptInv, CoreOps
<1>2. /\ chains = <<>> /\ links = [t \in Targets |-> <<>>]
      /\ patched = {} /\ head = [t \in Targets |-> "none"] /\ armed = {}
      /\ original = [d \in Detours |-> "null"]
      /\ stores = [h \in Threads |-> <<>>]
      /\ broken = FALSE /\ installs = 0 /\ rank = [d \in Detours |-> 0]
  BY <1>0 DEF HookInit
<1>3. /\ DOMAIN <<>> = {} /\ \A S : <<>> \in Seq(S)
  OBVIOUS
<1>4. HookTypeOK
  BY <1>2, <1>3, HookAssumption DEF HookTypeOK
<1>5. ChainsInv
  BY <1>2, <1>3, <1>4 DEF ChainsInv, Members
<1>6. PointersInv
  BY <1>2, <1>3, HookAssumption DEF PointersInv
<1>7. CallsInv
  BY <1>0, <1>3, HookAssumption DEF CallInit, CallsInv, NoCall
<1> QED BY <1>1, <1>5, <1>6, <1>7 DEF ChainInv

\* Chains only grow.
Grows == Present \subseteq Present' /\ patched \subseteq patched' /\ Members(chains) \subseteq Members(chains')

LEMMA Still ==
  ASSUME ChainsInv, PointersInv, UNCHANGED hookvars
  PROVE  ChainsInv' /\ PointersInv' /\ Grows
<1>1. UNCHANGED <<chains, links, patched, head, armed, original, stores, broken, installs, rank>>
  BY DEF hookvars
<1>2. HookTypeOK'
  BY <1>1 DEF ChainsInv, HookTypeOK
<1>3. ChainsInv'
  BY <1>1, <1>2 DEF ChainsInv, Members
<1>4. PointersInv'
  BY <1>1 DEF PointersInv, Present, Unset, Members
<1>5. Grows
  BY <1>1 DEF Grows, Present, Members
<1> QED BY <1>3, <1>4, <1>5

LEMMA ChainStep ==
  ASSUME ChainInv, [Next]_vars
  PROVE  ChainsInv' /\ PointersInv' /\ Grows /\ ScriptInv'
<1>0. ScriptInv /\ ChainsInv /\ PointersInv /\ HookTypeOK
  BY DEF ChainInv, ChainsInv
<1>h. /\ script \in [Threads -> Seq(Ops)]
      /\ \A h \in Threads : \A i \in DOMAIN script[h] :
           /\ script[h][i].op = "install" => script[h][i].x \in Detours
           /\ script[h][i].op = "patch" => script[h][i].x \in Members(chains)
  BY <1>0 DEF ScriptInv
<1>1. ASSUME NEW h \in Threads, Dropping(h) PROVE ChainsInv' /\ PointersInv' /\ Grows /\ ScriptInv'
  <2>1. UNCHANGED hookvars /\ extensions' = extensions
    BY <1>1 DEF Dropping
  <2>2. ChainsInv' /\ PointersInv' /\ Grows
    BY <1>0, <2>1, Still
  <2>3. PICK k \in 1..Len(script[h]) : Further(h, k)
    BY <1>1 DEF Dropping
  <2> QED BY <1>0, <2>1, <2>2, <2>3, FurtherKeepsScripts DEF Grows
<1>2. ASSUME NEW h \in Threads, Installing(h) PROVE ChainsInv' /\ PointersInv' /\ Grows /\ ScriptInv'
  <2>1. /\ stores[h] = <<>> /\ Install(h, script[h][1].x) /\ Further(h, 1) /\ 1 \in 1..Len(script[h])
        /\ script[h][1].op = "install" /\ extensions' = extensions
    BY <1>2 DEF Installing
  <2>2. 1 \in DOMAIN script[h]
    BY <1>h, <2>1
  <2>3. script[h][1].x \in Detours
    BY <1>h, <2>1, <2>2
  <2>4. ChainsInv' /\ PointersInv' /\ Members(chains) \subseteq Members(chains')
    BY <1>0, <2>1, <2>3, InstallKeepsChains
  <2>5. Present \subseteq Present'
    BY <1>0, <2>1, <2>3, InstallMembers
  <2>6. patched' = patched
    BY <2>1 DEF Install
  <2>7. ScriptInv'
    BY <1>0, <2>1, <2>4, FurtherKeepsScripts
  <2> QED BY <2>4, <2>5, <2>6, <2>7 DEF Grows
<1>3. ASSUME NEW h \in Threads, DoEnable(h) PROVE ChainsInv' /\ PointersInv' /\ Grows /\ ScriptInv'
  <2>1. UNCHANGED hookvars
    BY <1>3 DEF DoEnable
  <2> QED BY <1>0, <1>3, <2>1, Still, EnableKeepsScripts
<1>f. ASSUME NEW h \in Threads, NEW op, Ready(h, op), Next1(h)
      PROVE  /\ Further(h, 1) /\ 1 \in 1..Len(script[h]) /\ Arg(h) = script[h][1].x /\ script[h][1].op = op
             /\ 1 \in DOMAIN script[h] /\ stores[h] = <<>>
  <2>1. Further(h, 1) /\ 1 \in 1..Len(script[h]) /\ Head(script[h]) = script[h][1]
    BY <1>h, <1>f, NextIsFurther DEF Ready
  <2> QED BY <1>h, <1>f, <2>1 DEF Ready, Arg
<1>4. ASSUME NEW h \in Threads, DoPatch(h) PROVE ChainsInv' /\ PointersInv' /\ Grows /\ ScriptInv'
  <2>1. Ready(h, "patch") /\ Patch(h, Arg(h)) /\ Next1(h) /\ extensions' = extensions
    BY <1>4 DEF DoPatch, runtimevars
  <2>2. /\ Further(h, 1) /\ 1 \in 1..Len(script[h]) /\ Arg(h) = script[h][1].x /\ script[h][1].op = "patch"
        /\ 1 \in DOMAIN script[h] /\ stores[h] = <<>>
    BY <1>f, <2>1
  <2>3. Arg(h) \in Members(chains)
    BY <1>h, <2>2
  <2>4. ChainsInv' /\ PointersInv' /\ Present' = Present /\ chains' = chains /\ patched \subseteq patched'
    BY <1>0, <2>1, <2>2, <2>3, PatchKeepsChains
  <2>5. Grows
    BY <2>4 DEF Grows, Members
  <2>6. ScriptInv'
    BY <1>0, <2>1, <2>2, <2>5, FurtherKeepsScripts DEF Grows
  <2> QED BY <2>4, <2>5, <2>6
<1>5. ASSUME NEW h \in Threads, DoArm(h) PROVE ChainsInv' /\ PointersInv' /\ Grows /\ ScriptInv'
  <2>1. Ready(h, "arm") /\ Arm /\ Next1(h) /\ extensions' = extensions
    BY <1>5 DEF DoArm, runtimevars
  <2>2. ChainsInv' /\ PointersInv'
    BY <1>0, <2>1, ArmKeepsChains
  <2>3. Grows
    BY <2>1 DEF Arm, Grows, Present, Members
  <2>4. Further(h, 1) /\ 1 \in 1..Len(script[h])
    BY <1>f, <2>1
  <2>5. ScriptInv'
    BY <1>0, <2>1, <2>3, <2>4, FurtherKeepsScripts DEF Grows
  <2> QED BY <2>2, <2>3, <2>5
<1>s. UNCHANGED <<script, extensions, chains>> => ScriptInv'
  BY <1>0 DEF ScriptInv, Members
<1>6. ASSUME NEW h \in Threads, DoStore(h) PROVE ChainsInv' /\ PointersInv' /\ Grows /\ ScriptInv'
  <2>1. Store(h) /\ extensions' = extensions
    BY <1>6 DEF DoStore, runtimevars
  <2>2. UNCHANGED <<script, chains, patched>>
    BY <2>1 DEF Store
  <2>3. ChainsInv' /\ PointersInv' /\ Present' = Present
    BY <1>0, <2>1, StoreKeepsChains
  <2>4. Grows
    BY <2>2, <2>3 DEF Grows, Members
  <2> QED BY <1>s, <2>1, <2>2, <2>3, <2>4
<1>7. ASSUME NEW h \in Threads, DoSpawn(h) PROVE ChainsInv' /\ PointersInv' /\ Grows /\ ScriptInv'
  <2>1. UNCHANGED hookvars /\ extensions' = extensions /\ script[h] # <<>>
        /\ script' = [script EXCEPT ![h] = Tail(@), !["main"] = MainThread]
    BY <1>7 DEF DoSpawn, runtimevars, Ready
  <2>2. chains' = chains /\ MainThread \in Seq(CoreOps) /\ "main" \in Threads
    BY <2>1, CoreScripts, RuntimeAssumption DEF hookvars
  <2>3. ScriptInv'
    BY <1>0, <2>1, <2>2, CoreKeepsScripts
  <2> QED BY <1>0, <2>1, <2>3, Still
<1>8. CASE LoadExtensions
  <2>1. UNCHANGED hookvars
    BY <1>8 DEF LoadExtensions
  <2> QED BY <1>0, <1>8, <2>1, Still, LoadKeepsScripts
<1>9. CASE EnterInit \/ EnterOther \/ Device \/ Proceed \/ Quiet
  <2>1. UNCHANGED hookvars /\ UNCHANGED <<script, extensions>>
    BY <1>9 DEF EnterInit, EnterOther, Device, Proceed, Quiet, runtimevars
  <2>2. chains' = chains
    BY <2>1 DEF hookvars
  <2> QED BY <1>0, <1>s, <2>1, <2>2, Still
<1> QED BY <1>0, <1>1, <1>2, <1>3, <1>4, <1>5, <1>6, <1>7, <1>8, <1>9, HookSteps

LEMMA CallStep ==
  ASSUME ChainInv, [Next]_vars
  PROVE  CallsInv'
<1>0. HookTypeOK /\ CallsInv /\ PointersInv /\ ChainsInv /\ ScriptInv
  BY DEF ChainInv, ChainsInv
<1>1. Grows
  BY ChainStep
<1>2. CASE UNCHANGED calls
  BY <1>0, <1>1, <1>2 DEF Grows, CallsInv
<1>3. ASSUME NEW t \in Targets, Enter("client", t), UNCHANGED hookvars PROVE CallsInv'
  <2>1. /\ calls' = [calls EXCEPT !["client"] =
             IF t \in armed THEN [target |-> t, at |-> head[t], seen |-> <<>>, due |-> Linked(t)]
             ELSE [NoCall EXCEPT !.target = t, !.at = "engine"]]
    BY <1>3 DEF Enter
  <2>2. ASSUME t \in armed PROVE head[t] \in Present /\ Target[head[t]] = t /\ t \in patched
    <3>1. t \in patched /\ links[t] # <<>> /\ head[t] = links[t][1]
      BY <1>0, <2>2 DEF HookTypeOK, ChainsInv
    <3>2. links[t][1] \in Members(links[t])
      BY <1>0, <3>1, OneAddress, MembersFacts
    <3> QED BY <1>0, <3>1, <3>2, OneAddress
  <2>3. Linked(t) \subseteq Detours
    BY <1>0, OneAddress DEF Linked
  <2>4. "client" \in Callers
    BY RuntimeAssumption
  <2> DEFINE new == IF t \in armed THEN [target |-> t, at |-> head[t], seen |-> <<>>, due |-> Linked(t)]
                    ELSE [NoCall EXCEPT !.target = t, !.at = "engine"]
             R == [target : Targets \cup {"none"}, at : Detours \cup {"none", "engine", "null"},
                   seen : Seq(Detours), due : SUBSET Detours]
  <2>5. /\ new \in R
        /\ new.at \in Detours => new.at \in Present /\ Target[new.at] \in patched /\ new.target = Target[new.at]
    <3>1. CASE t \in armed
      <4>1. Present \subseteq Detours
        BY DEF Present
      <4>2. new = [target |-> t, at |-> head[t], seen |-> <<>>, due |-> Linked(t)] /\ <<>> \in Seq(Detours)
        BY <3>1
      <4> HIDE DEF new
      <4> QED BY <2>2, <2>3, <3>1, <4>1, <4>2
    <3>2. CASE t \notin armed
      <4>1. new = [NoCall EXCEPT !.target = t, !.at = "engine"]
        BY <3>2
      <4>2. new = [target |-> t, at |-> "engine", seen |-> <<>>, due |-> {}]
        BY <4>1 DEF NoCall
      <4>3. <<>> \in Seq(Detours) /\ {} \in SUBSET Detours
        OBVIOUS
      <4> HIDE DEF new
      <4> QED BY <4>2, <4>3, HookAssumption
    <3> QED BY <3>1, <3>2
  <2>6. calls' = [calls EXCEPT !["client"] = new] /\ calls \in [Callers -> R]
    BY <1>0, <2>1 DEF CallsInv
  <2> HIDE DEF new
  <2>7. calls' \in [Callers -> R]
    <3> HIDE DEF R
    <3> QED BY <2>4, <2>5, <2>6
  <2>8. calls'["client"] = new /\ \A c \in Callers : c # "client" => calls'[c] = calls[c]
    BY <2>4, <2>6
  <2>9. \A c \in Callers : c # "client" => calls[c] = NoCall
    BY <1>0 DEF CallsInv
  <2>10. ASSUME NEW c \in Callers, calls'[c].at \in Detours
         PROVE  calls'[c].at \in Present' /\ Target[calls'[c].at] \in patched' /\ calls'[c].target = Target[calls'[c].at]
    <3>1. CASE c = "client"
      BY <1>1, <2>5, <2>8, <2>10, <3>1 DEF Grows
    <3>2. CASE c # "client"
      BY <2>8, <2>9, <2>10, <3>2, HookAssumption DEF NoCall
    <3> QED BY <3>1, <3>2
  <2> QED BY <2>7, <2>8, <2>9, <2>10 DEF CallsInv
<1>4. ASSUME Proceed PROVE CallsInv'
  <2>0. "client" \in Callers
    BY RuntimeAssumption
  <2> DEFINE k == calls["client"]
             R == [target : Targets \cup {"none"}, at : Detours \cup {"none", "engine", "null"},
                   seen : Seq(Detours), due : SUBSET Detours]
  <2>1. k \in R /\ calls \in [Callers -> R] /\ \A c \in Callers : c # "client" => calls[c] = NoCall
    BY <1>0, <2>0 DEF CallsInv
  <2>2. UNCHANGED hookvars
    BY <1>4 DEF Proceed
  <2>3. ASSUME NEW new \in R, calls' = [calls EXCEPT !["client"] = new],
               new.at \in Detours => new.at \in Present /\ Target[new.at] \in patched /\ new.target = Target[new.at]
        PROVE  CallsInv'
    <3>1. calls' \in [Callers -> R]
      <4> HIDE DEF R
      <4> QED BY <2>1, <2>3
    <3>2. calls'["client"] = new /\ \A c \in Callers : c # "client" => calls'[c] = calls[c]
      BY <2>0, <2>1, <2>3
    <3>3. ASSUME NEW c \in Callers, calls'[c].at \in Detours
          PROVE  calls'[c].at \in Present' /\ Target[calls'[c].at] \in patched' /\ calls'[c].target = Target[calls'[c].at]
      <4>1. CASE c = "client"
        BY <1>1, <2>3, <3>2, <3>3, <4>1 DEF Grows
      <4>2. CASE c # "client"
        BY <2>1, <3>2, <3>3, <4>2, HookAssumption DEF NoCall
      <4> QED BY <4>1, <4>2
    <3> QED BY <2>1, <3>1, <3>2, <3>3 DEF CallsInv
  <2>4. CASE Forward("client")
    <3>1. /\ k.at \in Detours
          /\ calls' = [calls EXCEPT !["client"].seen = Append(@, k.at), !["client"].at = original[k.at]]
      BY <2>4 DEF Forward
    <3> DEFINE new == [k EXCEPT !.seen = Append(k.seen, k.at), !.at = original[k.at]]
    <3>2. calls' = [calls EXCEPT !["client"] = new]
      BY <2>0, <2>1, <3>1
    <3>4. original[k.at] \in Detours \cup {"engine", "null"} /\ Append(k.seen, k.at) \in Seq(Detours)
      BY <1>0, <2>1, <3>1 DEF HookTypeOK
    <3>5. new \in R /\ new.at = original[k.at] /\ new.target = k.target
      <4>1. \A r \in R : \A a \in Seq(Detours) : \A b \in Detours \cup {"none", "engine", "null"} :
              [r EXCEPT !.seen = a, !.at = b] \in R
        OBVIOUS
      <4>2. calls'["client"].at = original[k.at] /\ calls'["client"].target = k.target
        BY <2>0, <2>1, <3>1
      <4>3. calls'["client"] = new
        <5> HIDE DEF new, R
        <5> QED BY <2>0, <2>1, <3>2
      <4> HIDE DEF k, R
      <4>4. k \in R
        BY <2>1
      <4>5. new \in R
        BY <3>4, <4>1, <4>4, Zenon
      <4> HIDE DEF new
      <4> QED BY <4>2, <4>3, <4>5
    <3>6. ASSUME original[k.at] \in Detours
          PROVE  original[k.at] \in Present /\ Target[original[k.at]] \in patched /\ k.target = Target[original[k.at]]
      <4>1. k.at \in Present /\ Target[k.at] \in patched /\ k.target = Target[k.at]
        BY <1>0, <2>0, <3>1 DEF CallsInv
      <4>2. original[k.at] \in Present /\ Target[original[k.at]] = Target[k.at]
        BY <1>0, <3>1, <3>6 DEF PointersInv, HookTypeOK
      <4> QED BY <4>1, <4>2
    <3> HIDE DEF new, k, R
    <3> QED BY <2>3, <3>2, <3>5, <3>6
  <2>5. CASE Return("client")
    <3>1. calls' = [calls EXCEPT !["client"] = NoCall]
      BY <2>5 DEF Return
    <3>2. NoCall \in R /\ NoCall.at \notin Detours
      <4>1. <<>> \in Seq(Detours) /\ {} \in SUBSET Detours
        OBVIOUS
      <4> QED BY <4>1, HookAssumption DEF NoCall
    <3> HIDE DEF R
    <3> QED BY <2>3, <3>1, <3>2
  <2> QED BY <1>4, <2>4, <2>5 DEF Proceed
<1>5. ASSUME EnterInit PROVE CallsInv'
  <2>1. "init" \in Targets
    BY RuntimeAssumption, HookAssumption
  <2> QED BY <1>3, <1>5, <2>1 DEF EnterInit
<1>6. ASSUME EnterOther PROVE CallsInv'
  BY <1>3, <1>6 DEF EnterOther
<1>7. ASSUME NEW h \in Threads, Dropping(h) \/ Installing(h) \/ DoEnable(h) \/ DoPatch(h) \/ DoArm(h) \/ DoStore(h) \/ DoSpawn(h)
      PROVE  UNCHANGED calls
  BY <1>7 DEF Dropping, Installing, DoEnable, DoPatch, DoArm, DoStore, Store, DoSpawn
<1>8. LoadExtensions \/ Device \/ Quiet => UNCHANGED calls
  BY DEF LoadExtensions, Device, Quiet
<1> QED BY <1>0, <1>2, <1>4, <1>5, <1>6, <1>7, <1>8, HookSteps

LEMMA ChainInvariant == Spec => []ChainInv
<1>1. ChainInv /\ [Next]_vars => ChainInv'
  BY ChainStep, CallStep DEF ChainInv
<1> QED BY <1>1, InitChains, PTL DEF Spec

\* The types of the chains, of MinHook's table and of the stores of Relink
\* (Hook.cpp:26), and that a chain's detours are on its address.
THEOREM HookTypes == Spec => []HookTypeOK
<1>1. ChainInv => HookTypeOK
  BY DEF ChainInv, ChainsInv
<1> QED BY <1>1, ChainInvariant, PTL

\* A call that finds null where it should go on came by the detour that was
\* linked into a live chain and whose pointer is not stored yet (Hook.cpp:73).
THEOREM FailedCallsMetAnUnlinkedDetour == Spec => OnlyUnlinkedCallsFail
<1> DEFINE A == \A c \in Callers : calls'[c].at = "null" =>
                  \E h \in Threads : \E i \in DOMAIN stores[h] :
                    stores[h][i][1] \in {calls[c].at} \cup Members(calls[c].seen)
<1>1. ASSUME ChainInv, [Next]_vars PROVE [A]_<<calls, stores>>
  <2>0. ScriptInv /\ CallsInv /\ PointersInv /\ HookTypeOK /\ ChainsInv
    BY <1>1 DEF ChainInv, ChainsInv
  <2>1. ASSUME Alive, UNCHANGED calls PROVE A
    BY <2>1 DEF Alive, Crashed
  <2>2. ASSUME NEW t \in Targets, Alive, Enter("client", t) PROVE A
    <3>1. calls' = [calls EXCEPT !["client"] =
             IF t \in armed THEN [target |-> t, at |-> head[t], seen |-> <<>>, due |-> Linked(t)]
             ELSE [NoCall EXCEPT !.target = t, !.at = "engine"]]
      BY <2>2 DEF Enter
    <3>2. "client" \in Callers /\ calls \in [Callers -> [target : Targets \cup {"none"}, at : Detours \cup {"none", "engine", "null"},
                             seen : Seq(Detours), due : SUBSET Detours]]
      BY <2>0, RuntimeAssumption DEF CallsInv
    <3>3. t \in armed => head[t] # "null"
      BY <2>0, HookAssumption DEF HookTypeOK
    <3>4. ASSUME NEW c \in Callers PROVE calls'[c].at # "null"
      <4>1. CASE c # "client"
        BY <2>2, <3>1, <3>2, <4>1 DEF Alive, Crashed
      <4>2. CASE c = "client" /\ t \in armed
        BY <3>1, <3>2, <3>3, <4>2
      <4>3. CASE c = "client" /\ t \notin armed
        BY <3>1, <3>2, <4>3 DEF NoCall
      <4> QED BY <4>1, <4>2, <4>3
    <3> QED BY <3>4
  <2>3. ASSUME Proceed PROVE A
    <3>1. "client" \in Callers /\ Alive
      BY <2>3, RuntimeAssumption DEF Proceed, Free
    <3>2. calls \in [Callers -> [target : Targets \cup {"none"}, at : Detours \cup {"none", "engine", "null"},
                             seen : Seq(Detours), due : SUBSET Detours]]
      BY <2>0 DEF CallsInv
    <3>3. CASE Forward("client")
      <4>1. /\ calls["client"].at \in Detours
            /\ calls' = [calls EXCEPT !["client"].seen = Append(@, calls["client"].at),
                                      !["client"].at = original[calls["client"].at]]
        BY <3>3 DEF Forward
      <4>2. ASSUME NEW c \in Callers, calls'[c].at = "null"
            PROVE  \E h \in Threads : \E i \in DOMAIN stores[h] :
                     stores[h][i][1] \in {calls[c].at} \cup Members(calls[c].seen)
        <5>1. c = "client"
          BY <3>1, <3>2, <4>1, <4>2 DEF Alive, Crashed
        <5>2. original[calls["client"].at] = "null"
          BY <3>1, <3>2, <4>1, <4>2, <5>1
        <5>3. Unset(calls["client"].at)
          BY <2>0, <3>1, <4>1, <5>2 DEF CallsInv, PointersInv
        <5> QED BY <5>1, <5>3 DEF Unset
      <4> QED BY <4>2
    <3>4. CASE Return("client")
      <4>1. calls' = [calls EXCEPT !["client"] = NoCall]
        BY <3>4 DEF Return
      <4>2. ASSUME NEW c \in Callers PROVE calls'[c].at # "null"
        BY <3>1, <3>2, <4>1 DEF Alive, Crashed, NoCall
      <4> QED BY <4>2
    <3> QED BY <2>3, <3>3, <3>4 DEF Proceed
  <2>4. ASSUME NEW h \in Threads, Dropping(h) \/ Installing(h) \/ DoEnable(h) \/ DoPatch(h) \/ DoArm(h) \/ DoStore(h) \/ DoSpawn(h)
        PROVE  UNCHANGED calls /\ Alive
    BY <2>4 DEF Dropping, Installing, DoEnable, DoPatch, DoArm, DoStore, Store, DoSpawn, Ready
  <2>5. LoadExtensions \/ Device => UNCHANGED calls /\ Alive
    BY DEF LoadExtensions, Device, Free
  <2>6. "init" \in Targets
    BY RuntimeAssumption, HookAssumption
  <2>7. EnterInit \/ EnterOther => Alive /\ \E t \in Targets : Enter("client", t)
    BY <2>6 DEF EnterInit, EnterOther, Free
  <2>8. Quiet => UNCHANGED <<calls, stores>>
    BY DEF Quiet, hookvars
  <2> HIDE DEF A
  <2> QED BY <1>1, <2>0, <2>1, <2>2, <2>3, <2>4, <2>5, <2>7, <2>8, HookSteps
<1>2. ChainInv /\ [Next]_vars => [A]_<<calls, stores>>
  BY <1>1
<1> QED BY <1>2, ChainInvariant, PTL DEF Spec, OnlyUnlinkedCallsFail

(***************************************************************************)
(* The scripts of DllMain and MainThread                                   *)
(***************************************************************************)
Clients == {"loader"} \cup Members(Boot)
Mains == StorageOps \cup Members(Features)

\* Before the device exists there are only the storage detours to install.
Early(s) ==
  \A i \in DOMAIN s : (s[i].op = "install" /\ s[i].x \in StorageOps) \/ \E j \in 1..i : s[j].op = "wait"

\* A detour is planned once.
Once(s) ==
  \A i, j \in DOMAIN s : s[i].op = "install" /\ s[j].op = "install" /\ s[i].x = s[j].x => i = j

FiveNames == <<"open", "size", "read", "seek", "close">>

LEMMA MainThreadIs ==
  /\ Features \in Seq(Detours) /\ Len(Features) \in Nat
  /\ MainThread \in Seq(CoreOps) /\ Len(MainThread) = Len(Features) + 7
  /\ \A i \in 1..5 : MainThread[i] = Do("install", FiveNames[i])
  /\ MainThread[6] = Do("wait", "device")
  /\ \A i \in 1..Len(Features) : MainThread[6 + i] = Do("install", Features[i])
  /\ MainThread[Len(Features) + 7] = Do("enable", "all")
<1> DEFINE a == InstallAll(FiveNames)
           b == <<Do("wait", "device")>>
           c == InstallAll(Features)
           e == <<Do("enable", "all")>>
           ab == a \o b
           abc == ab \o c
<1>1. Features \in Seq(Detours) /\ Len(Features) \in Nat /\ FiveNames \in Seq(Detours) /\ Len(FiveNames) = 5
  BY RuntimeAssumption DEF StorageOps, FiveNames
<1>2. a \in Seq(Ops) /\ Len(a) = 5 /\ \A i \in 1..5 : a[i] = Do("install", FiveNames[i])
  BY <1>1, InstallAllFacts
<1>3. c \in Seq(Ops) /\ Len(c) = Len(Features) /\ \A i \in 1..Len(Features) : c[i] = Do("install", Features[i])
  BY <1>1, InstallAllFacts
<1>4. Do("wait", "device") \in Ops /\ Do("enable", "all") \in Ops
  BY DoIsOp, ArgumentsFacts
<1>5. b \in Seq(Ops) /\ Len(b) = 1 /\ b[1] = Do("wait", "device")
  BY <1>4
<1>6. e \in Seq(Ops) /\ Len(e) = 1 /\ e[1] = Do("enable", "all")
  BY <1>4
<1>7. MainThread = abc \o e
  BY DEF MainThread, FiveNames
<1> HIDE DEF a, b, c, e, FiveNames
<1>8. ab \in Seq(Ops) /\ Len(ab) = 6 /\ (\A i \in 1..5 : ab[i] = a[i]) /\ ab[6] = b[1]
  <2>1. ab \in Seq(Ops)
    BY <1>2, <1>5
  <2>0. a \in Seq(Ops) /\ b \in Seq(Ops)
    BY <1>2, <1>5
  <2>2. Len(a \o b) = Len(a) + Len(b)
    BY <2>0, JoinFacts
  <2>3. \A i \in 1..Len(a) : (a \o b)[i] = a[i]
    BY <2>0, JoinFacts
  <2>4. \A i \in 1..Len(b) : (a \o b)[Len(a) + i] = b[i]
    BY <2>0, JoinFacts
  <2>5. 1 \in 1..Len(b) /\ Len(a) + 1 = 6
    BY <1>2, <1>5
  <2> QED BY <1>2, <1>5, <2>1, <2>2, <2>3, <2>4, <2>5
<1> HIDE DEF ab
<1>9. /\ abc \in Seq(Ops) /\ Len(abc) = 6 + Len(Features)
      /\ \A i \in 1..6 : abc[i] = ab[i]
      /\ \A i \in 1..Len(Features) : abc[6 + i] = c[i]
  <2>1. abc \in Seq(Ops)
    BY <1>3, <1>8
  <2>0. ab \in Seq(Ops) /\ c \in Seq(Ops)
    BY <1>3, <1>8
  <2>2. Len(ab \o c) = Len(ab) + Len(c)
    BY <2>0, JoinFacts
  <2>3. \A i \in 1..Len(ab) : (ab \o c)[i] = ab[i]
    BY <2>0, JoinFacts
  <2>4. \A i \in 1..Len(c) : (ab \o c)[Len(ab) + i] = c[i]
    BY <2>0, JoinFacts
  <2> QED BY <1>3, <1>8, <2>1, <2>2, <2>3, <2>4
<1> HIDE DEF abc
<1> DEFINE r == abc \o e
<1>10. /\ r \in Seq(Ops) /\ Len(r) = 6 + Len(Features) + 1
       /\ \A i \in 1..(6 + Len(Features)) : r[i] = abc[i]
       /\ r[6 + Len(Features) + 1] = e[1]
  <2>1. r \in Seq(Ops)
    BY <1>6, <1>9
  <2>0. abc \in Seq(Ops) /\ e \in Seq(Ops)
    BY <1>6, <1>9
  <2>2. Len(abc \o e) = Len(abc) + Len(e)
    BY <2>0, JoinFacts
  <2>3. \A i \in 1..Len(abc) : (abc \o e)[i] = abc[i]
    BY <2>0, JoinFacts
  <2>4. \A i \in 1..Len(e) : (abc \o e)[Len(abc) + i] = e[i]
    BY <2>0, JoinFacts
  <2>5. 1 \in 1..Len(e)
    BY <1>6
  <2> QED BY <1>6, <1>9, <2>1, <2>2, <2>3, <2>4, <2>5
<1> HIDE DEF r
<1>11. MainThread = r
  BY <1>7 DEF r
<1>12. \A i \in 1..6 : r[i] = ab[i]
  <2>1. \A i \in 1..6 : i \in 1..(6 + Len(Features))
    BY <1>1
  <2> QED BY <1>9, <1>10, <2>1
<1>13. \A i \in 1..Len(Features) : r[6 + i] = c[i]
  <2>1. \A i \in 1..Len(Features) : 6 + i \in 1..(6 + Len(Features))
    BY <1>1
  <2> QED BY <1>9, <1>10, <2>1
<1>14. MainThread \in Seq(CoreOps)
  BY CoreScripts
<1>15. \A i \in 1..5 : r[i] = a[i]
  <2>1. \A i \in 1..5 : i \in 1..6
    OBVIOUS
  <2> QED BY <1>8, <1>12, <2>1
<1>16. r[6] = Do("wait", "device")
  BY <1>5, <1>8, <1>12
<1>17. 6 + Len(Features) + 1 = Len(Features) + 7
  BY <1>1
<1> QED BY <1>1, <1>2, <1>3, <1>6, <1>10, <1>11, <1>13, <1>14, <1>15, <1>16, <1>17

LEMMA DllMainIs ==
  /\ Boot \in Seq(Detours) /\ Len(Boot) \in Nat
  /\ DllMain \in Seq(CoreOps) /\ Len(DllMain) = Len(Boot) + 5
  /\ DllMain[1] = Do("enable", "all") /\ DllMain[2] = Do("install", "loader")
  /\ DllMain[3] = Do("reserve", "wxl.m2arena")
  /\ \A i \in 1..Len(Boot) : DllMain[3 + i] = Do("install", Boot[i])
  /\ DllMain[Len(Boot) + 4] = Do("enable", "all") /\ DllMain[Len(Boot) + 5] = Do("spawn", "main")
<1> DEFINE a == <<Do("enable", "all"), Do("install", "loader"), Do("reserve", "wxl.m2arena")>>
           b == InstallAll(Boot)
           c == <<Do("enable", "all"), Do("spawn", "main")>>
           ab == a \o b
<1>1. Boot \in Seq(Detours) /\ Len(Boot) \in Nat /\ "loader" \in Detours
  BY RuntimeAssumption
<1>2. b \in Seq(Ops) /\ Len(b) = Len(Boot) /\ \A i \in 1..Len(Boot) : b[i] = Do("install", Boot[i])
  BY <1>1, InstallAllFacts
<1>3. /\ Do("enable", "all") \in Ops /\ Do("reserve", "wxl.m2arena") \in Ops /\ Do("spawn", "main") \in Ops
      /\ Do("install", "loader") \in Ops
  BY <1>1, DoIsOp, ArgumentsFacts DEF Own1
<1>4. /\ a \in Seq(Ops) /\ Len(a) = 3
      /\ a[1] = Do("enable", "all") /\ a[2] = Do("install", "loader") /\ a[3] = Do("reserve", "wxl.m2arena")
  BY <1>3
<1>5. c \in Seq(Ops) /\ Len(c) = 2 /\ c[1] = Do("enable", "all") /\ c[2] = Do("spawn", "main")
  BY <1>3
<1>6. DllMain = ab \o c
  BY DEF DllMain
<1> HIDE DEF a, b, c
<1>7. /\ ab \in Seq(Ops) /\ Len(ab) = 3 + Len(Boot)
      /\ \A i \in 1..3 : ab[i] = a[i]
      /\ \A i \in 1..Len(Boot) : ab[3 + i] = b[i]
  <2>1. ab \in Seq(Ops)
    BY <1>2, <1>4
  <2>0. a \in Seq(Ops) /\ b \in Seq(Ops)
    BY <1>2, <1>4
  <2>2. Len(a \o b) = Len(a) + Len(b)
    BY <2>0, JoinFacts
  <2>3. \A i \in 1..Len(a) : (a \o b)[i] = a[i]
    BY <2>0, JoinFacts
  <2>4. \A i \in 1..Len(b) : (a \o b)[Len(a) + i] = b[i]
    BY <2>0, JoinFacts
  <2> QED BY <1>2, <1>4, <2>1, <2>2, <2>3, <2>4
<1> HIDE DEF ab
<1> DEFINE r == ab \o c
<1>8. /\ Len(r) = 3 + Len(Boot) + 2
      /\ \A i \in 1..(3 + Len(Boot)) : r[i] = ab[i]
      /\ \A i \in 1..2 : r[3 + Len(Boot) + i] = c[i]
  <2>0. ab \in Seq(Ops) /\ c \in Seq(Ops)
    BY <1>5, <1>7
  <2>2. Len(ab \o c) = Len(ab) + Len(c)
    BY <2>0, JoinFacts
  <2>3. \A i \in 1..Len(ab) : (ab \o c)[i] = ab[i]
    BY <2>0, JoinFacts
  <2>4. \A i \in 1..Len(c) : (ab \o c)[Len(ab) + i] = c[i]
    BY <2>0, JoinFacts
  <2> QED BY <1>5, <1>7, <2>2, <2>3, <2>4
<1> HIDE DEF r
<1>9. DllMain = r
  BY <1>6 DEF r
<1>10. r[1] = a[1] /\ r[2] = a[2] /\ r[3] = a[3]
  <2>1. \A i \in 1..3 : i \in 1..(3 + Len(Boot))
    BY <1>1
  <2> QED BY <1>7, <1>8, <2>1
<1>11. \A i \in 1..Len(Boot) : r[3 + i] = b[i]
  <2>1. \A i \in 1..Len(Boot) : 3 + i \in 1..(3 + Len(Boot))
    BY <1>1
  <2> QED BY <1>7, <1>8, <2>1
<1>12. r[Len(Boot) + 4] = c[1] /\ r[Len(Boot) + 5] = c[2]
  <2>1. 3 + Len(Boot) + 1 = Len(Boot) + 4 /\ 3 + Len(Boot) + 2 = Len(Boot) + 5 /\ 1 \in 1..2 /\ 2 \in 1..2
    BY <1>1
  <2> QED BY <1>8, <2>1
<1>13. Len(r) = Len(Boot) + 5
  BY <1>1, <1>8
<1>14. DllMain \in Seq(CoreOps)
  BY CoreScripts
<1> QED BY <1>1, <1>2, <1>4, <1>5, <1>9, <1>10, <1>11, <1>12, <1>13, <1>14

LEMMA DoFields == \A op, x : Do(op, x).op = op /\ Do(op, x).x = x /\ Do(op, x).part = "core"
BY DEF Do

\* What MainThread is good for.
LEMMA MainThreadFacts ==
  /\ MainThread # <<>> /\ DOMAIN MainThread = 1..(Len(Features) + 7) /\ Len(Features) \in Nat
  /\ \A i \in DOMAIN MainThread :
       /\ MainThread[i].op \in {"install", "wait", "enable"}
       /\ MainThread[i].op = "install" => MainThread[i].x \in Mains
  /\ Early(MainThread) /\ Once(MainThread)
<1>1. /\ Features \in Seq(Detours) /\ Len(Features) \in Nat
      /\ MainThread \in Seq(CoreOps) /\ Len(MainThread) = Len(Features) + 7
      /\ \A i \in 1..5 : MainThread[i] = Do("install", FiveNames[i])
      /\ MainThread[6] = Do("wait", "device")
      /\ \A i \in 1..Len(Features) : MainThread[6 + i] = Do("install", Features[i])
      /\ MainThread[Len(Features) + 7] = Do("enable", "all")
  BY MainThreadIs
<1>2. DOMAIN MainThread = 1..(Len(Features) + 7) /\ MainThread # <<>>
  BY <1>1, EmptySeq
<1>3. \A i \in 1..5 : FiveNames[i] \in StorageOps
  BY DEF FiveNames, StorageOps
<1>4. \A i, j \in 1..5 : FiveNames[i] = FiveNames[j] => i = j
  <2>1. /\ FiveNames[1] = "open" /\ FiveNames[2] = "size" /\ FiveNames[3] = "read" /\ FiveNames[4] = "seek"
        /\ FiveNames[5] = "close"
    BY DEF FiveNames
  <2>2. \A i \in 1..5 : i = 1 \/ i = 2 \/ i = 3 \/ i = 4 \/ i = 5
    OBVIOUS
  <2> QED BY <2>1, <2>2
<1> HIDE DEF FiveNames
<1>5. \A i \in 1..Len(Features) : Features[i] \in Members(Features)
  BY <1>1, MembersFacts
<1>6. ASSUME NEW i \in DOMAIN MainThread
      PROVE  i \in 1..5 \/ i = 6 \/ (i - 6 \in 1..Len(Features) /\ 6 + (i - 6) = i) \/ i = Len(Features) + 7
  BY <1>1, <1>2
<1>7. ASSUME NEW i \in DOMAIN MainThread, MainThread[i].op = "install"
      PROVE  \/ i \in 1..5 /\ MainThread[i].x = FiveNames[i]
             \/ i - 6 \in 1..Len(Features) /\ MainThread[i].x = Features[i - 6]
  <2>1. CASE i = 6 \/ i = Len(Features) + 7
    BY <1>1, <1>7, <2>1, DoFields
  <2>2. CASE i \in 1..5
    BY <1>1, <2>2, DoFields
  <2>3. CASE i - 6 \in 1..Len(Features) /\ 6 + (i - 6) = i
    <3>1. MainThread[i] = Do("install", Features[i - 6])
      BY <1>1, <2>3
    <3> QED BY <2>3, <3>1, DoFields
  <2> QED BY <1>6, <2>1, <2>2, <2>3
<1>8. ASSUME NEW i \in DOMAIN MainThread
      PROVE  /\ MainThread[i].op \in {"install", "wait", "enable"}
             /\ MainThread[i].op = "install" => MainThread[i].x \in Mains
  <2>1. MainThread[i].op = "install" => MainThread[i].x \in Mains
    BY <1>3, <1>5, <1>7 DEF Mains
  <2>2. CASE i = 6 \/ i = Len(Features) + 7 \/ i \in 1..5
    BY <1>1, <2>2, <2>1, DoFields
  <2>3. CASE i - 6 \in 1..Len(Features) /\ 6 + (i - 6) = i
    <3>1. MainThread[i] = Do("install", Features[i - 6])
      BY <1>1, <2>3
    <3> QED BY <2>1, <3>1, DoFields
  <2> QED BY <1>6, <2>2, <2>3
<1>9. Early(MainThread)
  <2>1. ASSUME NEW i \in DOMAIN MainThread
        PROVE  (MainThread[i].op = "install" /\ MainThread[i].x \in StorageOps) \/ \E j \in 1..i : MainThread[j].op = "wait"
    <3>1. CASE i \in 1..5
      BY <1>1, <1>3, <3>1, DoFields
    <3>2. CASE i >= 6
      <4>1. 6 \in 1..i
        BY <1>2, <3>2
      <4>2. MainThread[6].op = "wait"
        BY <1>1, DoFields
      <4> QED BY <4>1, <4>2
    <3>3. i \in 1..5 \/ i >= 6
      BY <1>1, <1>2
    <3> QED BY <3>1, <3>2, <3>3
  <2> QED BY <2>1 DEF Early
<1>10. Once(MainThread)
  <2>1. ASSUME NEW i \in DOMAIN MainThread, NEW j \in DOMAIN MainThread,
               MainThread[i].op = "install", MainThread[j].op = "install", MainThread[i].x = MainThread[j].x
        PROVE  i = j
    <3>1. CASE i \in 1..5 /\ MainThread[i].x = FiveNames[i] /\ j \in 1..5 /\ MainThread[j].x = FiveNames[j]
      BY <1>4, <2>1, <3>1
    <3>2. CASE /\ i - 6 \in 1..Len(Features) /\ MainThread[i].x = Features[i - 6]
               /\ j - 6 \in 1..Len(Features) /\ MainThread[j].x = Features[j - 6]
      <4>0. Features[i - 6] = Features[j - 6]
        BY <2>1, <3>2
      <4>1. i - 6 \in DOMAIN Features /\ j - 6 \in DOMAIN Features /\ Features[i - 6] = Features[j - 6]
        BY <1>1, <3>2, <4>0
      <4>2. i - 6 = j - 6
        BY <4>1, RuntimeAssumption
      <4> QED BY <1>1, <1>2, <4>2
    <3>3. \A a \in StorageOps : \A b \in Members(Features) : a # b
      BY RuntimeAssumption
    <3> QED BY <1>3, <1>5, <1>7, <2>1, <3>1, <3>2, <3>3
  <2> QED BY <2>1 DEF Once
<1> QED BY <1>1, <1>2, <1>8, <1>9, <1>10

\* What DllMain is good for.
LEMMA DllMainFacts ==
  LET n == Len(DllMain)
  IN /\ n \in Nat /\ n >= 5 /\ DOMAIN DllMain = 1..n /\ DllMain # <<>>
     /\ \A i \in DOMAIN DllMain :
          /\ DllMain[i].op \in {"install", "enable", "reserve", "spawn"}
          /\ DllMain[i].op = "install" => DllMain[i].x \in Clients /\ i < n - 1
          /\ DllMain[i].op = "spawn" => i = n
     /\ DllMain[n].op = "spawn" /\ DllMain[n - 1].op = "enable" /\ Once(DllMain)
     /\ DllMain[2].op = "install" /\ DllMain[2].x = "loader"
<1> DEFINE m == Len(Boot)
<1>1. /\ Boot \in Seq(Detours) /\ m \in Nat
      /\ DllMain \in Seq(CoreOps) /\ Len(DllMain) = m + 5
      /\ DllMain[1] = Do("enable", "all") /\ DllMain[2] = Do("install", "loader")
      /\ DllMain[3] = Do("reserve", "wxl.m2arena")
      /\ \A i \in 1..m : DllMain[3 + i] = Do("install", Boot[i])
      /\ DllMain[m + 4] = Do("enable", "all") /\ DllMain[m + 5] = Do("spawn", "main")
  BY DllMainIs
<1>2. DOMAIN DllMain = 1..(m + 5) /\ DllMain # <<>>
  BY <1>1, EmptySeq
<1>3. \A i \in 1..m : Boot[i] \in Members(Boot)
  BY <1>1, MembersFacts
<1>4. DOMAIN Boot = 1..m
  BY <1>1
<1> HIDE DEF m
<1>5. ASSUME NEW i \in DOMAIN DllMain
      PROVE  i = 1 \/ i = 2 \/ i = 3 \/ (i - 3 \in 1..m /\ 3 + (i - 3) = i) \/ i = m + 4 \/ i = m + 5
  BY <1>1, <1>2
<1>6. ASSUME NEW i \in DOMAIN DllMain, i - 3 \in 1..m, 3 + (i - 3) = i
      PROVE  DllMain[i].op = "install" /\ DllMain[i].x = Boot[i - 3] /\ Boot[i - 3] \in Members(Boot) /\ i < m + 4
  <2>1. DllMain[i] = Do("install", Boot[i - 3])
    BY <1>1, <1>6
  <2>2. i < m + 4
    BY <1>1, <1>2, <1>6
  <2> QED BY <1>3, <1>6, <2>1, <2>2, DoFields
<1>7. /\ DllMain[1].op = "enable" /\ DllMain[2].op = "install" /\ DllMain[2].x = "loader" /\ DllMain[3].op = "reserve"
      /\ DllMain[m + 4].op = "enable" /\ DllMain[m + 5].op = "spawn"
  BY <1>1, DoFields
<1>8. ASSUME NEW i \in DOMAIN DllMain
      PROVE  /\ DllMain[i].op \in {"install", "enable", "reserve", "spawn"}
             /\ DllMain[i].op = "install" => DllMain[i].x \in Clients /\ i < m + 4
             /\ DllMain[i].op = "spawn" => i = m + 5
             /\ DllMain[i].op = "install" => i = 2 \/ (i - 3 \in 1..m /\ 3 + (i - 3) = i)
  <2>1. 2 < m + 4
    BY <1>1
  <2> QED BY <1>5, <1>6, <1>7, <2>1 DEF Clients
<1>9. Once(DllMain)
  <2>1. ASSUME NEW i \in DOMAIN DllMain, NEW j \in DOMAIN DllMain,
               DllMain[i].op = "install", DllMain[j].op = "install", DllMain[i].x = DllMain[j].x
        PROVE  i = j
    <3>1. "loader" \notin Members(Boot)
      BY RuntimeAssumption
    <3>2. CASE i - 3 \in 1..m /\ 3 + (i - 3) = i /\ j - 3 \in 1..m /\ 3 + (j - 3) = j
      <4>1. i - 3 \in DOMAIN Boot /\ j - 3 \in DOMAIN Boot /\ Boot[i - 3] = Boot[j - 3]
        BY <1>4, <1>6, <2>1, <3>2
      <4>2. i - 3 = j - 3
        BY <4>1, RuntimeAssumption
      <4> QED BY <3>2, <4>2
    <3> QED BY <1>6, <1>7, <1>8, <2>1, <3>1, <3>2
  <2> QED BY <2>1 DEF Once
<1>10. (m + 5) - 1 = m + 4 /\ m + 5 \in Nat /\ m + 5 >= 5
  BY <1>1
<1> QED BY <1>1, <1>2, <1>7, <1>8, <1>9, <1>10

(***************************************************************************)
(* Who installs, and when                                                  *)
(***************************************************************************)
\* The detours that a thread is still to install.
Planned(h) == {script[h][i].x : i \in {j \in DOMAIN script[h] : script[h][j].op = "install"}}

\* A detour is installed once, and by whom.
PlanInv ==
  /\ \A h \in Threads : Once(script[h]) /\ Planned(h) \cap Present = {}
  /\ Planned("main") \subseteq Mains
  /\ Planned("client") \subseteq IF loaded THEN Attached(extensions) ELSE Clients
  /\ ~loaded => Attached(extensions) \cap Present = {}
  /\ \A i \in DOMAIN script["client"] : script["client"][i].op = "spawn" =>
       ~loaded /\ script["main"] = <<>> /\ Mains \cap Present = {} /\ i = Len(script["client"])

\* The history of the installations is that of the detours in the chains.
RankInv ==
  /\ \A d \in Detours : (d \in Present <=> rank[d] > 0) /\ rank[d] <= installs
  /\ \A d \in Detours : d \notin Present => original[d] = "null"

\* The threads of the core take turns.
TurnInv ==
  /\ \A h \in Threads \ {"client", "main"} : script[h] = <<>> /\ stores[h] = <<>>
  /\ Started \/ device => script["client"] = <<>> /\ stores["client"] = <<>>
  /\ device /\ calls["client"].target = "init" => calls["client"].at = "engine"
  /\ ~device => stores["main"] = <<>> /\ Early(script["main"])
  /\ \A i \in DOMAIN script["main"] : script["main"][i].op \in {"install", "wait", "enable", "patch", "arm"}
  /\ stores["client"] # <<>> => script["client"] # <<>>
  /\ script["client"] # <<>> => script["client"][Len(script["client"])].op \in {"enable", "arm", "spawn"}

(***************************************************************************)
(* Where the operations of a script go                                     *)
(***************************************************************************)
LEMMA ShiftFacts ==
  ASSUME ScriptInv, NEW h \in Threads, NEW k \in 1..Len(script[h]), Further(h, k)
  PROVE  /\ \A g \in Threads : g # h => script'[g] = script[g]
         /\ Len(script[h]) \in Nat /\ DOMAIN script[h] = 1..Len(script[h]) /\ Len(script'[h]) = Len(script[h]) - k
         /\ DOMAIN script'[h] = 1..(Len(script[h]) - k)
         /\ \A i \in DOMAIN script'[h] :
              i \in Nat /\ i > 0 /\ i + k \in DOMAIN script[h] /\ script'[h][i] = script[h][i + k]
         /\ \A j \in DOMAIN script[h] : j > k => j - k \in DOMAIN script'[h] /\ script'[h][j - k] = script[h][j]
<1>1. /\ script' \in [Threads -> Seq(Ops)] /\ \A g \in Threads : g # h => script'[g] = script[g]
      /\ Len(script[h]) \in Nat /\ DOMAIN script[h] = 1..Len(script[h])
      /\ Len(script'[h]) = Len(script[h]) - k
      /\ DOMAIN script'[h] = 1..(Len(script[h]) - k)
      /\ \A i \in 1..(Len(script[h]) - k) : script'[h][i] = script[h][i + k]
  BY FurtherFacts DEF ScriptInv
<1>2. ASSUME NEW i \in DOMAIN script'[h]
      PROVE  i \in Nat /\ i > 0 /\ i + k \in DOMAIN script[h] /\ script'[h][i] = script[h][i + k]
  <2>1. i \in 1..(Len(script[h]) - k)
    BY <1>1
  <2>2. i + k \in 1..Len(script[h]) /\ i \in Nat /\ i > 0
    BY <1>1, <2>1
  <2> QED BY <1>1, <2>1, <2>2
<1>3. ASSUME NEW j \in DOMAIN script[h], j > k
      PROVE  j - k \in DOMAIN script'[h] /\ script'[h][j - k] = script[h][j]
  <2>1. j \in 1..Len(script[h])
    BY <1>1
  <2>2. j - k \in 1..(Len(script[h]) - k) /\ (j - k) + k = j
    BY <1>1, <1>3, <2>1
  <2>3. script'[h][j - k] = script[h][(j - k) + k]
    BY <1>1, <2>2
  <2> QED BY <1>1, <2>2, <2>3
<1> QED BY <1>1, <1>2, <1>3

LEMMA EnableShift ==
  ASSUME ScriptInv, HookTypeOK, NEW h \in Threads, DoEnable(h)
  PROVE  LET n == Len(chains)
         IN /\ \A g \in Threads : g # h => script'[g] = script[g]
            /\ n \in Nat /\ Len(script[h]) \in Nat /\ Len(script[h]) > 0 /\ Len(script'[h]) = n + Len(script[h])
            /\ DOMAIN script[h] = 1..Len(script[h]) /\ DOMAIN script'[h] = 1..(n + Len(script[h]))
            /\ \A i \in 1..n : i \in DOMAIN script'[h] /\ script'[h][i].op = "patch" /\ script'[h][i].x = chains[i]
            /\ n + 1 \in DOMAIN script'[h] /\ script'[h][n + 1].op = "arm"
            /\ \A i \in DOMAIN script'[h] :
                 \/ i \in 1..n
                 \/ i = n + 1
                 \/ i > n + 1 /\ i - n \in DOMAIN script[h] /\ i - n > 1 /\ script'[h][i] = script[h][i - n]
            /\ \A j \in DOMAIN script[h] : j > 1 => j + n \in DOMAIN script'[h] /\ j + n > n + 1 /\ script'[h][j + n] = script[h][j]
<1> DEFINE n == Len(chains)
           m == Len(script[h])
<1>1. /\ n \in Nat /\ m \in Nat /\ m > 0
      /\ script' \in [Threads -> Seq(Ops)] /\ \A g \in Threads : g # h => script'[g] = script[g]
      /\ Len(script'[h]) = n + m
      /\ \A i \in 1..n : script'[h][i] = Do("patch", chains[i])
      /\ script'[h][n + 1] = Do("arm", "all")
      /\ \A i \in 1..(m - 1) : script'[h][n + 1 + i] = script[h][i + 1]
  BY EnableFacts DEF EnableIs
<1>2. DOMAIN script[h] = 1..m /\ DOMAIN script'[h] = 1..(n + m)
  BY <1>1 DEF ScriptInv
<1> HIDE DEF n, m
<1>3. ASSUME NEW i \in 1..n PROVE i \in DOMAIN script'[h] /\ script'[h][i].op = "patch" /\ script'[h][i].x = chains[i]
  <2>1. i \in 1..(n + m)
    BY <1>1
  <2>2. script'[h][i] = Do("patch", chains[i])
    BY <1>1
  <2> QED BY <1>2, <2>1, <2>2, DoFields
<1>4. n + 1 \in DOMAIN script'[h] /\ script'[h][n + 1].op = "arm"
  <2>1. n + 1 \in 1..(n + m)
    BY <1>1
  <2> QED BY <1>1, <1>2, <2>1, DoFields
<1>5. ASSUME NEW i \in DOMAIN script'[h], i > n + 1
      PROVE  i - n \in DOMAIN script[h] /\ i - n > 1 /\ script'[h][i] = script[h][i - n]
  <2>0. i \in 1..(n + m)
    BY <1>2
  <2>1. /\ i - (n + 1) \in 1..(m - 1) /\ n + 1 + (i - (n + 1)) = i /\ (i - (n + 1)) + 1 = i - n
        /\ i - n \in 1..m /\ i - n > 1
    BY <1>1, <1>5, <2>0
  <2>2. script'[h][n + 1 + (i - (n + 1))] = script[h][(i - (n + 1)) + 1]
    BY <1>1, <2>1
  <2> QED BY <1>2, <2>1, <2>2
<1>6. ASSUME NEW j \in DOMAIN script[h], j > 1
      PROVE  j + n \in DOMAIN script'[h] /\ j + n > n + 1 /\ script'[h][j + n] = script[h][j]
  <2>0. j \in 1..m
    BY <1>2
  <2>1. j - 1 \in 1..(m - 1) /\ n + 1 + (j - 1) = j + n /\ (j - 1) + 1 = j /\ j + n \in 1..(n + m) /\ j + n > n + 1
    BY <1>1, <1>6, <2>0
  <2>2. script'[h][n + 1 + (j - 1)] = script[h][(j - 1) + 1]
    BY <1>1, <2>1
  <2> QED BY <1>2, <2>1, <2>2
<1>7. ASSUME NEW i \in DOMAIN script'[h] PROVE i \in 1..n \/ i = n + 1 \/ i > n + 1
  BY <1>1, <1>2
<1> QED BY <1>1, <1>2, <1>3, <1>4, <1>5, <1>6, <1>7 DEF n, m

(***************************************************************************)
(* Who installs what                                                       *)
(***************************************************************************)
LEMMA FurtherKeepsPlans ==
  ASSUME ScriptInv, PlanInv, NEW h \in Threads, NEW k \in 1..Len(script[h]), Further(h, k),
         UNCHANGED <<extensions, loaded>>
  PROVE  /\ \A g \in Threads : Once(script'[g]) /\ Planned(g)' \subseteq Planned(g)
         /\ \A i \in 1..k : script[h][i].op = "install" => script[h][i].x \notin Planned(h)'
         /\ \A i \in DOMAIN script'["client"] : script'["client"][i].op = "spawn" =>
              ~loaded' /\ script'["main"] = <<>> /\ Mains \cap Present = {} /\ i = Len(script'["client"])
<1>1. /\ \A g \in Threads : g # h => script'[g] = script[g]
      /\ Len(script[h]) \in Nat /\ DOMAIN script[h] = 1..Len(script[h]) /\ Len(script'[h]) = Len(script[h]) - k
      /\ DOMAIN script'[h] = 1..(Len(script[h]) - k)
      /\ \A i \in DOMAIN script'[h] :
           i \in Nat /\ i > 0 /\ i + k \in DOMAIN script[h] /\ script'[h][i] = script[h][i + k]
  BY ShiftFacts
<1>2. Once(script'[h])
  <2>1. ASSUME NEW i \in DOMAIN script'[h], NEW j \in DOMAIN script'[h],
               script'[h][i].op = "install", script'[h][j].op = "install", script'[h][i].x = script'[h][j].x
        PROVE  i = j
    <3>1. i + k = j + k
      BY <1>1, <2>1 DEF PlanInv, Once
    <3> QED BY <1>1, <3>1
  <2> QED BY <2>1 DEF Once
<1>3. Planned(h)' \subseteq Planned(h)
  BY <1>1 DEF Planned
<1>4. ASSUME NEW g \in Threads PROVE Once(script'[g]) /\ Planned(g)' \subseteq Planned(g)
  <2>1. CASE g = h
    BY <1>2, <1>3, <2>1
  <2>2. CASE g # h
    BY <1>1, <2>2 DEF PlanInv, Planned
  <2> QED BY <2>1, <2>2
<1>5. ASSUME NEW i \in 1..k, script[h][i].op = "install", script[h][i].x \in Planned(h)' PROVE FALSE
  <2>1. PICK j \in DOMAIN script'[h] : script'[h][j].op = "install" /\ script'[h][j].x = script[h][i].x
    BY <1>5 DEF Planned
  <2>2. i \in DOMAIN script[h] /\ j + k \in DOMAIN script[h] /\ j > 0 /\ j \in Nat
    BY <1>1
  <2>3. i = j + k
    BY <1>1, <1>5, <2>1, <2>2 DEF PlanInv, Once
  <2> QED BY <2>2, <2>3
<1>6. ASSUME NEW i \in DOMAIN script'["client"], script'["client"][i].op = "spawn"
      PROVE  ~loaded' /\ script'["main"] = <<>> /\ Mains \cap Present = {} /\ i = Len(script'["client"])
  <2>0. "client" \in Threads /\ "main" \in Threads
    BY RuntimeAssumption
  <2>1. CASE h # "client"
    <3>1. script'["client"] = script["client"] /\ script["main"] = <<>>
      BY <1>1, <1>6, <2>0, <2>1 DEF PlanInv
    <3>2. h # "main"
      <4>1. Len(<<>>) = 0 /\ 1..0 = {}
        OBVIOUS
      <4> QED BY <3>1, <4>1
    <3> QED BY <1>1, <1>6, <2>0, <3>1, <3>2 DEF PlanInv
  <2>2. CASE h = "client"
    <3>1. i + k \in DOMAIN script["client"] /\ script["client"][i + k].op = "spawn" /\ i \in Nat
      BY <1>1, <1>6, <2>2
    <3>2. ~loaded /\ script["main"] = <<>> /\ Mains \cap Present = {} /\ i + k = Len(script["client"])
      BY <3>1 DEF PlanInv
    <3>3. i = Len(script'["client"])
      BY <1>1, <2>2, <3>1, <3>2
    <3> QED BY <1>1, <2>0, <2>2, <3>2, <3>3
  <2> QED BY <2>1, <2>2
<1> QED BY <1>4, <1>5, <1>6

\* Nothing is installed.
LEMMA PlansStay ==
  ASSUME PlanInv, Present' = Present, UNCHANGED <<extensions, loaded>>,
         \A g \in Threads : Once(script'[g]) /\ Planned(g)' \subseteq Planned(g),
         \A i \in DOMAIN script'["client"] : script'["client"][i].op = "spawn" =>
           ~loaded' /\ script'["main"] = <<>> /\ Mains \cap Present = {} /\ i = Len(script'["client"])
  PROVE  PlanInv'
<1>0. "client" \in Threads /\ "main" \in Threads
  BY RuntimeAssumption
<1>1. \A g \in Threads : Planned(g)' \cap Present' = {}
  BY DEF PlanInv
<1>2. Planned("main")' \subseteq Mains
  BY <1>0 DEF PlanInv
<1>3. Planned("client")' \subseteq IF loaded' THEN Attached(extensions') ELSE Clients
  BY <1>0 DEF PlanInv
<1>4. ~loaded' => Attached(extensions') \cap Present' = {}
  BY DEF PlanInv
<1> QED BY <1>1, <1>2, <1>3, <1>4 DEF PlanInv

LEMMA InstallKeepsPlans ==
  ASSUME ScriptInv, HookTypeOK, PlanInv, RankInv, TurnInv, NEW h \in Threads, Installing(h)
  PROVE  PlanInv' /\ RankInv' /\ script[h][1].x \notin Present /\ script[h][1].x \in Detours
         /\ h \in {"client", "main"} /\ script[h][1].x \in Planned(h)
<1> DEFINE d == script[h][1].x
<1>0. "client" \in Threads /\ "main" \in Threads
  BY RuntimeAssumption
<1>1. /\ script[h] # <<>> /\ script[h][1].op = "install" /\ 1 \in 1..Len(script[h])
      /\ Install(h, d) /\ Further(h, 1) /\ UNCHANGED <<calls, extensions, loaded, device>>
  BY DEF Installing
<1>2. 1 \in DOMAIN script[h] /\ d \in Detours /\ d \in Planned(h)
  BY <1>1 DEF ScriptInv, Planned
<1>3. d \notin Present
  BY <1>2 DEF PlanInv
<1>4. h \in {"client", "main"}
  BY <1>1 DEF TurnInv
<1>5. Present' = Present \cup {d}
  BY <1>1, <1>2, InstallMembers
<1>6. /\ \A g \in Threads : Once(script'[g]) /\ Planned(g)' \subseteq Planned(g)
      /\ \A i \in 1..1 : script[h][i].op = "install" => script[h][i].x \notin Planned(h)'
      /\ \A i \in DOMAIN script'["client"] : script'["client"][i].op = "spawn" =>
           ~loaded' /\ script'["main"] = <<>> /\ Mains \cap Present = {} /\ i = Len(script'["client"])
  BY <1>1, FurtherKeepsPlans
<1>7. d \notin Planned(h)'
  BY <1>1, <1>6
<1> HIDE DEF d
<1>a. extensions \in Installations
  BY DEF ScriptInv
<1>b. /\ Attached(extensions) \cap (Clients \cup Mains) = {} /\ Clients \cap Mains = {}
  <2>1. Attached(extensions) \cap (StorageOps \cup {"loader"} \cup Members(Boot) \cup Members(Features)) = {}
    BY <1>a, RuntimeAssumption
  <2>2. (StorageOps \cup {"loader"}) \cap (Members(Boot) \cup Members(Features)) = {}
    BY RuntimeAssumption
  <2>3. Members(Boot) \cap Members(Features) = {}
    BY RuntimeAssumption
  <2>4. "loader" \notin StorageOps
    BY DEF StorageOps
  <2> QED BY <2>1, <2>2, <2>3, <2>4 DEF Clients, Mains
<1>8. /\ h = "client" => d \in Clients \cup Attached(extensions)
      /\ h = "client" /\ ~loaded => d \in Clients
      /\ h = "main" => d \in Mains
  BY <1>2 DEF PlanInv
<1>9. ASSUME NEW g \in Threads PROVE d \notin Planned(g)'
  <2>1. CASE g = h
    BY <1>7, <2>1
  <2>2. CASE g # h /\ g \in {"client", "main"}
    <3>1. g = "main" => d \notin Planned(g)
      BY <1>4, <1>8, <1>b, <2>2 DEF PlanInv
    <3>2. g = "client" => d \notin Planned(g)
      BY <1>4, <1>8, <1>b, <2>2 DEF PlanInv
    <3> QED BY <1>6, <2>2, <3>1, <3>2
  <2>3. CASE g # h /\ g \notin {"client", "main"}
    <3>1. script[g] = <<>>
      BY <2>3 DEF TurnInv
    <3>2. Planned(g) = {}
      <4>1. DOMAIN <<>> = {}
        OBVIOUS
      <4> QED BY <3>1, <4>1 DEF Planned
    <3> QED BY <1>6, <3>2
  <2> QED BY <2>1, <2>2, <2>3
<1>10. \A g \in Threads : Planned(g)' \cap Present' = {}
  BY <1>5, <1>6, <1>9 DEF PlanInv
<1>11. Planned("main")' \subseteq Mains
  BY <1>0, <1>6 DEF PlanInv
<1>12. Planned("client")' \subseteq IF loaded' THEN Attached(extensions') ELSE Clients
  BY <1>0, <1>1, <1>6 DEF PlanInv
<1>13. ~loaded' => Attached(extensions') \cap Present' = {}
  BY <1>1, <1>4, <1>5, <1>8, <1>b DEF PlanInv
<1>14. ASSUME NEW i \in DOMAIN script'["client"], script'["client"][i].op = "spawn"
       PROVE  ~loaded' /\ script'["main"] = <<>> /\ Mains \cap Present' = {} /\ i = Len(script'["client"])
  <2>1. ~loaded' /\ script'["main"] = <<>> /\ Mains \cap Present = {} /\ i = Len(script'["client"])
    BY <1>6, <1>14
  <2>2. h # "main"
    <3>1. CASE h = "main"
      <4>1. script'["client"] = script["client"]
        BY <1>0, <1>1, <3>1, ShiftFacts
      <4>2. script["main"] = <<>>
        BY <1>14, <4>1 DEF PlanInv
      <4> QED BY <1>1, <3>1, <4>2
    <3> QED BY <3>1
  <2>3. d \notin Mains
    BY <1>1, <1>4, <1>8, <1>b, <2>1, <2>2
  <2> QED BY <1>5, <2>1, <2>3
<1>15. PlanInv'
  BY <1>6, <1>10, <1>11, <1>12, <1>13, <1>14 DEF PlanInv
<1>16. installs' = installs + 1 /\ rank' = [rank EXCEPT ![d] = installs + 1] /\ original' = original
  BY <1>1 DEF Install, d
<1>17. RankInv'
  <2>1. installs \in Nat /\ rank \in [Detours -> Nat]
    BY DEF HookTypeOK
  <2>2. ASSUME NEW e \in Detours PROVE (e \in Present' <=> rank'[e] > 0) /\ rank'[e] <= installs'
    <3>1. CASE e = d
      BY <1>2, <1>5, <1>16, <2>1, <3>1
    <3>2. CASE e # d
      <4>1. rank'[e] = rank[e] /\ rank[e] \in Nat /\ rank[e] <= installs
        BY <1>16, <2>1, <3>2 DEF RankInv
      <4> QED BY <1>5, <1>16, <2>1, <3>2, <4>1 DEF RankInv
    <3> QED BY <3>1, <3>2
  <2>3. ASSUME NEW e \in Detours, e \notin Present' PROVE original'[e] = "null"
    BY <1>5, <1>16, <2>3 DEF RankInv
  <2> QED BY <2>2, <2>3 DEF RankInv
<1> QED BY <1>2, <1>3, <1>4, <1>15, <1>17 DEF d

LEMMA EnableKeepsPlans ==
  ASSUME ScriptInv, HookTypeOK, PlanInv, TurnInv, NEW h \in Threads, DoEnable(h)
  PROVE  PlanInv'
<1> DEFINE n == Len(chains)
<1>0. "client" \in Threads /\ "main" \in Threads
  BY RuntimeAssumption
<1>1. /\ \A g \in Threads : g # h => script'[g] = script[g]
      /\ n \in Nat /\ Len(script[h]) \in Nat /\ Len(script'[h]) = n + Len(script[h])
      /\ DOMAIN script[h] = 1..Len(script[h]) /\ DOMAIN script'[h] = 1..(n + Len(script[h]))
      /\ \A i \in 1..n : script'[h][i].op = "patch"
      /\ script'[h][n + 1].op = "arm"
      /\ \A i \in DOMAIN script'[h] :
           \/ i \in 1..n
           \/ i = n + 1
           \/ i > n + 1 /\ i - n \in DOMAIN script[h] /\ i - n > 1 /\ script'[h][i] = script[h][i - n]
  BY EnableShift
<1> HIDE DEF n
<1>2. ASSUME NEW i \in DOMAIN script'[h], script'[h][i].op \in {"install", "spawn"}
      PROVE  i \in Nat /\ i - n \in DOMAIN script[h] /\ script'[h][i] = script[h][i - n]
  <2>1. i \in Nat
    BY <1>1
  <2>2. i \notin 1..n
    <3>1. "patch" \notin {"install", "spawn"}
      OBVIOUS
    <3> QED BY <1>1, <1>2, <3>1
  <2>3. i # n + 1
    <3>1. "arm" \notin {"install", "spawn"}
      OBVIOUS
    <3> QED BY <1>1, <1>2, <3>1
  <2> QED BY <1>1, <2>1, <2>2, <2>3
<1>3. Once(script'[h])
  <2>1. ASSUME NEW i \in DOMAIN script'[h], NEW j \in DOMAIN script'[h],
               script'[h][i].op = "install", script'[h][j].op = "install", script'[h][i].x = script'[h][j].x
        PROVE  i = j
    <3>1. /\ i \in Nat /\ i - n \in DOMAIN script[h] /\ script'[h][i] = script[h][i - n]
          /\ j \in Nat /\ j - n \in DOMAIN script[h] /\ script'[h][j] = script[h][j - n]
      BY <1>2, <2>1
    <3>2. i - n = j - n
      BY <2>1, <3>1 DEF PlanInv, Once
    <3> QED BY <1>1, <3>1, <3>2
  <2> QED BY <2>1 DEF Once
<1>4. Planned(h)' \subseteq Planned(h)
  BY <1>2 DEF Planned
<1>5. ASSUME NEW g \in Threads PROVE Once(script'[g]) /\ Planned(g)' \subseteq Planned(g)
  <2>1. CASE g = h
    BY <1>3, <1>4, <2>1
  <2>2. CASE g # h
    BY <1>1, <2>2 DEF PlanInv, Planned
  <2> QED BY <2>1, <2>2
<1>6. script[h] # <<>> /\ UNCHANGED <<extensions, loaded>> /\ Present' = Present
  BY DEF DoEnable, Ready, runtimevars, hookvars, Present
<1>7. ASSUME NEW i \in DOMAIN script'["client"], script'["client"][i].op = "spawn"
      PROVE  ~loaded' /\ script'["main"] = <<>> /\ Mains \cap Present = {} /\ i = Len(script'["client"])
  <2>1. CASE h # "client"
    <3>1. script'["client"] = script["client"]
      BY <1>0, <1>1, <2>1
    <3>2. script["main"] = <<>>
      BY <1>7, <3>1 DEF PlanInv
    <3>3. h # "main"
      BY <1>6, <3>2
    <3> QED BY <1>0, <1>1, <1>6, <1>7, <3>1, <3>3 DEF PlanInv
  <2>2. CASE h = "client"
    <3>1. i \in Nat /\ i - n \in DOMAIN script["client"] /\ script["client"][i - n].op = "spawn"
      BY <1>2, <1>7, <2>2
    <3>2. ~loaded /\ script["main"] = <<>> /\ Mains \cap Present = {} /\ i - n = Len(script["client"])
      BY <3>1 DEF PlanInv
    <3>3. i = Len(script'["client"])
      BY <1>1, <2>2, <3>1, <3>2
    <3> QED BY <1>0, <1>1, <1>6, <2>2, <3>2, <3>3
  <2> QED BY <2>1, <2>2
<1> QED BY <1>5, <1>6, <1>7, PlansStay

LEMMA SpawnKeepsPlans ==
  ASSUME ScriptInv, PlanInv, TurnInv, NEW h \in Threads, DoSpawn(h)
  PROVE  PlanInv' /\ h = "client" /\ script'["client"] = <<>> /\ script'["main"] = MainThread
         /\ \A g \in Threads \ {"client", "main"} : script'[g] = script[g]
<1>0. "client" \in Threads /\ "main" \in Threads /\ script \in [Threads -> Seq(Ops)]
  BY RuntimeAssumption DEF ScriptInv
<1>1. /\ script[h] # <<>> /\ Head(script[h]).op = "spawn"
      /\ script' = [script EXCEPT ![h] = Tail(@), !["main"] = MainThread]
      /\ UNCHANGED <<extensions, loaded>> /\ Present' = Present
  BY DEF DoSpawn, Ready, runtimevars, hookvars, Present
<1>2. /\ Len(script[h]) \in Nat /\ Len(script[h]) > 0 /\ Head(script[h]) = script[h][1]
      /\ Tail(script[h]) \in Seq(Ops) /\ Len(Tail(script[h])) = Len(script[h]) - 1 /\ 1 \in DOMAIN script[h]
  <2>1. script[h] \in Seq(Ops)
    BY <1>0
  <2>2. /\ Len(script[h]) \in Nat /\ Len(script[h]) > 0 /\ Head(script[h]) = script[h][1]
        /\ Tail(script[h]) \in Seq(Ops) /\ Len(Tail(script[h])) = Len(script[h]) - 1
    BY <1>1, <2>1, PopFacts
  <2> QED BY <2>1, <2>2
<1>3. h = "client"
  <2>1. h \in {"client", "main"}
    BY <1>1 DEF TurnInv
  <2>2. h # "main"
    BY <1>1, <1>2 DEF TurnInv
  <2> QED BY <2>1, <2>2
<1>4. ~loaded /\ script["main"] = <<>> /\ Mains \cap Present = {} /\ 1 = Len(script["client"])
  BY <1>1, <1>2, <1>3 DEF PlanInv
<1>5. script'["client"] = <<>> /\ script'["main"] = MainThread
      /\ \A g \in Threads \ {"client", "main"} : script'[g] = script[g]
  <2>1. Len(Tail(script["client"])) = 0 /\ Tail(script["client"]) \in Seq(Ops)
    BY <1>2, <1>3, <1>4
  <2>2. Tail(script["client"]) = <<>>
    BY <2>1, EmptySeq
  <2> QED BY <1>0, <1>1, <1>3, <2>2
<1>6. DOMAIN <<>> = {}
  OBVIOUS
<1>7. /\ Once(MainThread)
      /\ \A i \in DOMAIN MainThread : MainThread[i].op = "install" => MainThread[i].x \in Mains
  BY MainThreadFacts
<1>8. Planned("client")' = {} /\ Planned("main")' \subseteq Mains
  BY <1>5, <1>6, <1>7 DEF Planned
<1>9. ASSUME NEW g \in Threads PROVE Once(script'[g]) /\ Planned(g)' \cap Present' = {}
  <2>1. CASE g = "client"
    BY <1>5, <1>6, <1>8, <2>1 DEF Once
  <2>2. CASE g = "main"
    BY <1>1, <1>4, <1>5, <1>7, <1>8, <2>2
  <2>3. CASE g \notin {"client", "main"}
    BY <1>1, <1>5, <2>3 DEF PlanInv, Planned
  <2> QED BY <2>1, <2>2, <2>3
<1>10. ~loaded' => Attached(extensions') \cap Present' = {}
  BY <1>1 DEF PlanInv
<1>11. \A i \in DOMAIN script'["client"] : script'["client"][i].op = "spawn" =>
       ~loaded' /\ script'["main"] = <<>> /\ Mains \cap Present' = {} /\ i = Len(script'["client"])
  BY <1>5, <1>6
<1>12. PlanInv'
  BY <1>8, <1>9, <1>10, <1>11 DEF PlanInv
<1> QED BY <1>3, <1>5, <1>12

LEMMA AttachedOnce ==
  ASSUME NEW exts \in Installations
  PROVE  \A i, j \in DOMAIN exts :
           exts[i].op = "install" /\ exts[j].op = "install" /\ exts[i].x = exts[j].x => i = j
<1>1. \A i, j \in DOMAIN exts :
        /\ exts[i].part # "core"
        /\ exts[i].op = "install" /\ exts[j].op = "install" /\ exts[i].x = exts[j].x => i = j
  BY RuntimeAssumption
<1> QED BY <1>1

LEMMA LoadKeepsPlans ==
  ASSUME ScriptInv, PlanInv, LoadExtensions
  PROVE  PlanInv'
<1>0. "client" \in Threads /\ "main" \in Threads /\ script \in [Threads -> Seq(Ops)] /\ extensions \in Installations
  BY RuntimeAssumption DEF ScriptInv
<1>1. /\ ~loaded /\ loaded' = TRUE /\ script' = [script EXCEPT !["client"] = LoadAll(extensions)]
      /\ extensions' = extensions /\ Present' = Present
  BY DEF LoadExtensions, hookvars, Present
<1> DEFINE s == LoadAll(extensions)
<1>2. /\ s \in Seq(Ops) /\ Len(extensions) \in Nat /\ Len(s) = Len(extensions) + 1
      /\ \A i \in 1..Len(extensions) : /\ s[i] = extensions[i] /\ extensions[i].op \in Own1
                                       /\ extensions[i].op = "install" => extensions[i].x \in Attached(extensions)
      /\ s[Len(extensions) + 1] = Do("enable", "all")
  BY <1>0, LoadScript
<1>3. DOMAIN s = 1..(Len(extensions) + 1) /\ s[Len(extensions) + 1].op = "enable"
  BY <1>2, DoFields
<1>s. script'["client"] = s /\ \A g \in Threads : g # "client" => script'[g] = script[g]
  BY <1>0, <1>1
<1> HIDE DEF s
<1>4. ASSUME NEW i \in DOMAIN s
      PROVE  /\ s[i].op = "install" => i \in 1..Len(extensions) /\ s[i] = extensions[i] /\ s[i].x \in Attached(extensions)
             /\ s[i].op # "spawn"
  <2>1. CASE i = Len(extensions) + 1
    BY <1>3, <2>1
  <2>2. CASE i \in 1..Len(extensions)
    BY <1>2, <2>2 DEF Own1
  <2>3. i \in 1..Len(extensions) \/ i = Len(extensions) + 1
    BY <1>2, <1>3
  <2> QED BY <2>1, <2>2, <2>3
<1>5. Once(s)
  <2>1. ASSUME NEW i \in DOMAIN s, NEW j \in DOMAIN s, s[i].op = "install", s[j].op = "install", s[i].x = s[j].x
        PROVE  i = j
    <3>1. i \in 1..Len(extensions) /\ j \in 1..Len(extensions) /\ s[i] = extensions[i] /\ s[j] = extensions[j]
      BY <1>4, <2>1
    <3>2. DOMAIN extensions = 1..Len(extensions)
      <4>1. extensions \in Seq(Ops)
        BY <1>0, LoadScript
      <4> QED BY <4>1
    <3>3. i \in DOMAIN extensions /\ j \in DOMAIN extensions /\ extensions[i].op = "install"
          /\ extensions[j].op = "install" /\ extensions[i].x = extensions[j].x
      BY <2>1, <3>1, <3>2
    <3> QED BY <1>0, <3>3, AttachedOnce
  <2> QED BY <2>1 DEF Once
<1>6. Planned("client")' \subseteq Attached(extensions)
  BY <1>4, <1>s DEF Planned
<1>7. ASSUME NEW g \in Threads PROVE Once(script'[g]) /\ Planned(g)' \cap Present' = {}
  <2>1. CASE g = "client"
    BY <1>1, <1>5, <1>6, <1>s, <2>1 DEF PlanInv
  <2>2. CASE g # "client"
    BY <1>1, <1>s, <2>2 DEF PlanInv, Planned
  <2> QED BY <2>1, <2>2
<1>8. Planned("main")' \subseteq Mains
  BY <1>0, <1>s DEF PlanInv, Planned
<1>9. \A i \in DOMAIN script'["client"] : script'["client"][i].op # "spawn"
  BY <1>4, <1>s
<1> QED BY <1>1, <1>6, <1>7, <1>8, <1>9 DEF PlanInv

LEMMA PlanStep ==
  ASSUME ChainInv, PlanInv, RankInv, TurnInv, [Next]_vars
  PROVE  PlanInv' /\ RankInv'
<1>0. ScriptInv /\ HookTypeOK /\ ChainsInv /\ PointersInv
  BY DEF ChainInv, ChainsInv
<1>r. ASSUME UNCHANGED <<links, installs, rank, original>> PROVE RankInv' /\ Present' = Present
  BY <1>r DEF RankInv, Present
<1>k. ASSUME NEW h \in Threads, NEW k \in 1..Len(script[h]), Further(h, k), UNCHANGED <<extensions, loaded, links>>
      PROVE  PlanInv'
  <2>1. Present' = Present
    BY <1>k DEF Present
  <2>2. /\ \A g \in Threads : Once(script'[g]) /\ Planned(g)' \subseteq Planned(g)
        /\ \A i \in DOMAIN script'["client"] : script'["client"][i].op = "spawn" =>
             ~loaded' /\ script'["main"] = <<>> /\ Mains \cap Present = {} /\ i = Len(script'["client"])
    BY <1>0, <1>k, FurtherKeepsPlans
  <2> QED BY <1>k, <2>1, <2>2, PlansStay
<1>f. ASSUME NEW h \in Threads, NEW op, Ready(h, op), Next1(h)
      PROVE  Further(h, 1) /\ 1 \in 1..Len(script[h])
  BY <1>0, <1>f, NextIsFurther DEF Ready, ScriptInv
<1>1. ASSUME NEW h \in Threads, Dropping(h) PROVE PlanInv' /\ RankInv'
  <2>1. UNCHANGED <<links, installs, rank, original, extensions, loaded>> /\ \E k \in 1..Len(script[h]) : Further(h, k)
    BY <1>1 DEF Dropping, hookvars
  <2> QED BY <1>r, <1>k, <2>1
<1>2. ASSUME NEW h \in Threads, Installing(h) PROVE PlanInv' /\ RankInv'
  BY <1>0, <1>2, InstallKeepsPlans
<1>3. ASSUME NEW h \in Threads, DoEnable(h) PROVE PlanInv' /\ RankInv'
  <2>1. UNCHANGED <<links, installs, rank, original>>
    BY <1>3 DEF DoEnable, hookvars
  <2> QED BY <1>0, <1>3, <1>r, <2>1, EnableKeepsPlans
<1>4. ASSUME NEW h \in Threads, DoPatch(h) PROVE PlanInv' /\ RankInv'
  <2>1. Ready(h, "patch") /\ Next1(h) /\ UNCHANGED <<links, installs, rank, original, extensions, loaded>>
    BY <1>4 DEF DoPatch, Patch, hookvars, runtimevars
  <2>2. Further(h, 1) /\ 1 \in 1..Len(script[h])
    BY <1>f, <2>1
  <2> QED BY <1>r, <1>k, <2>1, <2>2
<1>5. ASSUME NEW h \in Threads, DoArm(h) PROVE PlanInv' /\ RankInv'
  <2>1. Ready(h, "arm") /\ Next1(h) /\ UNCHANGED <<links, installs, rank, original, extensions, loaded>>
    BY <1>5 DEF DoArm, Arm, runtimevars
  <2>2. Further(h, 1) /\ 1 \in 1..Len(script[h])
    BY <1>f, <2>1
  <2> QED BY <1>r, <1>k, <2>1, <2>2
<1>s. ASSUME UNCHANGED <<script, extensions, loaded, links>> PROVE PlanInv'
  BY <1>s DEF PlanInv, Planned, Present
<1>6. ASSUME NEW h \in Threads, DoStore(h) PROVE PlanInv' /\ RankInv'
  <2>1. UNCHANGED <<script, extensions, loaded, links, installs, rank>> /\ stores[h] # <<>>
        /\ original' = [original EXCEPT ![Head(stores[h])[1]] = Head(stores[h])[2]]
    BY <1>6 DEF DoStore, Store, runtimevars
  <2>2. stores[h] \in Seq(Detours \X (Detours \cup {"engine"}))
    BY <1>0 DEF HookTypeOK
  <2>3. Head(stores[h]) = stores[h][1] /\ 1 \in DOMAIN stores[h]
    BY <2>1, <2>2, PopFacts
  <2>4. Head(stores[h])[1] \in Present
    BY <1>0, <2>3 DEF PointersInv
  <2>5. \A d \in Detours : d \notin Present => original'[d] = original[d]
    BY <1>0, <2>1, <2>4 DEF HookTypeOK
  <2>6. Present' = Present
    BY <2>1 DEF Present
  <2> QED BY <1>s, <2>1, <2>5, <2>6 DEF RankInv
<1>7. ASSUME NEW h \in Threads, DoSpawn(h) PROVE PlanInv' /\ RankInv'
  <2>1. UNCHANGED <<links, installs, rank, original>>
    BY <1>7 DEF DoSpawn, hookvars
  <2> QED BY <1>0, <1>7, <1>r, <2>1, SpawnKeepsPlans
<1>8. CASE LoadExtensions
  <2>1. UNCHANGED <<links, installs, rank, original>>
    BY <1>8 DEF LoadExtensions, hookvars
  <2> QED BY <1>0, <1>8, <1>r, <2>1, LoadKeepsPlans
<1>9. CASE EnterInit \/ EnterOther \/ Device \/ Proceed \/ Quiet
  <2>1. UNCHANGED <<script, extensions, loaded, links, installs, rank, original>>
    BY <1>9 DEF EnterInit, EnterOther, Device, Proceed, Quiet, runtimevars, hookvars
  <2> QED BY <1>r, <1>s, <2>1
<1> QED BY <1>0, <1>1, <1>2, <1>3, <1>4, <1>5, <1>6, <1>7, <1>8, <1>9, HookSteps

(***************************************************************************)
(* One thread at a time: TurnInv                                           *)
(***************************************************************************)
\* The five functions of the archive have chains of their own, of one detour.
LEMMA StorageChain ==
  ASSUME ChainsInv, NEW h \in Threads, NEW d \in StorageOps, d \notin Present, stores[h] = <<>>, Install(h, d)
  PROVE  /\ d \in Detours /\ d \in Targets /\ Target[d] = d /\ links[d] = <<>> /\ d \notin patched
         /\ stores' = [stores EXCEPT ![h] = <<>>]
<1>1. d \in Detours /\ Target[d] = d /\ d \in Targets /\ HookTypeOK /\ \A e \in Detours : Target[e] = d => e = d
  BY RuntimeAssumption, HookAssumption DEF ChainsInv
<1>2. links[d] \in Seq(Detours) /\ \A e \in Members(links[d]) : e = d /\ e \in Present
  BY <1>1, OneAddress
<1>3. links[d] = <<>>
  <2>1. Members(links[d]) = {}
    BY <1>2
  <2> QED BY <1>2, <2>1, MembersFacts
<1>4. d \notin patched
  BY <1>1, <1>3 DEF ChainsInv
<1>5. PICK p \in 0..Len(links[d]) : InstalledAt(d, p)
  BY <1>1, InstallFacts
<1>6. links'[d] \in Seq(Detours) /\ Len(links'[d]) = 1 /\ links' \in [Targets -> Seq(Detours)]
  <2>1. Len(links[d]) = 0
    BY <1>3
  <2> QED BY <1>1, <1>5, <2>1 DEF InstalledAt
<1>9. links'[d] # <<>>
  <2>1. ASSUME NEW S, NEW q \in Seq(S), Len(q) = 1 PROVE q # <<>>
    BY <2>1, EmptySeq
  <2> QED BY <1>6, <2>1
<1>7. Relink(links'[d], d \in patched) = <<>>
  <2> DEFINE r == Relink(links'[d], d \in patched)
  <2>2. r \in Seq(Detours \X (Detours \cup {"engine"})) /\ Len(r) = IF d \in patched THEN Len(links'[d]) ELSE Len(links'[d]) - 1
    BY <1>6, <1>9, RelinkFacts
  <2>3. Len(r) = 0
    <3> HIDE DEF r
    <3> QED BY <1>4, <1>6, <2>2
  <2> QED BY <2>2, <2>3, EmptySeq
<1>8. stores' = [stores EXCEPT ![h] = Relink(links'[d], d \in patched)]
  <2>1. links' = [links EXCEPT ![d] = links'[d]]
    BY <1>1 DEF Install, HookTypeOK
  <2> QED BY <1>1, <1>6 DEF Install, HookTypeOK
<1> QED BY <1>1, <1>3, <1>4, <1>7, <1>8

\* Whoever runs its script or stores pointers, and when.
Turn(h) ==
  /\ h \in {"client", "main"}
  /\ h = "client" => ~Started /\ ~device /\ stores["main"] = <<>> /\ script["client"] # <<>>
  /\ h = "main" /\ device => script["client"] = <<>> /\ stores["client"] = <<>>
  /\ h = "main" /\ ~device => Early(script["main"]) /\ stores["main"] = <<>>

LEMMA Turns ==
  ASSUME TurnInv, NEW h \in Threads, script[h] # <<>> \/ stores[h] # <<>>
  PROVE  Turn(h)
BY DEF TurnInv, Turn

\* Before the device exists, MainThread only installs or leaves out an
\* installation.
LEMMA MainIsEarly ==
  ASSUME ScriptInv, NEW op, Ready("main", op), Early(script["main"]), op # "wait"
  PROVE  op = "install" /\ Arg("main") \in StorageOps
<1>1. script["main"] \in Seq(Ops)
  BY RuntimeAssumption DEF ScriptInv
<1>2. script["main"] # <<>> /\ Head(script["main"]).op = op
  BY DEF Ready
<1>3. Head(script["main"]) = script["main"][1] /\ Len(script["main"]) \in Nat /\ Len(script["main"]) > 0
  BY <1>1, <1>2, PopFacts
<1>4. 1 \in DOMAIN script["main"] /\ \A j \in 1..1 : j = 1
  BY <1>1, <1>3
<1>5. (script["main"][1].op = "install" /\ script["main"][1].x \in StorageOps) \/ \E j \in 1..1 : script["main"][j].op = "wait"
  BY <1>4 DEF Early
<1> QED BY <1>2, <1>3, <1>4, <1>5 DEF Arg

LEMMA EarlyRest ==
  ASSUME ScriptInv, NEW k \in 1..Len(script["main"]), Further("main", k), Early(script["main"]),
         \A i \in 1..k : script["main"][i].op # "wait"
  PROVE  Early(script'["main"])
<1>1. /\ Len(script["main"]) \in Nat
      /\ \A i \in DOMAIN script'["main"] :
           i \in Nat /\ i > 0 /\ i + k \in DOMAIN script["main"] /\ script'["main"][i] = script["main"][i + k]
      /\ DOMAIN script["main"] = 1..Len(script["main"]) /\ DOMAIN script'["main"] = 1..(Len(script["main"]) - k)
  BY ShiftFacts, RuntimeAssumption
<1>2. ASSUME NEW i \in DOMAIN script'["main"], NEW j \in 1..(i + k), script["main"][j].op = "wait"
      PROVE  \E a \in 1..i : script'["main"][a].op = "wait"
  <2>1. ~(j <= k)
    BY <1>1, <1>2
  <2>2. j - k \in 1..i /\ (j - k) + k = j /\ j - k \in DOMAIN script'["main"]
    BY <1>1, <2>1
  <2>3. script'["main"][j - k] = script["main"][j]
    BY <1>1, <2>2
  <2> QED BY <1>2, <2>2, <2>3
<1>3. ASSUME NEW i \in DOMAIN script'["main"]
      PROVE  (script'["main"][i].op = "install" /\ script'["main"][i].x \in StorageOps)
             \/ \E j \in 1..i : script'["main"][j].op = "wait"
  <2>1. i + k \in DOMAIN script["main"] /\ script'["main"][i] = script["main"][i + k]
    BY <1>1
  <2>2. (script["main"][i + k].op = "install" /\ script["main"][i + k].x \in StorageOps)
        \/ \E j \in 1..(i + k) : script["main"][j].op = "wait"
    BY <2>1 DEF Early
  <2> QED BY <1>2, <2>1, <2>2
<1> QED BY <1>3 DEF Early

\* What the client's script ends with.
EndsWell(s) == s # <<>> => s[Len(s)].op \in {"enable", "arm", "spawn"}

LEMMA EndStays ==
  ASSUME ScriptInv, NEW k \in 1..Len(script["client"]), Further("client", k), EndsWell(script["client"])
  PROVE  /\ EndsWell(script'["client"])
         /\ script["client"][k].op \notin {"enable", "arm", "spawn"} => script'["client"] # <<>>
<1> DEFINE s == script["client"]
           r == script'["client"]
<1>1. /\ Len(s) \in Nat /\ DOMAIN s = 1..Len(s) /\ Len(r) = Len(s) - k /\ DOMAIN r = 1..(Len(s) - k)
      /\ \A i \in DOMAIN r : r[i] = s[i + k]
      /\ s \in Seq(Ops) /\ r \in Seq(Ops)
  <2>1. "client" \in Threads /\ script \in [Threads -> Seq(Ops)]
    BY RuntimeAssumption DEF ScriptInv
  <2>2. script' \in [Threads -> Seq(Ops)]
    BY <2>1, FurtherFacts
  <2> QED BY <2>1, <2>2, ShiftFacts
<1> HIDE DEF s, r
<1>2. s # <<>>
  BY <1>1, EmptySeq DEF s
<1>3. CASE k = Len(s)
  <2>1. r = <<>>
    BY <1>1, <1>3, EmptySeq
  <2> QED BY <1>2, <1>3, <2>1 DEF EndsWell, s, r
<1>4. CASE k # Len(s)
  <2>1. Len(s) - k \in DOMAIN r /\ (Len(s) - k) + k = Len(s) /\ Len(r) # 0
    BY <1>1, <1>4 DEF s
  <2>2. r[Len(r)] = s[Len(s)] /\ r # <<>>
    <3>1. r[Len(s) - k] = s[(Len(s) - k) + k]
      BY <1>1, <2>1
    <3> QED BY <1>1, <2>1, <3>1, EmptySeq
  <2> QED BY <1>2, <2>2 DEF EndsWell, s, r
<1> QED BY <1>3, <1>4

\* Whose steps leave the invariant alone.
LEMMA ClientRunKeepsTurns ==
  ASSUME TurnInv, ~Started, ~device, UNCHANGED <<calls, device>>, script'["main"] = script["main"], stores'["main"] = stores["main"],
         \A h \in Threads \ {"client", "main"} : script'[h] = script[h] /\ stores'[h] = stores[h],
         EndsWell(script'["client"]), stores'["client"] # <<>> => script'["client"] # <<>>
  PROVE  TurnInv'
<1>1. ~Started' /\ ~device'
  BY DEF Started
<1>2. \A h \in Threads \ {"client", "main"} : script'[h] = <<>> /\ stores'[h] = <<>>
  BY DEF TurnInv
<1>3. stores'["main"] = <<>> /\ Early(script'["main"])
  BY DEF TurnInv
<1>4. \A i \in DOMAIN script'["main"] : script'["main"][i].op \in {"install", "wait", "enable", "patch", "arm"}
  BY DEF TurnInv
<1> QED BY <1>1, <1>2, <1>3, <1>4 DEF TurnInv, EndsWell

LEMMA MainRunKeepsTurns ==
  ASSUME TurnInv, UNCHANGED <<calls, device>>, script'["client"] = script["client"], stores'["client"] = stores["client"],
         \A h \in Threads \ {"client", "main"} : script'[h] = script[h] /\ stores'[h] = stores[h],
         ~device => stores'["main"] = <<>> /\ Early(script'["main"]),
         \A i \in DOMAIN script'["main"] : script'["main"][i].op \in {"install", "wait", "enable", "patch", "arm"}
  PROVE  TurnInv'
<1>1. /\ \A h \in Threads \ {"client", "main"} : script'[h] = <<>> /\ stores'[h] = <<>>
      /\ Started' => Started
  BY DEF TurnInv, Started
<1>2. ~device' => stores'["main"] = <<>> /\ Early(script'["main"])
  OBVIOUS
<1>3. Started' \/ device' => script'["client"] = <<>> /\ stores'["client"] = <<>>
  BY <1>1 DEF TurnInv
<1>4. device' /\ calls'["client"].target = "init" => calls'["client"].at = "engine"
  BY DEF TurnInv
<1>5. stores'["client"] # <<>> => script'["client"] # <<>>
  BY DEF TurnInv
<1>6. script'["client"] # <<>> => script'["client"][Len(script'["client"])].op \in {"enable", "arm", "spawn"}
  BY DEF TurnInv
<1> QED BY <1>1, <1>2, <1>3, <1>4, <1>5, <1>6 DEF TurnInv

\* A step forward in a script, by whom it may be.
LEMMA FurtherKeepsTurns ==
  ASSUME ScriptInv, TurnInv, NEW h \in Threads, Turn(h), NEW k \in 1..Len(script[h]), Further(h, k),
         stores \in [Threads -> Seq(Detours \X (Detours \cup {"engine"}))],
         UNCHANGED <<calls, device>>, \A g \in Threads : g # h => stores'[g] = stores[g],
         h = "client" /\ stores'[h] # <<>> => script[h][k].op \notin {"enable", "arm", "spawn"},
         h = "main" /\ ~device => stores'[h] = <<>> /\ \A i \in 1..k : script[h][i].op # "wait"
  PROVE  TurnInv'
<1>0. "client" \in Threads /\ "main" \in Threads
  BY RuntimeAssumption
<1>1. /\ \A g \in Threads : g # h => script'[g] = script[g]
      /\ \A i \in DOMAIN script'[h] : i + k \in DOMAIN script[h] /\ script'[h][i] = script[h][i + k]
  BY ShiftFacts
<1>2. CASE h = "client"
  <2>1. EndsWell(script["client"])
    BY DEF TurnInv, EndsWell
  <2>2. EndsWell(script'["client"])
    BY <1>2, <2>1, EndStays
  <2>3. stores'["client"] # <<>> => script'["client"] # <<>>
    BY <1>2, <2>1, EndStays
  <2>4. \A g \in Threads \ {"client", "main"} : script'[g] = script[g] /\ stores'[g] = stores[g]
    BY <1>1, <1>2
  <2>5. script'["main"] = script["main"] /\ stores'["main"] = stores["main"]
    BY <1>0, <1>1, <1>2
  <2>6. ~Started /\ ~device
    BY <1>2 DEF Turn
  <2> QED BY <2>2, <2>3, <2>4, <2>5, <2>6, ClientRunKeepsTurns
<1>3. CASE h = "main"
  <2>1. \A i \in DOMAIN script'["main"] : script'["main"][i].op \in {"install", "wait", "enable", "patch", "arm"}
    BY <1>1, <1>3 DEF TurnInv
  <2>2. ~device => stores'["main"] = <<>> /\ Early(script'["main"])
    <3>1. ASSUME ~device PROVE Early(script'["main"])
      <4>1. Early(script["main"])
        BY <3>1 DEF TurnInv
      <4> QED BY <1>3, <3>1, <4>1, EarlyRest
    <3> QED BY <1>3, <3>1
  <2>3. \A g \in Threads \ {"client", "main"} : script'[g] = script[g] /\ stores'[g] = stores[g]
    BY <1>1, <1>3
  <2>4. script'["client"] = script["client"] /\ stores'["client"] = stores["client"]
    BY <1>0, <1>1, <1>3
  <2> QED BY <2>1, <2>2, <2>3, <2>4, MainRunKeepsTurns
<1> QED BY <1>2, <1>3 DEF Turn

\* MainThread neither enables, patches nor arms before the device exists.
LEMMA OnlyLate ==
  ASSUME ScriptInv, TurnInv, NEW h \in Threads, NEW op \in {"enable", "patch", "arm"}, Ready(h, op)
  PROVE  h \in {"client", "main"} /\ (h = "main" => device)
<1>1. Turn(h)
  BY Turns DEF Ready
<1>2. ASSUME h = "main", ~device PROVE FALSE
  <2>1. op = "install"
    BY <1>1, <1>2, MainIsEarly DEF Turn
  <2> QED BY <2>1
<1> QED BY <1>1, <1>2 DEF Turn

LEMMA TurnStep ==
  ASSUME ~MayTimeOut, ChainInv, PlanInv, RankInv, TurnInv, [Next]_vars
  PROVE  TurnInv'
<1>0. /\ ScriptInv /\ HookTypeOK /\ ChainsInv /\ CallsInv /\ "client" \in Threads /\ "main" \in Threads /\ "client" \in Callers
      /\ stores \in [Threads -> Seq(Detours \X (Detours \cup {"engine"}))]
      /\ script \in [Threads -> Seq(Ops)]
  BY RuntimeAssumption DEF ChainInv, ChainsInv, ScriptInv, HookTypeOK
<1>f. ASSUME NEW h \in Threads, NEW op, Ready(h, op), Next1(h)
      PROVE  /\ Further(h, 1) /\ 1 \in 1..Len(script[h]) /\ script[h][1].op = op /\ Turn(h) /\ stores[h] = <<>>
             /\ Arg(h) = script[h][1].x
  <2>1. Further(h, 1) /\ 1 \in 1..Len(script[h]) /\ Head(script[h]) = script[h][1]
    BY <1>0, <1>f, NextIsFurther DEF Ready
  <2> QED BY <1>f, <2>1, Turns DEF Ready, Arg
<1>o. \A i \in 1..1 : i = 1
  OBVIOUS
<1>1. ASSUME NEW h \in Threads, Dropping(h) PROVE TurnInv'
  <2>1. PICK k \in 1..Len(script[h]) :
          Further(h, k) /\ \A i \in 1..k : script[h][i].op = "wait" => device \/ MayTimeOut
    BY <1>1 DEF Dropping
  <2>2. UNCHANGED <<stores, calls, device>> /\ stores[h] = <<>> /\ script[h] # <<>>
    BY <1>1 DEF Dropping, hookvars
  <2>3. Turn(h)
    BY <2>2, Turns
  <2> QED BY <1>0, <2>1, <2>2, <2>3, FurtherKeepsTurns
<1>2. ASSUME NEW h \in Threads, Installing(h) PROVE TurnInv'
  <2> DEFINE d == script[h][1].x
  <2>1. /\ Further(h, 1) /\ 1 \in 1..Len(script[h]) /\ Install(h, d) /\ UNCHANGED <<calls, device>>
        /\ stores[h] = <<>> /\ script[h] # <<>> /\ script[h][1].op = "install" /\ Alive
    BY <1>2 DEF Installing
  <2>2. d \notin Present
    BY <1>0, <1>2, InstallKeepsPlans
  <2>3. Turn(h)
    BY <2>1, Turns
  <2>4. \E r : stores' = [stores EXCEPT ![h] = r]
    BY <2>1 DEF Install
  <2>5. \A g \in Threads : g # h => stores'[g] = stores[g]
    BY <1>0, <2>4
  <2>6. ASSUME h = "main", ~device PROVE stores'[h] = <<>>
    <3>1. Head(script[h]) = script[h][1]
      BY <1>0, <2>1, PopFacts
    <3>2. Ready("main", "install") /\ Early(script["main"]) /\ Arg("main") = d
      BY <2>1, <2>3, <2>6, <3>1 DEF Ready, Turn, Arg
    <3>3. d \in StorageOps
      <4>1. "install" # "wait"
        OBVIOUS
      <4> QED BY <1>0, <3>2, <4>1, MainIsEarly
    <3> HIDE DEF d
    <3>4. stores' = [stores EXCEPT ![h] = <<>>]
      BY <1>0, <2>1, <2>2, <3>3, StorageChain
    <3> QED BY <1>0, <3>4
  <2> QED BY <1>0, <1>o, <2>1, <2>3, <2>5, <2>6, FurtherKeepsTurns
<1>3. ASSUME NEW h \in Threads, DoEnable(h) PROVE TurnInv'
  <2>1. Ready(h, "enable") /\ UNCHANGED <<stores, calls, device>>
    BY <1>3 DEF DoEnable, hookvars, runtimevars
  <2>2. Turn(h) /\ stores[h] = <<>> /\ (h = "main" => device)
    BY <1>0, <2>1, Turns, OnlyLate DEF Ready
  <2> DEFINE n == Len(chains)
             m == Len(script[h])
  <2>3. /\ \A g \in Threads : g # h => script'[g] = script[g]
        /\ n \in Nat /\ m \in Nat /\ m > 0 /\ Len(script'[h]) = n + m
        /\ DOMAIN script[h] = 1..m
        /\ \A i \in 1..n : script'[h][i].op = "patch"
        /\ script'[h][n + 1].op = "arm"
        /\ \A i \in DOMAIN script'[h] :
             \/ i \in 1..n
             \/ i = n + 1
             \/ i > n + 1 /\ i - n \in DOMAIN script[h] /\ script'[h][i] = script[h][i - n]
        /\ \A j \in DOMAIN script[h] : j > 1 => j + n \in DOMAIN script'[h] /\ script'[h][j + n] = script[h][j]
    BY <1>0, <1>3, EnableShift
  <2> HIDE DEF n, m
  <2>4. \A g \in Threads \ {"client", "main"} : script'[g] = script[g] /\ stores'[g] = stores[g]
    BY <2>1, <2>2, <2>3 DEF Turn
  <2>5. CASE h = "client"
    <3>1. script'["client"] # <<>>
      <4>1. Len(<<>>) = 0
        OBVIOUS
      <4> QED BY <2>3, <2>5, <4>1
    <3>2. script'["client"][n + m].op \in {"enable", "arm", "spawn"}
      <4>1. CASE m = 1
        BY <2>3, <2>5, <4>1
      <4>2. CASE m # 1
        <5>1. m \in DOMAIN script[h] /\ m > 1
          BY <2>3, <4>2
        <5>2. script'[h][m + n] = script[h][m] /\ m + n = n + m
          BY <2>3, <5>1
        <5>3. script[h][m].op \in {"enable", "arm", "spawn"}
          <6>1. script["client"] # <<>>
            BY <2>2, <2>5 DEF Turn
          <6> QED BY <2>5, <6>1 DEF TurnInv, m
        <5> QED BY <2>5, <5>2, <5>3
      <4> QED BY <4>1, <4>2
    <3>3. EndsWell(script'["client"])
      BY <2>3, <2>5, <3>2 DEF EndsWell
    <3>4. script'["main"] = script["main"] /\ stores'["main"] = stores["main"] /\ ~Started /\ ~device
      BY <1>0, <2>1, <2>2, <2>3, <2>5 DEF Turn
    <3> QED BY <2>1, <2>4, <3>1, <3>3, <3>4, ClientRunKeepsTurns
  <2>6. CASE h = "main"
    <3>1. \A i \in DOMAIN script'["main"] : script'["main"][i].op \in {"install", "wait", "enable", "patch", "arm"}
      BY <2>3, <2>6 DEF TurnInv
    <3>2. script'["client"] = script["client"] /\ stores'["client"] = stores["client"]
      BY <1>0, <2>1, <2>3, <2>6
    <3> QED BY <2>1, <2>2, <2>4, <2>6, <3>1, <3>2, MainRunKeepsTurns
  <2> QED BY <2>2, <2>5, <2>6 DEF Turn
<1>4. ASSUME NEW h \in Threads, DoPatch(h) PROVE TurnInv'
  <2>1. Ready(h, "patch") /\ Next1(h) /\ Patch(h, Arg(h)) /\ UNCHANGED <<calls, device>>
    BY <1>4 DEF DoPatch, runtimevars
  <2>2. /\ Further(h, 1) /\ 1 \in 1..Len(script[h]) /\ script[h][1].op = "patch" /\ Turn(h)
        /\ h = "main" => device
    BY <1>0, <1>f, <2>1, OnlyLate
  <2>3. \A g \in Threads : g # h => stores'[g] = stores[g]
    <3>1. (\E r : stores' = [stores EXCEPT ![h] = r]) \/ stores' = stores
      BY <2>1 DEF Patch, hookvars
    <3> QED BY <1>0, <3>1
  <2>4. script[h][1].op \notin {"enable", "arm", "spawn"}
    BY <2>2
  <2> QED BY <1>0, <2>1, <2>2, <2>3, <2>4, FurtherKeepsTurns
<1>5. ASSUME NEW h \in Threads, DoArm(h) PROVE TurnInv'
  <2>1. Ready(h, "arm") /\ Next1(h) /\ UNCHANGED <<stores, calls, device>>
    BY <1>5 DEF DoArm, Arm, runtimevars
  <2>2. /\ Further(h, 1) /\ 1 \in 1..Len(script[h]) /\ Turn(h) /\ stores[h] = <<>>
        /\ h = "main" => device
    BY <1>0, <1>f, <2>1, OnlyLate
  <2> QED BY <1>0, <2>1, <2>2, FurtherKeepsTurns
<1>6. ASSUME NEW h \in Threads, DoStore(h) PROVE TurnInv'
  <2>1. UNCHANGED <<script, calls, device>> /\ stores[h] # <<>> /\ stores' = [stores EXCEPT ![h] = Tail(@)]
    BY <1>6 DEF DoStore, Store, runtimevars
  <2>2. Turn(h)
    BY <2>1, Turns
  <2>3. \A g \in Threads : g # h => stores'[g] = stores[g]
    BY <1>0, <2>1
  <2>4. CASE h = "client"
    <3>1. \A g \in Threads \ {"client", "main"} : script'[g] = script[g] /\ stores'[g] = stores[g]
      BY <2>1, <2>3, <2>4
    <3>2. EndsWell(script'["client"]) /\ script'["client"] # <<>>
      BY <2>1, <2>2, <2>4 DEF EndsWell, TurnInv, Turn
    <3>3. script'["main"] = script["main"] /\ stores'["main"] = stores["main"] /\ ~Started /\ ~device
      BY <1>0, <2>1, <2>2, <2>3, <2>4 DEF Turn
    <3> QED BY <2>1, <3>1, <3>2, <3>3, ClientRunKeepsTurns
  <2>5. CASE h = "main"
    <3>1. \A g \in Threads \ {"client", "main"} : script'[g] = script[g] /\ stores'[g] = stores[g]
      BY <2>1, <2>3, <2>5
    <3>2. device
      BY <2>1, <2>2, <2>5 DEF Turn
    <3>3. script'["client"] = script["client"] /\ stores'["client"] = stores["client"]
      BY <1>0, <2>1, <2>3, <2>5
    <3>4. \A i \in DOMAIN script'["main"] : script'["main"][i].op \in {"install", "wait", "enable", "patch", "arm"}
      BY <2>1 DEF TurnInv
    <3> QED BY <2>1, <3>1, <3>2, <3>3, <3>4, MainRunKeepsTurns
  <2> QED BY <2>2, <2>4, <2>5 DEF Turn
<1>7. ASSUME NEW h \in Threads, DoSpawn(h) PROVE TurnInv'
  <2>1. /\ h = "client" /\ script'["client"] = <<>> /\ script'["main"] = MainThread
        /\ \A g \in Threads \ {"client", "main"} : script'[g] = script[g]
    BY <1>0, <1>7, SpawnKeepsPlans
  <2>2. UNCHANGED <<stores, calls, device>> /\ script[h] # <<>> /\ stores[h] = <<>>
    BY <1>7 DEF DoSpawn, Ready, hookvars, runtimevars
  <2>3. Turn(h)
    BY <2>2, Turns
  <2>4. Early(MainThread) /\ \A i \in DOMAIN MainThread : MainThread[i].op \in {"install", "wait", "enable"}
    BY MainThreadFacts
  <2>5. ~Started' /\ ~device' /\ stores'["main"] = <<>> /\ stores'["client"] = <<>>
    BY <2>1, <2>2, <2>3 DEF Turn, Started
  <2>6. \A g \in Threads \ {"client", "main"} : script'[g] = <<>> /\ stores'[g] = <<>>
    BY <2>1, <2>2 DEF TurnInv
  <2>7. \A i \in DOMAIN script'["main"] : script'["main"][i].op \in {"install", "wait", "enable", "patch", "arm"}
    BY <2>1, <2>4
  <2> QED BY <2>1, <2>4, <2>5, <2>6, <2>7 DEF TurnInv
<1>s. ASSUME UNCHANGED <<script, stores>>, Started' \/ device' => script["client"] = <<>> /\ stores["client"] = <<>>,
             device' /\ calls'["client"].target = "init" => calls'["client"].at = "engine",
             ~device' => ~device
      PROVE  TurnInv'
  BY <1>s DEF TurnInv
<1>c. calls \in [Callers -> [target : Targets \cup {"none"}, at : Detours \cup {"none", "engine", "null"},
                             seen : Seq(Detours), due : SUBSET Detours]]
      /\ \A c \in Callers : c # "client" => calls[c] = NoCall
  BY <1>0 DEF CallsInv
<1>i. Free => script["client"] = <<>> /\ stores["client"] = <<>>
  BY DEF Free, TurnInv
<1>8. CASE LoadExtensions
  <2>1. /\ script' = [script EXCEPT !["client"] = LoadAll(extensions)] /\ UNCHANGED <<stores, calls, device>>
        /\ calls["client"].at = "loader"
    BY <1>8 DEF LoadExtensions, hookvars
  <2>2. calls["client"].target = "init"
    <3>1. "loader" \in Detours /\ Target["loader"] = "init"
      BY RuntimeAssumption
    <3> QED BY <1>0, <2>1, <3>1 DEF CallsInv
  <2>3. ~device /\ ~Started
    <3>1. "loader" # "engine"
      OBVIOUS
    <3>2. ~device
      BY <2>1, <2>2, <3>1 DEF TurnInv
    <3>3. ~Started
      BY <1>c, <2>1, <3>1 DEF Started, NoCall
    <3> QED BY <3>2, <3>3
  <2>4. /\ LoadAll(extensions) \in Seq(Ops) /\ Len(extensions) \in Nat /\ Len(LoadAll(extensions)) = Len(extensions) + 1
        /\ LoadAll(extensions)[Len(extensions) + 1] = Do("enable", "all")
    BY <1>0, LoadScript DEF ScriptInv
  <2>5. EndsWell(LoadAll(extensions)) /\ LoadAll(extensions) # <<>>
    <3>1. LoadAll(extensions)[Len(LoadAll(extensions))].op = "enable"
      BY <2>4, DoFields
    <3>2. Len(<<>>) = 0 /\ Len(extensions) + 1 # 0
      BY <2>4
    <3> QED BY <2>4, <3>1, <3>2 DEF EndsWell
  <2>6. script'["client"] = LoadAll(extensions) /\ \A g \in Threads : g # "client" => script'[g] = script[g]
    BY <1>0, <2>1
  <2> QED BY <1>0, <2>1, <2>3, <2>5, <2>6, ClientRunKeepsTurns
<1>9. CASE EnterInit
  <2>1. ~device /\ UNCHANGED <<script, stores, device>> /\ Free
    BY <1>9 DEF EnterInit, hookvars, runtimevars
  <2> QED BY <1>i, <1>s, <2>1
<1>10. CASE EnterOther
  <2>1. PICK t \in Targets \ (StorageOps \cup {"init", "drain", "upload"}) : Enter("client", t)
    BY <1>10 DEF EnterOther
  <2>2. UNCHANGED <<script, stores, device>> /\ Free
    BY <1>10 DEF EnterOther, hookvars, runtimevars
  <2>3. calls'["client"].target = t
    BY <1>0, <1>c, <2>1 DEF Enter, NoCall
  <2> QED BY <1>i, <1>s, <2>1, <2>2, <2>3
<1>11. CASE Device
  <2>1. UNCHANGED <<script, stores, calls>> /\ Started /\ device'
    BY <1>11 DEF Device, hookvars
  <2>2. calls["client"].at = "engine"
    <3>1. PICK c \in Callers : calls[c].at = "engine"
      BY <2>1 DEF Started
    <3>2. NoCall.at = "none"
      BY DEF NoCall
    <3> QED BY <1>c, <3>1, <3>2
  <2> QED BY <1>s, <2>1, <2>2 DEF TurnInv
<1>12. CASE Proceed
  <2>1. UNCHANGED <<script, stores, device>> /\ Free
    BY <1>12 DEF Proceed, hookvars, runtimevars
  <2>2. CASE Forward("client")
    <3>1. /\ calls["client"].at \in Detours /\ calls'["client"].target = calls["client"].target
      BY <1>0, <1>c, <2>2 DEF Forward
    <3>2. ~(device /\ calls["client"].target = "init")
      BY <3>1, HookAssumption DEF TurnInv
    <3> QED BY <1>i, <1>s, <2>1, <3>1, <3>2
  <2>3. CASE Return("client")
    <3>1. calls'["client"] = NoCall
      BY <1>0, <1>c, <2>3 DEF Return
    <3> QED BY <1>i, <1>s, <2>1, <3>1 DEF NoCall
  <2> QED BY <1>12, <2>2, <2>3 DEF Proceed
<1>13. CASE Quiet
  <2>1. UNCHANGED <<script, stores, calls, device>> /\ Started' = Started
    BY <1>13 DEF Quiet, hookvars, Started
  <2> QED BY <1>s, <2>1 DEF TurnInv
<1> QED BY <1>0, <1>1, <1>2, <1>3, <1>4, <1>5, <1>6, <1>7, <1>8, <1>9, <1>10, <1>11, <1>12, <1>13, HookSteps

\* All of the above.
CoreInv == ChainInv /\ PlanInv /\ RankInv /\ TurnInv

LEMMA InitCore == Init => CoreInv
<1> SUFFICES ASSUME Init PROVE CoreInv
  OBVIOUS
<1>1. /\ HookInit /\ CallInit /\ script = [h \in Threads |-> IF h = "client" THEN DllMain ELSE <<>>]
      /\ extensions \in Installations /\ loaded = FALSE /\ device = FALSE
  BY DEF Init
<1>2. /\ links = [t \in Targets |-> <<>>] /\ stores = [h \in Threads |-> <<>>]
      /\ installs = 0 /\ rank = [d \in Detours |-> 0] /\ original = [d \in Detours |-> "null"]
  BY <1>1 DEF HookInit
<1>3. DOMAIN <<>> = {}
  OBVIOUS
<1>4. Present = {}
  BY <1>2, <1>3, HookAssumption DEF Present, Members
<1>5. RankInv
  BY <1>2, <1>4 DEF RankInv
<1>6. /\ "client" \in Threads /\ "main" \in Threads /\ "client" \in Callers
      /\ script["client"] = DllMain /\ \A h \in Threads : h # "client" => script[h] = <<>>
  BY <1>1, RuntimeAssumption
<1> DEFINE n == Len(DllMain)
<1>7. /\ n \in Nat /\ n >= 5 /\ DOMAIN DllMain = 1..n /\ DllMain # <<>>
      /\ \A i \in DOMAIN DllMain :
          /\ DllMain[i].op = "install" => DllMain[i].x \in Clients
          /\ DllMain[i].op = "spawn" => i = n
      /\ DllMain[n].op = "spawn" /\ Once(DllMain)
  BY DllMainFacts
<1>8. PlanInv
  <2>1. \A h \in Threads : Once(script[h]) /\ Planned(h) \cap Present = {}
    BY <1>3, <1>4, <1>6, <1>7 DEF Once
  <2>2. Planned("main") \subseteq Mains
    BY <1>3, <1>6 DEF Planned
  <2>3. Planned("client") \subseteq Clients
    BY <1>6, <1>7 DEF Planned
  <2> QED BY <1>1, <1>4, <1>6, <1>7, <2>1, <2>2, <2>3 DEF PlanInv
<1>9. TurnInv
  <2>1. ~Started
    BY <1>1 DEF Started, CallInit, NoCall
  <2>2. Early(<<>>)
    BY <1>3 DEF Early
  <2> QED BY <1>1, <1>2, <1>3, <1>6, <1>7, <2>1, <2>2 DEF TurnInv
<1> QED BY <1>5, <1>8, <1>9, InitChains DEF CoreInv

LEMMA CoreInvariant ==
  ASSUME ~MayTimeOut PROVE Spec => []CoreInv
<1>1. CoreInv /\ [Next]_vars => CoreInv'
  BY ChainStep, CallStep, PlanStep, TurnStep DEF CoreInv, ChainInv
<1> QED BY <1>1, InitCore, PTL DEF Spec

\* Whoever stores or arms does so alone.
LEMMA StoresAlone ==
  ASSUME CoreInv, NEW h \in Threads, script[h] # <<>> \/ stores[h] # <<>>, h = "client" \/ device
  PROVE  \A g \in Threads : g # h => stores[g] = <<>>
<1>1. Turn(h) /\ TurnInv
  BY Turns DEF CoreInv
<1> QED BY <1>1 DEF Turn, TurnInv

(***************************************************************************)
(* Handles and half-armed storage detours                                  *)
(***************************************************************************)
\* A storage detour that is armed has its pointer; OpenDetour is at work only
\* once it is armed, and so are its synthetic handles.
WildInv ==
  /\ \A op \in StorageOps : op \in armed => original[op] # "null"
  /\ file.kind = "synthetic" \/ opening # "done" => "open" \in armed

LEMMA ArmingFindsAllSet ==
  ASSUME CoreInv, NEW h \in Threads, DoArm(h), NEW d \in Present, Target[d] \in patched
  PROVE  original[d] # "null"
<1>0. ScriptInv /\ TurnInv /\ PointersInv
  BY DEF CoreInv, ChainInv
<1>1. Ready(h, "arm")
  BY DEF DoArm
<1>2. h \in {"client", "main"} /\ (h = "main" => device)
  BY <1>0, <1>1, OnlyLate
<1>3. script[h] # <<>> /\ stores[h] = <<>>
  BY <1>1 DEF Ready
<1>4. \A g \in Threads : stores[g] = <<>>
  BY <1>2, <1>3, StoresAlone
<1>5. ~Unset(d)
  BY <1>4 DEF Unset
<1> QED BY <1>0, <1>5 DEF PointersInv

LEMMA StorageIsPresent ==
  ASSUME CoreInv, NEW op \in StorageOps, op \in patched
  PROVE  op \in Detours /\ Target[op] = op /\ op \in Present
<1>1. op \in Detours /\ Target[op] = op /\ op \in Targets /\ \A e \in Detours : Target[e] = op => e = op
  BY RuntimeAssumption, HookAssumption
<1>2. HookTypeOK /\ links[op] # <<>>
  BY <1>1 DEF CoreInv, ChainInv, ChainsInv
<1>3. links[op] \in Seq(Detours)
  BY <1>1, <1>2, OneAddress
<1>4. links[op][1] \in Members(links[op])
  BY <1>2, <1>3, MembersFacts
<1>5. links[op][1] = op
  BY <1>1, <1>2, <1>4, OneAddress
<1> QED BY <1>1, <1>2, <1>4, <1>5, OneAddress

LEMMA HookKeepsWild ==
  ASSUME CoreInv, WildInv, [Next]_vars, ~Files
  PROVE  WildInv'
<1>0. /\ ScriptInv /\ HookTypeOK /\ PointersInv
      /\ armed \subseteq patched /\ original \in [Detours -> Detours \cup {"engine", "null"}]
      /\ stores \in [Threads -> Seq(Detours \X (Detours \cup {"engine"}))]
  BY DEF CoreInv, ChainInv, ChainsInv, HookTypeOK
<1>1. file' = file /\ opening' = opening
  BY DEF Next, Run, DoInstall, DoEnable, DoPatch, DoArm, DoStore, DoReserve, DoSpawn, DoWait, DoPublish, DoGet,
         DoRegister, Decline, EnterInit, LoadExtensions, EnterOther, Device, Proceed, Buffers, Streams, vars, filevars
<1>2. CASE UNCHANGED <<armed, original>>
  BY <1>1, <1>2 DEF WildInv
<1>3. ASSUME NEW h \in Threads, DoArm(h) PROVE WildInv'
  <2>1. /\ armed' = patched \/ armed' = armed
        /\ original' = original
    BY <1>3 DEF DoArm, Arm
  <2>2. ASSUME NEW op \in StorageOps, op \in armed' PROVE original'[op] # "null"
    <3>1. op \in patched
      BY <1>0, <2>1, <2>2
    <3>2. op \in Present /\ Target[op] = op
      BY <3>1, StorageIsPresent
    <3> QED BY <1>3, <2>1, <3>1, <3>2, ArmingFindsAllSet
  <2>3. armed \subseteq armed'
    BY <1>0, <2>1
  <2> QED BY <1>1, <2>2, <2>3 DEF WildInv
<1>4. ASSUME NEW h \in Threads, DoStore(h) PROVE WildInv'
  <2>1. /\ armed' = armed /\ stores[h] # <<>>
        /\ original' = [original EXCEPT ![Head(stores[h])[1]] = Head(stores[h])[2]]
    BY <1>4 DEF DoStore, Store
  <2>2. Head(stores[h]) \in Detours \X (Detours \cup {"engine"})
    <3>1. stores[h] \in Seq(Detours \X (Detours \cup {"engine"}))
      BY <1>0
    <3> QED BY <2>1, <3>1, PopFacts
  <2>3. Head(stores[h])[1] \in Detours /\ Head(stores[h])[2] # "null"
    BY <2>2, HookAssumption
  <2>4. \A op \in StorageOps : op \in armed' => original'[op] # "null"
    <3>1. StorageOps \subseteq Detours
      BY RuntimeAssumption
    <3> QED BY <1>0, <2>1, <2>3, <3>1 DEF WildInv
  <2> QED BY <1>1, <2>1, <2>4 DEF WildInv
<1>5. ASSUME NEW h \in Threads, Dropping(h) \/ Installing(h) \/ DoEnable(h) \/ DoPatch(h) \/ DoSpawn(h)
      PROVE  UNCHANGED <<armed, original>>
  BY <1>5 DEF Dropping, Installing, Install, DoEnable, DoPatch, Patch, DoSpawn, hookvars
<1>6. EnterInit \/ LoadExtensions \/ EnterOther \/ Device \/ Proceed \/ Quiet => UNCHANGED <<armed, original>>
  BY DEF EnterInit, LoadExtensions, EnterOther, Device, Proceed, Quiet, hookvars
<1> QED BY <1>0, <1>2, <1>3, <1>4, <1>5, <1>6, HookSteps

HalfArmed == armed \cap StorageOps \notin {{}, StorageOps}

LEMMA FilesKeepWild ==
  ASSUME CoreInv, WildInv, Files,
         file \in [kind : {"none", "native", "synthetic"}, size : Nat, pos : Int]
  PROVE  WildInv' /\ (wild' /\ ~wild => HalfArmed)
<1>0. FileStep /\ armed' = armed /\ original' = original
  BY DEF Files, hookvars
<1>s. StorageOps = {"open", "size", "read", "seek", "close"}
  BY DEF StorageOps
<1>1. ASSUME NEW op \in StorageOps, "open" \in armed, op \notin armed PROVE HalfArmed
  BY <1>s, <1>1 DEF HalfArmed
<1>2. ASSUME NEW op \in StorageOps, "open" \in armed, FallThrough(op), wild', ~wild PROVE HalfArmed
  BY <1>1, <1>2 DEF FallThrough, WildInv
<1>3. ASSUME NEW op \in StorageOps, Use(op), wild', ~wild PROVE HalfArmed
  BY <1>1, <1>3 DEF Use, Ours, WildInv
<1>4. CASE Open
  <2>1. CASE Ours("open")
    <3>1. "open" \in armed /\ (wild' /\ ~wild => FallThrough("open"))
      BY <1>4, <2>1 DEF Ours, Open, Provided
    <3> QED BY <1>0, <1>2, <1>s, <3>1 DEF WildInv
  <2>2. CASE ~Ours("open")
    <3>1. Opened("done") /\ UNCHANGED wild /\ opening = "done"
      BY <1>4, <2>2 DEF Open
    <3>2. opening' = "done" /\ (file'.kind = "synthetic" => file.kind = "synthetic")
      BY <3>1 DEF Opened, Native
    <3> QED BY <1>0, <3>1, <3>2 DEF WildInv
  <2> QED BY <2>1, <2>2
<1>5. CASE Sizing \/ Reading \/ Transform
  <2>1. opening # "done"
    BY <1>5 DEF Sizing, Reading, Transform
  <2>2. "open" \in armed
    BY <2>1 DEF WildInv
  <2>3. wild' /\ ~wild => \E op \in StorageOps : FallThrough(op)
    BY <1>5, <1>s DEF Sizing, Reading, Transform
  <2> QED BY <1>0, <1>2, <2>2, <2>3 DEF WildInv
<1>6. CASE Size \/ Read \/ Seek \/ Close
  <2>1. opening' = opening /\ (file' = file \/ file' = NoFile \/ \E n : file' = [file EXCEPT !.pos = n])
    BY <1>6 DEF Size, Read, Seek, Close
  <2>2. file'.kind = "synthetic" => file.kind = "synthetic"
    BY <2>1 DEF NoFile
  <2>3. wild' /\ ~wild => \E op \in StorageOps : Use(op)
    BY <1>6, <1>s DEF Size, Read, Seek, Close
  <2> QED BY <1>0, <1>3, <2>1, <2>2, <2>3 DEF WildInv
<1> QED BY <1>0, <1>4, <1>5, <1>6 DEF FileStep

LEMMA InitWild == Init => WildInv
BY DEF Init, HookInit, FileInit, NoFile, WildInv

\* OnlyHalfArmedIsWild, if MainThread waits for as long as it takes: native code
\* is given a synthetic handle only between the arming of the first and of the
\* last of the five storage detours (Storage.cpp).
THEOREM WildHandlesMeanHalfArmed ==
  ASSUME ~MayTimeOut PROVE Spec => OnlyHalfArmedIsWild
<1>1. CoreInv /\ WildInv /\ HandleInv /\ [Next]_vars => WildInv'
  BY HookKeepsWild, FilesKeepWild DEF HandleInv
<1>2. CoreInv /\ WildInv /\ HandleInv /\ [Next]_vars => [(wild' /\ ~wild) => armed \cap StorageOps \notin {{}, StorageOps}]_filevars
  <2> SUFFICES ASSUME CoreInv, WildInv, HandleInv, [Next]_vars, wild', ~wild PROVE HalfArmed
    BY DEF HalfArmed
  <2>1. Files \/ wild' = wild
    BY DEF Next, Run, DoInstall, DoEnable, DoPatch, DoArm, DoStore, DoReserve, DoSpawn, DoWait, DoPublish, DoGet,
           DoRegister, Decline, EnterInit, LoadExtensions, EnterOther, Device, Proceed, Buffers, Streams, vars, filevars
  <2> QED BY <2>1, FilesKeepWild DEF HandleInv
<1> QED BY <1>1, <1>2, InitWild, CoreInvariant, HandleInvariant, PTL DEF Spec, OnlyHalfArmedIsWild

(***************************************************************************)
(* The order of the chains and of the pointers                             *)
(***************************************************************************)
\* Where the i-th detour of a chain goes on.
Follower(s, i) == IF i = Len(s) THEN "engine" ELSE s[i + 1]

\* h has yet to store the pointers of the detours of t behind the n-th.
Pending(h, t, n) ==
  /\ n + Len(stores[h]) = IF t \in patched THEN Len(links[t]) ELSE Len(links[t]) - 1
  /\ \A a \in DOMAIN stores[h] : stores[h][a] = <<links[t][n + a], Follower(links[t], n + a)>>

\* Chains are in order, and pointers go forward.
SortedInv ==
  /\ \A t \in Targets : \A i, j \in DOMAIN links[t] : i < j => Before(links[t][i], links[t][j])
  /\ \A d \in Detours : original[d] \in Detours => Before(d, original[d])

\* In a chain that MinHook has, a pointer that is not the right one is about to
\* be stored.
PendingInv ==
  /\ \A h \in Threads : stores[h] # <<>> => \E t \in Targets : \E n \in Nat : Pending(h, t, n)
  /\ \A t \in patched : \A i \in DOMAIN links[t] :
       original[links[t][i]] = Follower(links[t], i) \/ Unset(links[t][i])

LEMMA BeforeOrder ==
  ASSUME HookTypeOK, NEW d \in Detours, NEW e \in Detours
  PROVE  /\ ~Before(d, d)
         /\ \A f \in Detours : Before(d, e) /\ Before(e, f) => Before(d, f)
<1>1. /\ Priority[d] \in Int /\ Priority[e] \in Int /\ rank[d] \in Int /\ rank[e] \in Int
      /\ \A f \in Detours : Priority[f] \in Int /\ rank[f] \in Int
  BY HookAssumption DEF HookTypeOK
<1> QED BY <1>1 DEF Before

LEMMA ChainOrder ==
  ASSUME HookTypeOK, SortedInv, NEW t \in Targets
  PROVE  /\ \A i, j \in DOMAIN links[t] : links[t][i] = links[t][j] => i = j
         /\ \A d, e \in Members(links[t]) : d = e \/ Before(d, e) \/ Before(e, d)
<1>1. /\ links[t] \in Seq(Detours) /\ DOMAIN links[t] = 1..Len(links[t]) /\ Len(links[t]) \in Nat
      /\ \A i \in DOMAIN links[t] : links[t][i] \in Detours
  BY DEF HookTypeOK
<1>2. ASSUME NEW i \in DOMAIN links[t], NEW j \in DOMAIN links[t]
      PROVE  i = j \/ Before(links[t][i], links[t][j]) \/ Before(links[t][j], links[t][i])
  <2>1. i < j \/ j < i \/ i = j
    BY <1>1
  <2> QED BY <2>1 DEF SortedInv
<1>3. ASSUME NEW i \in DOMAIN links[t], NEW j \in DOMAIN links[t], links[t][i] = links[t][j] PROVE i = j
  BY <1>1, <1>2, <1>3, BeforeOrder
<1> QED BY <1>2, <1>3 DEF Members

LEMMA InstallKeepsOrder ==
  ASSUME HookTypeOK, RankInv, PointersInv, SortedInv, NEW h \in Threads, NEW d \in Detours, d \notin Present, Install(h, d)
  PROVE  SortedInv' /\ \A x, y \in Present : Before(x, y)' <=> Before(x, y)
<1> DEFINE t == Target[d]
           s == links[t]
<1> DEFINE Then(x, y) == Priority[x] < Priority[y] \/ (Priority[x] = Priority[y] /\ rank'[x] < rank'[y])
<1>1. PICK p \in 0..Len(s) : InstalledAt(d, p)
  BY InstallFacts
<1>2. /\ t \in Targets /\ s \in Seq(Detours) /\ Len(s) \in Nat /\ p \in 0..Len(s)
      /\ p > 0 => Priority[s[p]] <= Priority[d]
      /\ \A i \in (p + 1)..Len(s) : Priority[s[i]] > Priority[d]
      /\ links' \in [Targets -> Seq(Detours)] /\ \A u \in Targets : u # t => links'[u] = links[u]
      /\ Len(links'[t]) = Len(s) + 1
      /\ \A i \in 1..p : links'[t][i] = s[i]
      /\ links'[t][p + 1] = d
      /\ \A i \in (p + 1)..Len(s) : links'[t][i + 1] = s[i]
  BY <1>1 DEF InstalledAt
<1>3. /\ rank' = [rank EXCEPT ![d] = installs + 1] /\ original' = original
      /\ rank \in [Detours -> Nat] /\ installs \in Nat
  BY DEF Install, HookTypeOK
<1>4. Present \subseteq Detours /\ \A x \in Detours : x # d => rank'[x] = rank[x]
  BY <1>3 DEF Present
<1>5. ASSUME NEW x \in Detours, NEW y \in Detours, x # d, y # d PROVE Then(x, y) <=> Before(x, y)
  BY <1>4, <1>5 DEF Before
<1>6. \A x \in Detours : rank[x] \in Nat /\ rank[x] <= installs /\ Priority[x] \in Int
  BY <1>3, HookAssumption DEF RankInv
<1>7. DOMAIN s = 1..Len(s) /\ DOMAIN links'[t] = 1..(Len(s) + 1)
  BY <1>2
<1>8. \A i \in 1..Len(s) : s[i] \in Detours /\ s[i] # d
  <2>1. \A i \in 1..Len(s) : s[i] \in Members(s)
    BY <1>2, MembersFacts
  <2> QED BY <1>2, <2>1, OneAddress
<1>9. \A i, j \in 1..Len(s) : i < j => Before(s[i], s[j])
  BY <1>2, <1>7 DEF SortedInv
<1>d. rank'[d] = installs + 1
  BY <1>3
<1> HIDE DEF s, t
<1>10. ASSUME NEW i \in 1..p PROVE Then(s[i], d)
  <2>1. Priority[s[i]] <= Priority[d]
    <3>1. p \in 1..Len(s) /\ i \in 1..Len(s) /\ p > 0
      BY <1>2
    <3>2. CASE i = p
      BY <1>2, <3>1, <3>2
    <3>3. CASE i # p
      <4>1. Before(s[i], s[p])
        <5>1. i < p
          BY <1>2, <3>3
        <5> QED BY <1>9, <3>1, <5>1
      <4>2. Priority[s[i]] <= Priority[s[p]]
        <5>1. Priority[s[i]] \in Int /\ Priority[s[p]] \in Int
          BY <1>6, <1>8, <3>1
        <5> QED BY <4>1, <5>1 DEF Before
      <4>3. Priority[s[i]] \in Int /\ Priority[s[p]] \in Int /\ Priority[d] \in Int
        BY <1>6, <1>8, <3>1
      <4> QED BY <1>2, <3>1, <4>2, <4>3
    <3> QED BY <3>2, <3>3
  <2>2. i \in 1..Len(s)
    BY <1>2
  <2>3. rank'[s[i]] < rank'[d]
    <3>1. rank'[s[i]] = rank[s[i]] /\ rank[s[i]] <= installs /\ rank[s[i]] \in Nat
      BY <1>4, <1>6, <1>8, <2>2
    <3> QED BY <1>3, <1>d, <3>1
  <2>4. Priority[s[i]] \in Int /\ Priority[d] \in Int
    BY <1>6, <1>8, <2>2
  <2>5. Priority[s[i]] < Priority[d] \/ Priority[s[i]] = Priority[d]
    BY <2>1, <2>4
  <2> QED BY <2>3, <2>5
<1>11. ASSUME NEW i \in (p + 1)..Len(s) PROVE Then(d, s[i])
  <2>1. i \in 1..Len(s)
    BY <1>2
  <2>2. Priority[s[i]] > Priority[d] /\ Priority[s[i]] \in Int /\ Priority[d] \in Int
    BY <1>2, <1>6, <1>8, <2>1
  <2>3. Priority[d] < Priority[s[i]]
    BY <2>2
  <2> QED BY <2>3
<1>12. ASSUME NEW i \in 1..Len(s), NEW j \in 1..Len(s), i < j PROVE Then(s[i], s[j])
  BY <1>5, <1>8, <1>9, <1>12
<1>13. ASSUME NEW i \in DOMAIN links'[t], NEW j \in DOMAIN links'[t], i < j
       PROVE  Then(links'[t][i], links'[t][j])
  <2>n. i \in 1..(Len(s) + 1) /\ j \in 1..(Len(s) + 1) /\ p \in Nat /\ Len(s) \in Nat /\ p <= Len(s)
    BY <1>2, <1>7
  <2>1. CASE j <= p
    <3>1. i \in 1..p /\ j \in 1..p /\ i \in 1..Len(s) /\ j \in 1..Len(s)
      BY <2>n, <2>1, <1>13
    <3> QED BY <1>2, <1>12, <1>13, <3>1
  <2>2. CASE j = p + 1
    <3>1. i \in 1..p
      BY <2>n, <2>2, <1>13
    <3> QED BY <1>2, <1>10, <2>2, <3>1
  <2>3. CASE j > p + 1
    <3>1. j - 1 \in (p + 1)..Len(s) /\ j - 1 \in 1..Len(s) /\ (j - 1) + 1 = j
      BY <2>n, <2>3
    <3>2. links'[t][j] = s[j - 1]
      BY <1>2, <3>1
    <3>3. CASE i <= p
      <4>1. i \in 1..p /\ i \in 1..Len(s) /\ i < j - 1
        BY <2>n, <2>3, <3>3
      <4>2. Then(s[i], s[j - 1])
        <5> HIDE DEF Then
        <5> QED BY <1>12, <3>1, <4>1
      <4> QED BY <1>2, <3>2, <4>1, <4>2
    <3>4. CASE i = p + 1
      BY <1>2, <1>11, <3>1, <3>2, <3>4
    <3>5. CASE i > p + 1
      <4>1. i - 1 \in (p + 1)..Len(s) /\ i - 1 \in 1..Len(s) /\ (i - 1) + 1 = i /\ i - 1 < j - 1
        BY <2>n, <3>5, <1>13
      <4>2. links'[t][i] = s[i - 1]
        BY <1>2, <4>1
      <4>3. Then(s[i - 1], s[j - 1])
        <5> HIDE DEF Then
        <5> QED BY <1>12, <3>1, <4>1
      <4> QED BY <3>2, <4>2, <4>3
    <3> QED BY <2>n, <3>3, <3>4, <3>5
  <2> QED BY <2>n, <2>1, <2>2, <2>3
<1>14. ASSUME NEW u \in Targets, u # t, NEW i \in DOMAIN links'[u], NEW j \in DOMAIN links'[u], i < j
       PROVE  Then(links'[u][i], links'[u][j])
  <2>1. links'[u] = links[u]
    BY <1>2, <1>14
  <2>2. Before(links[u][i], links[u][j])
    BY <1>14, <2>1 DEF SortedInv
  <2>3. links[u][i] \in Members(links[u]) /\ links[u][j] \in Members(links[u])
    BY <1>14, <2>1 DEF Members
  <2>4. \A e \in Members(links[u]) : e \in Detours /\ e # d
    BY <1>14, OneAddress
  <2> QED BY <1>5, <2>1, <2>2, <2>3, <2>4
<1>15. ASSUME NEW x \in Detours, original'[x] \in Detours PROVE Then(x, original'[x])
  <2>1. original'[x] = original[x] /\ original[x] \in Present /\ Before(x, original[x])
    BY <1>3, <1>15 DEF PointersInv, SortedInv
  <2>2. x \in Present
    BY <1>3, <1>15, HookAssumption DEF RankInv
  <2> QED BY <1>4, <1>5, <2>1, <2>2
<1>16. SortedInv'
  BY <1>7, <1>13, <1>14, <1>15 DEF SortedInv, Before
<1>17. \A x, y \in Present : Before(x, y)' <=> Before(x, y)
  BY <1>3, <1>4 DEF Before
<1> QED BY <1>16, <1>17

(***************************************************************************)
(* Who is skipped                                                          *)
(***************************************************************************)
\* A pointer that leads past a detour of the chain.
Skips(d, e) ==
  /\ original[d] \in Detours \cup {"engine"} /\ Target[d] = Target[e] /\ Before(d, e)
  /\ original[d] \in Detours => Before(e, original[d])

LEMMA FollowersSkipNobody ==
  ASSUME HookTypeOK, SortedInv, NEW t \in Targets, NEW i \in DOMAIN links[t], NEW e \in Members(links[t]),
         Before(links[t][i], e)
  PROVE  Follower(links[t], i) \in Detours /\ ~Before(e, Follower(links[t], i))
<1> DEFINE s == links[t]
<1>1. /\ s \in Seq(Detours) /\ DOMAIN s = 1..Len(s) /\ Len(s) \in Nat /\ i \in 1..Len(s)
      /\ \A k \in 1..Len(s) : s[k] \in Detours
      /\ \A k, j \in 1..Len(s) : k < j => Before(s[k], s[j])
  BY DEF HookTypeOK, SortedInv
<1>2. PICK j \in 1..Len(s) : e = s[j]
  BY <1>1, MembersFacts
<1> HIDE DEF s
<1>3. ASSUME NEW k \in 1..Len(s), NEW m \in 1..Len(s), Before(s[k], s[m]) PROVE k < m
  <2>1. ~Before(s[k], s[k]) /\ (Before(s[k], s[m]) /\ Before(s[m], s[k]) => Before(s[k], s[k]))
    BY <1>1, BeforeOrder
  <2>2. ~(m < k)
    BY <1>1, <1>3, <2>1
  <2>3. k # m
    BY <1>3, <2>1
  <2> QED BY <1>1, <2>2, <2>3
<1>4. i < j /\ i # Len(s) /\ i + 1 \in 1..Len(s)
  <2>1. i < j
    BY <1>1, <1>2, <1>3 DEF s
  <2> QED BY <1>1, <1>2, <2>1
<1>5. Follower(s, i) = s[i + 1] /\ s[i + 1] \in Detours
  BY <1>1, <1>4 DEF Follower
<1>6. ~Before(e, s[i + 1])
  <2>1. ASSUME Before(e, s[i + 1]) PROVE FALSE
    <3>1. j < i + 1
      BY <1>2, <1>3, <1>4, <2>1
    <3> QED BY <1>1, <1>2, <1>4, <3>1
  <2> QED BY <2>1
<1> QED BY <1>5, <1>6 DEF s

LEMMA LinkedAreReached ==
  ASSUME ChainsInv, PointersInv, RankInv, SortedInv, PendingInv,
         NEW t \in patched, NEW e \in Linked(t), NEW d \in Detours
  PROVE  ~Skips(d, e)
<1> SUFFICES ASSUME Skips(d, e) PROVE FALSE
  OBVIOUS
<1>0. HookTypeOK /\ t \in Targets /\ e \in Members(links[t]) /\ e \in Detours /\ Target[e] = t
  BY OneAddress DEF ChainsInv, HookTypeOK, Linked
<1>1. d \in Present /\ Target[d] = t /\ d \in Members(links[t])
  <2>1. original[d] # "null" /\ Target[d] = t
    BY <1>0, HookAssumption DEF Skips
  <2>2. d \in Present
    BY <2>1 DEF RankInv
  <2> QED BY <1>0, <2>1, <2>2, OneAddress
<1> DEFINE s == links[t]
<1>2. /\ s \in Seq(Detours) /\ DOMAIN s = 1..Len(s) /\ Len(s) \in Nat
      /\ \A k \in 1..Len(s) : s[k] \in Detours
      /\ \A k, j \in 1..Len(s) : k < j => Before(s[k], s[j])
      /\ \A k, j \in 1..Len(s) : s[k] = s[j] => k = j
  BY <1>0, ChainOrder DEF HookTypeOK, SortedInv
<1>3. PICK i \in 1..Len(s) : d = s[i]
  BY <1>1, <1>2, MembersFacts
<1>4. PICK j \in 1..Len(s) : e = s[j]
  BY <1>0, <1>2, MembersFacts
<1>5. original[s[i]] # Follower(s, i)
  <2>1. Before(s[i], e)
    BY <1>3 DEF Skips
  <2>2. Follower(s, i) \in Detours /\ ~Before(e, Follower(s, i))
    BY <1>0, <1>2, <2>1, FollowersSkipNobody
  <2> QED BY <1>3, <2>2 DEF Skips
<1>6. Unset(d)
  BY <1>2, <1>3, <1>5 DEF PendingInv
<1>7. PICK g \in Threads : \E a \in DOMAIN stores[g] : stores[g][a][1] = d
  BY <1>6 DEF Unset
<1>8. PICK a \in DOMAIN stores[g] : stores[g][a][1] = d
  BY <1>7
<1>9. stores[g] \in Seq(Detours \X (Detours \cup {"engine"})) /\ DOMAIN stores[g] = 1..Len(stores[g])
      /\ Len(stores[g]) \in Nat /\ stores[g] # <<>>
  BY <1>0, <1>8 DEF HookTypeOK
<1>10. PICK u \in Targets, n \in Nat : Pending(g, u, n)
  BY <1>9 DEF PendingInv
<1>11. /\ n + Len(stores[g]) = IF u \in patched THEN Len(links[u]) ELSE Len(links[u]) - 1
       /\ \A b \in DOMAIN stores[g] : stores[g][b] = <<links[u][n + b], Follower(links[u], n + b)>>
  BY <1>10 DEF Pending
<1>12. d = links[u][n + a]
  BY <1>8, <1>11
<1>13. u = t
  <2>1. links[u] \in Seq(Detours) /\ Len(links[u]) \in Nat
    BY <1>0 DEF HookTypeOK
  <2>2. n + a \in 1..Len(links[u])
    BY <1>8, <1>9, <1>11, <2>1
  <2>3. d \in Members(links[u])
    BY <1>12, <2>1, <2>2, MembersFacts
  <2> QED BY <1>0, <1>1, <2>3, OneAddress
<1>14. i < j
  <2>1. ~Before(d, d) /\ (Before(d, e) /\ Before(e, d) => Before(d, d)) /\ Before(d, e)
    BY <1>0, BeforeOrder DEF Skips
  <2>2. ~(j < i) /\ i # j
    BY <1>2, <1>3, <1>4, <2>1
  <2> QED BY <1>2, <2>2
<1>15. i = n + a
  <2>1. n + a \in 1..Len(s)
    BY <1>2, <1>8, <1>9, <1>11, <1>13
  <2> QED BY <1>2, <1>3, <1>12, <1>13, <2>1
<1>16. (j - 1) - n \in DOMAIN stores[g] /\ n + ((j - 1) - n) = j - 1 /\ j - 1 # Len(s) /\ (j - 1) + 1 = j
  BY <1>2, <1>8, <1>9, <1>11, <1>13, <1>14, <1>15
<1>17. stores[g][(j - 1) - n][2] = e
  <2>1. stores[g][(j - 1) - n] = <<links[u][n + ((j - 1) - n)], Follower(links[u], n + ((j - 1) - n))>>
    BY <1>11, <1>16
  <2>2. stores[g][(j - 1) - n] = <<s[j - 1], Follower(s, j - 1)>>
    BY <1>13, <1>16, <2>1
  <2>3. Follower(s, j - 1) = s[j]
    BY <1>16 DEF Follower
  <2> QED BY <1>4, <2>2, <2>3
<1> QED BY <1>16, <1>17 DEF Linked

(***************************************************************************)
(* What the steps of a script do to pending stores                         *)
(***************************************************************************)
LEMMA RelinkIsPending ==
  ASSUME NEW s \in Seq(Detours), s # <<>>, NEW t, NEW live
  PROVE  LET r == Relink(s, t \in live)
         IN /\ Len(r) = IF t \in live THEN Len(s) ELSE Len(s) - 1
            /\ \A a \in DOMAIN r : r[a] = <<s[0 + a], Follower(s, 0 + a)>>
            /\ r \in Seq(Detours \X (Detours \cup {"engine"}))
            /\ \A a \in DOMAIN r : 0 + a = a
<1> DEFINE r == Relink(s, t \in live)
<1>1. /\ r \in Seq(Detours \X (Detours \cup {"engine"})) /\ Len(s) \in Nat
      /\ Len(r) = IF t \in live THEN Len(s) ELSE Len(s) - 1
      /\ \A i \in DOMAIN r : /\ i \in 1..Len(s)
                             /\ r[i] = <<s[i], IF i = Len(s) THEN "engine" ELSE s[i + 1]>>
  BY RelinkFacts
<1> HIDE DEF r
<1>2. ASSUME NEW a \in DOMAIN r PROVE r[a] = <<s[0 + a], Follower(s, 0 + a)>> /\ 0 + a = a
  <2>1. a \in 1..Len(s) /\ 0 + a = a
    BY <1>1
  <2> QED BY <1>1, <2>1 DEF Follower
<1> QED BY <1>1, <1>2 DEF r

LEMMA InstallKeepsPending ==
  ASSUME ChainsInv, PointersInv, PendingInv, NEW h \in Threads, NEW d \in Detours, stores[h] = <<>>, Install(h, d),
         \A g \in Threads : g # h => stores[g] = <<>> \/ links[Target[d]] = <<>>
  PROVE  PendingInv'
<1> DEFINE t == Target[d]
           r == Relink(links'[t], t \in patched)
<1>0. HookTypeOK
  BY DEF ChainsInv
<1>1. /\ links' \in [Targets -> Seq(Detours)] /\ t \in Targets /\ links'[t] # <<>>
      /\ \A u \in Targets : u # t => links'[u] = links[u]
  BY <1>0, InstallMembers
<1>2. /\ stores' = [stores EXCEPT ![h] = r] /\ UNCHANGED <<patched, original>>
  <2>1. links' = [links EXCEPT ![t] = links'[t]]
    BY <1>0 DEF Install, HookTypeOK
  <2> QED BY <1>0, <1>1 DEF Install, HookTypeOK
<1>3. /\ Len(r) = IF t \in patched THEN Len(links'[t]) ELSE Len(links'[t]) - 1
      /\ \A a \in DOMAIN r : r[a] = <<links'[t][0 + a], Follower(links'[t], 0 + a)>>
      /\ r \in Seq(Detours \X (Detours \cup {"engine"})) /\ Len(r) \in Nat
      /\ t \in patched => \A e \in Members(links'[t]) : \E i \in DOMAIN r : r[i][1] = e
  <2>1. links'[t] \in Seq(Detours) /\ links'[t] # <<>>
    BY <1>1
  <2>2. /\ Len(r) = IF t \in patched THEN Len(links'[t]) ELSE Len(links'[t]) - 1
        /\ \A a \in DOMAIN r : r[a] = <<links'[t][0 + a], Follower(links'[t], 0 + a)>>
        /\ r \in Seq(Detours \X (Detours \cup {"engine"}))
    <3> DEFINE w == links'[t]
               q == Relink(w, t \in patched)
    <3>1. w \in Seq(Detours) /\ w # <<>>
      BY <2>1
    <3> HIDE DEF w
    <3>2. \A a \in DOMAIN q : q[a] = <<w[0 + a], Follower(w, 0 + a)>>
      BY <3>1, RelinkIsPending
    <3>3. Len(q) = IF t \in patched THEN Len(w) ELSE Len(w) - 1
      BY <3>1, RelinkIsPending
    <3>4. q \in Seq(Detours \X (Detours \cup {"engine"}))
      BY <3>1, RelinkIsPending
    <3> QED BY <3>2, <3>3, <3>4 DEF w
  <2>4. ASSUME t \in patched, NEW e \in Members(links'[t]) PROVE \E i \in DOMAIN r : r[i][1] = e
    <3>1. r = Relink(links'[t], TRUE)
      BY <2>4 DEF Relink
    <3> HIDE DEF r
    <3>2. \E i \in DOMAIN Relink(links'[t], TRUE) : Relink(links'[t], TRUE)[i][1] = e
      BY <2>1, RelinkCovers
    <3> QED BY <3>1, <3>2
  <2>5. Len(r) \in Nat
    <3> HIDE DEF r
    <3> QED BY <2>2
  <2> HIDE DEF r
  <2> QED BY <2>2, <2>4, <2>5
<1> HIDE DEF r
<1>4. stores'[h] = r /\ \A g \in Threads : g # h => stores'[g] = stores[g]
  BY <1>0, <1>2 DEF HookTypeOK
<1>5. ASSUME NEW g \in Threads, stores'[g] # <<>> PROVE \E u \in Targets : \E n \in Nat : Pending(g, u, n)'
  <2>1. CASE g = h
    <3>1. 0 + Len(stores'[g]) = IF t \in patched' THEN Len(links'[t]) ELSE Len(links'[t]) - 1
      BY <1>2, <1>3, <1>4, <2>1
    <3>2. \A a \in DOMAIN stores'[g] : stores'[g][a] = <<links'[t][0 + a], Follower(links'[t], 0 + a)>>
      BY <1>3, <1>4, <2>1
    <3>3. Pending(g, t, 0)'
      BY <3>1, <3>2 DEF Pending, Follower
    <3> QED BY <1>1, <3>3
  <2>2. CASE g # h
    <3>1. stores[g] # <<>> /\ stores'[g] = stores[g] /\ links[t] = <<>>
      BY <1>4, <1>5, <2>2
    <3>2. PICK u \in Targets, n \in Nat : Pending(g, u, n)
      BY <3>1 DEF PendingInv
    <3>3. stores[g] \in Seq(Detours \X (Detours \cup {"engine"}))
      BY <1>0 DEF HookTypeOK
    <3>4. Len(stores[g]) \in Nat /\ Len(stores[g]) > 0
      BY <3>1, <3>3, PopFacts
    <3>5. u # t
      <4>1. ASSUME u = t PROVE FALSE
        <5>1. Len(links[u]) = 0
          BY <3>1, <4>1
        <5>2. n + Len(stores[g]) = IF u \in patched THEN Len(links[u]) ELSE Len(links[u]) - 1
          BY <3>2 DEF Pending
        <5> QED BY <3>4, <5>1, <5>2
      <4> QED BY <4>1
    <3>6. links'[u] = links[u] /\ patched' = patched
      BY <1>1, <1>2, <3>5
    <3>7. Pending(g, u, n)'
      BY <3>1, <3>2, <3>6 DEF Pending, Follower
    <3> QED BY <3>7
  <2> QED BY <2>1, <2>2
<1> DEFINE To(e) == \E g \in Threads : \E k \in DOMAIN stores'[g] : stores'[g][k][1] = e
<1>6. ASSUME NEW u \in patched', NEW i \in DOMAIN links'[u]
      PROVE  original'[links'[u][i]] = Follower(links'[u], i) \/ To(links'[u][i])
  <2>0. u \in Targets /\ patched' = patched
    BY <1>0, <1>2 DEF HookTypeOK
  <2>1. CASE u = t
    <3>1. links'[u][i] \in Members(links'[t])
      BY <2>1 DEF Members
    <3>2. \E k \in DOMAIN stores'[h] : stores'[h][k][1] = links'[u][i]
      BY <1>3, <1>4, <2>0, <2>1, <3>1
    <3> QED BY <3>2
  <2>2. CASE u # t
    <3>1. links'[u] = links[u] /\ original' = original
      BY <1>1, <1>2, <2>0, <2>2
    <3>2. original[links[u][i]] = Follower(links[u], i) \/ Unset(links[u][i])
      BY <2>0, <3>1 DEF PendingInv
    <3>3. ASSUME Unset(links[u][i]) PROVE To(links'[u][i])
      <4>1. PICK g \in Threads : \E k \in DOMAIN stores[g] : stores[g][k][1] = links[u][i]
        BY <3>3 DEF Unset
      <4>2. g # h
        BY <4>1
      <4>3. stores'[g] = stores[g]
        BY <1>4, <4>2
      <4> QED BY <3>1, <4>1, <4>3
    <3> QED BY <3>1, <3>2, <3>3
  <2> QED BY <2>1, <2>2
<1> QED BY <1>5, <1>6 DEF PendingInv, Follower, Unset

LEMMA PatchKeepsPending ==
  ASSUME ChainsInv, PointersInv, PendingInv, NEW h \in Threads, NEW t \in Members(chains), Patch(h, t),
         \A g \in Threads : stores[g] = <<>>
  PROVE  PendingInv'
<1>0. HookTypeOK /\ t \in Targets /\ links[t] # <<>> /\ links[t] \in Seq(Detours)
  BY MembersFacts DEF ChainsInv, HookTypeOK
<1>1. CASE UNCHANGED <<links, patched, original, stores>>
  BY <1>1 DEF PendingInv, Pending, Unset, Follower
<1>2. CASE /\ patched' = patched \cup {t}
           /\ stores' = [stores EXCEPT ![h] = Relink(links[t], TRUE)]
           /\ UNCHANGED <<links, original>>
  <2> DEFINE r == Relink(links[t], TRUE)
             q == Relink(links[t], t \in {t})
  <2>1. r = q
    BY DEF Relink
  <2>2. /\ \A a \in DOMAIN r : r[a] = <<links[t][0 + a], Follower(links[t], 0 + a)>>
        /\ Len(r) = Len(links[t]) /\ r \in Seq(Detours \X (Detours \cup {"engine"}))
        /\ \A e \in Members(links[t]) : \E i \in DOMAIN r : r[i][1] = e
    <3>1. \A e \in Members(links[t]) : \E i \in DOMAIN r : r[i][1] = e
      BY <1>0, RelinkCovers
    <3> HIDE DEF r
    <3>2. \A a \in DOMAIN q : q[a] = <<links[t][0 + a], Follower(links[t], 0 + a)>>
      BY <1>0, RelinkIsPending
    <3>3. Len(q) = IF t \in {t} THEN Len(links[t]) ELSE Len(links[t]) - 1
      BY <1>0, RelinkIsPending
    <3>4. q \in Seq(Detours \X (Detours \cup {"engine"}))
      BY <1>0, RelinkIsPending
    <3> HIDE DEF q
    <3> QED BY <2>1, <3>1, <3>2, <3>3, <3>4
  <2>3. stores' = [stores EXCEPT ![h] = r]
    BY <1>2
  <2> HIDE DEF r, q
  <2>4. stores'[h] = r /\ \A g \in Threads : g # h => stores'[g] = <<>>
    BY <1>0, <2>3 DEF HookTypeOK
  <2>5. Pending(h, t, 0)'
    <3>1. Len(r) \in Nat /\ t \in patched'
      BY <1>2, <2>2
    <3>2. 0 + Len(stores'[h]) = IF t \in patched' THEN Len(links'[t]) ELSE Len(links'[t]) - 1
      <4>1. Len(stores'[h]) = Len(links[t]) /\ 0 + Len(r) = Len(r) /\ stores'[h] = r
        BY <2>2, <2>4, <3>1
      <4> QED BY <1>2, <3>1, <4>1
    <3>3. \A a \in DOMAIN stores'[h] : stores'[h][a] = <<links'[t][0 + a], Follower(links'[t], 0 + a)>>
      BY <1>2, <2>2, <2>4
    <3> QED BY <3>2, <3>3 DEF Pending, Follower
  <2> DEFINE To(e) == \E g \in Threads : \E k \in DOMAIN stores'[g] : stores'[g][k][1] = e
  <2>6. ASSUME NEW u \in patched', NEW i \in DOMAIN links'[u]
        PROVE  original'[links'[u][i]] = Follower(links'[u], i) \/ To(links'[u][i])
    <3>1. CASE u = t
      <4>1. links'[u][i] \in Members(links[t])
        BY <1>2, <3>1 DEF Members
      <4>2. \E k \in DOMAIN stores'[h] : stores'[h][k][1] = links'[u][i]
        BY <2>2, <2>4, <4>1
      <4> QED BY <4>2
    <3>2. CASE u # t
      <4>1. original[links[u][i]] = Follower(links[u], i) \/ Unset(links[u][i])
        BY <1>2, <3>2 DEF PendingInv
      <4>2. ~Unset(links[u][i])
        BY DEF Unset
      <4> QED BY <1>2, <4>1, <4>2
    <3> QED BY <3>1, <3>2
  <2>7. \A g \in Threads : stores'[g] # <<>> => \E u \in Targets : \E n \in Nat : Pending(g, u, n)'
    BY <1>0, <2>4, <2>5
  <2> QED BY <2>6, <2>7 DEF PendingInv, Follower, Unset
<1> QED BY <1>1, <1>2 DEF Patch, hookvars

\* The pointer stored is the right one.
LEMMA StoreKeepsOrder ==
  ASSUME ChainsInv, PointersInv, SortedInv, PendingInv, NEW h \in Threads, Store(h)
  PROVE  SortedInv' /\ PendingInv'
         /\ \A d \in Detours : \/ original'[d] = original[d]
                               \/ \E t \in Targets : \E i \in DOMAIN links[t] :
                                    d = links[t][i] /\ original'[d] = Follower(links[t], i)
<1> DEFINE q == stores[h]
<1>0. HookTypeOK
  BY DEF ChainsInv
<1>1. /\ q \in Seq(Detours \X (Detours \cup {"engine"})) /\ q # <<>>
      /\ UNCHANGED <<links, patched, rank>>
  BY <1>0 DEF Store, HookTypeOK
<1>2. /\ Tail(q) \in Seq(Detours \X (Detours \cup {"engine"})) /\ Len(q) \in Nat /\ Len(q) > 0
      /\ Len(Tail(q)) = Len(q) - 1 /\ Head(q) = q[1] /\ DOMAIN q = 1..Len(q) /\ DOMAIN Tail(q) = 1..(Len(q) - 1)
      /\ \A i \in 1..(Len(q) - 1) : Tail(q)[i] = q[i + 1]
  BY <1>1, PopFacts
<1>3. PICK t \in Targets, n \in Nat : Pending(h, t, n)
  BY <1>1 DEF PendingInv
<1> DEFINE s == links[t]
<1>4. /\ n + Len(q) = IF t \in patched THEN Len(s) ELSE Len(s) - 1
      /\ \A a \in DOMAIN q : q[a] = <<s[n + a], Follower(s, n + a)>>
  BY <1>3 DEF Pending
<1>5. /\ s \in Seq(Detours) /\ DOMAIN s = 1..Len(s) /\ Len(s) \in Nat /\ n + 1 \in 1..Len(s)
      /\ \A k \in 1..Len(s) : s[k] \in Detours
      /\ \A k, j \in 1..Len(s) : k < j => Before(s[k], s[j])
      /\ \A k, j \in 1..Len(s) : s[k] = s[j] => k = j
  <2>1. s \in Seq(Detours) /\ DOMAIN s = 1..Len(s) /\ Len(s) \in Nat
    BY <1>0 DEF HookTypeOK
  <2>2. n + 1 \in 1..Len(s)
    BY <1>2, <1>4, <2>1
  <2> QED BY <1>0, <2>1, <2>2, ChainOrder DEF SortedInv
<1>6. original' = [original EXCEPT ![s[n + 1]] = Follower(s, n + 1)] /\ stores' = [stores EXCEPT ![h] = Tail(q)]
  <2>1. q[1] = <<s[n + 1], Follower(s, n + 1)>>
    BY <1>2, <1>4
  <2>2. Head(stores[h])[1] = s[n + 1] /\ Head(stores[h])[2] = Follower(s, n + 1)
    BY <1>2, <2>1
  <2> QED BY <2>2 DEF Store
<1>n. n \in Nat /\ n + 1 \in 1..Len(s) /\ Len(s) \in Nat /\ Len(q) \in Nat /\ Len(q) > 0
  BY <1>2, <1>5
<1> HIDE DEF q, s
<1>7. /\ stores'[h] = Tail(q) /\ \A g \in Threads : g # h => stores'[g] = stores[g]
      /\ original'[s[n + 1]] = Follower(s, n + 1) /\ \A d \in Detours : d # s[n + 1] => original'[d] = original[d]
  BY <1>0, <1>5, <1>6 DEF HookTypeOK
<1>8. SortedInv'
  <2>1. ASSUME NEW d \in Detours, original'[d] \in Detours PROVE Before(d, original'[d])
    <3>1. CASE d # s[n + 1]
      BY <1>7, <2>1, <3>1 DEF SortedInv
    <3>2. CASE d = s[n + 1]
      <4>1. n + 1 # Len(s) /\ original'[d] = s[n + 1 + 1]
        BY <1>7, <2>1, <3>2, HookAssumption DEF Follower
      <4>2. n + 1 + 1 \in 1..Len(s) /\ n + 1 < n + 1 + 1
        BY <1>n, <4>1
      <4>3. Before(s[n + 1], s[n + 1 + 1])
        BY <1>5, <4>2
      <4> QED BY <3>2, <4>1, <4>3
    <3> QED BY <3>1, <3>2
  <2>2. \A d, e : Before(d, e)' <=> Before(d, e)
    BY <1>1 DEF Before
  <2>3. ASSUME NEW u \in Targets, NEW i \in DOMAIN links[u], NEW j \in DOMAIN links[u], i < j
        PROVE  Before(links[u][i], links[u][j])
    BY <2>3 DEF SortedInv
  <2> QED BY <1>1, <2>1, <2>3 DEF SortedInv, Before
<1>9. ASSUME NEW g \in Threads, stores'[g] # <<>> PROVE \E u \in Targets : \E m \in Nat : Pending(g, u, m)'
  <2>1. CASE g = h
    <3>1. (n + 1) + Len(stores'[h]) = IF t \in patched' THEN Len(links'[t]) ELSE Len(links'[t]) - 1
      <4>1. Len(stores'[h]) = Len(q) - 1 /\ links'[t] = s /\ patched' = patched
        BY <1>1, <1>2, <1>7 DEF s
      <4>2. n + Len(q) = IF t \in patched THEN Len(s) ELSE Len(s) - 1
        BY <1>4 DEF q, s
      <4>3. (n + 1) + (Len(q) - 1) = n + Len(q)
        BY <1>n
      <4> QED BY <4>1, <4>2, <4>3
    <3>2. ASSUME NEW a \in DOMAIN stores'[h]
          PROVE  stores'[h][a] = <<links'[t][(n + 1) + a], Follower(links'[t], (n + 1) + a)>>
      <4>1. a \in 1..(Len(q) - 1) /\ a + 1 \in 1..Len(q) /\ n + (a + 1) = (n + 1) + a
        <5>1. a \in 1..(Len(q) - 1)
          BY <1>2, <1>7, <3>2
        <5> QED BY <1>n, <5>1
      <4>2. stores'[h][a] = q[a + 1]
        BY <1>2, <1>7, <4>1
      <4>3. q[a + 1] = <<s[n + (a + 1)], Follower(s, n + (a + 1))>>
        BY <1>2, <1>4, <4>1 DEF q, s
      <4> QED BY <1>1, <4>1, <4>2, <4>3 DEF s
    <3>3. Pending(h, t, n + 1)'
      BY <3>1, <3>2 DEF Pending, Follower
    <3>4. n + 1 \in Nat
      OBVIOUS
    <3> QED BY <2>1, <3>3, <3>4
  <2>2. CASE g # h
    <3>1. stores'[g] = stores[g]
      BY <1>7, <2>2
    <3>2. PICK u \in Targets, m \in Nat : Pending(g, u, m)
      BY <1>9, <3>1 DEF PendingInv
    <3>3. Pending(g, u, m)'
      BY <1>1, <3>1, <3>2 DEF Pending, Follower
    <3> QED BY <3>3
  <2> QED BY <2>1, <2>2
<1> DEFINE To(e) == \E g \in Threads : \E k \in DOMAIN stores'[g] : stores'[g][k][1] = e
<1>10. ASSUME NEW u \in patched, NEW i \in DOMAIN links[u]
       PROVE  original'[links[u][i]] = Follower(links[u], i) \/ To(links[u][i])
  <2>0. u \in Targets /\ links[u][i] \in Detours /\ links[u] \in Seq(Detours)
    BY <1>0 DEF HookTypeOK
  <2>1. CASE links[u][i] = s[n + 1]
    <3>1. links[u][i] \in Members(links[u]) /\ s[n + 1] \in Members(links[t])
      <4>1. s[n + 1] \in Members(s)
        BY <1>5, MembersFacts
      <4> QED BY <4>1 DEF Members, s
    <3>2. u = t
      BY <1>0, <2>0, <2>1, <3>1, OneAddress
    <3>3. i = n + 1
      BY <1>5, <2>1, <3>2 DEF s
    <3> QED BY <1>7, <3>2, <3>3 DEF s
  <2>2. CASE links[u][i] # s[n + 1]
    <3>1. original'[links[u][i]] = original[links[u][i]]
      BY <1>7, <2>0, <2>2
    <3>2. CASE original[links[u][i]] = Follower(links[u], i)
      BY <3>1, <3>2
    <3>3. CASE Unset(links[u][i])
      <4>1. PICK g \in Threads : \E k \in DOMAIN stores[g] : stores[g][k][1] = links[u][i]
        BY <3>3 DEF Unset
      <4>2. CASE g # h
        BY <1>7, <4>1, <4>2
      <4>3. CASE g = h
        <5>1. PICK k \in 1..Len(q) : q[k][1] = links[u][i]
          BY <1>2, <4>1, <4>3 DEF q
        <5>2. q[1][1] = s[n + 1]
          BY <1>2, <1>4 DEF q, s
        <5>3. k - 1 \in 1..(Len(q) - 1) /\ (k - 1) + 1 = k
          BY <1>2, <2>2, <5>1, <5>2
        <5>4. Tail(q)[k - 1] = q[k]
          BY <1>2, <5>3
        <5>5. k - 1 \in DOMAIN stores'[h] /\ stores'[h][k - 1] = q[k]
          BY <1>2, <1>7, <5>3, <5>4
        <5> QED BY <5>1, <5>5
      <4> QED BY <4>2, <4>3
    <3> QED BY <3>2, <3>3 DEF PendingInv
  <2> QED BY <2>1, <2>2
<1>11. PendingInv'
  BY <1>1, <1>9, <1>10 DEF PendingInv, Follower, Unset
<1>12. \A d \in Detours : \/ original'[d] = original[d]
                          \/ \E u \in Targets : \E i \in DOMAIN links[u] :
                               d = links[u][i] /\ original'[d] = Follower(links[u], i)
  <2>1. n + 1 \in DOMAIN links[t] /\ links[t] = s
    BY <1>5 DEF s
  <2>2. ASSUME NEW d \in Detours, d = s[n + 1]
        PROVE  \E u \in Targets : \E i \in DOMAIN links[u] :
                               d = links[u][i] /\ original'[d] = Follower(links[u], i)
    BY <1>7, <2>1, <2>2
  <2> QED BY <1>7, <2>2
<1> QED BY <1>8, <1>11, <1>12

OrderInv == SortedInv /\ PendingInv

\* Whoever installs has the chain to itself.
LEMMA OwnChain ==
  ASSUME CoreInv, NEW h \in Threads, Installing(h)
  PROVE  /\ script[h][1].x \in Detours \ Present
         /\ \A g \in Threads : g # h => stores[g] = <<>> \/ links[Target[script[h][1].x]] = <<>>
<1> DEFINE d == script[h][1].x
<1>0. ScriptInv /\ HookTypeOK /\ ChainsInv /\ PlanInv /\ RankInv /\ TurnInv /\ script[h] \in Seq(Ops)
  BY DEF CoreInv, ChainInv, ChainsInv, ScriptInv
<1>1. d \in Detours \ Present /\ h \in {"client", "main"}
  BY <1>0, InstallKeepsPlans
<1>2. /\ Alive /\ stores[h] = <<>> /\ script[h] # <<>> /\ script[h][1].op = "install" /\ Install(h, d)
  BY DEF Installing
<1>3. CASE h = "client" \/ device
  BY <1>1, <1>2, <1>3, StoresAlone
<1>4. CASE h = "main" /\ ~device
  <2>1. Head(script[h]) = script[h][1]
    BY <1>0, <1>2, PopFacts
  <2>2. Ready(h, "install") /\ Arg(h) = d
    BY <1>2, <2>1 DEF Ready, Arg
  <2>3. Early(script["main"])
    BY <1>0, <1>4 DEF TurnInv
  <2>4. d \in StorageOps
    BY <1>0, <1>4, <2>2, <2>3, MainIsEarly
  <2>5. Target[d] = d /\ links[d] = <<>>
    BY <1>0, <1>1, <1>2, <2>4, StorageChain
  <2> QED BY <1>1, <2>5
<1> QED BY <1>1, <1>3, <1>4

LEMMA OrderStep ==
  ASSUME CoreInv, OrderInv, [Next]_vars
  PROVE  OrderInv' /\ \A x, y \in Present : Before(x, y)' <=> Before(x, y)
<1>0. ScriptInv /\ HookTypeOK /\ ChainsInv /\ PointersInv /\ RankInv /\ TurnInv /\ SortedInv /\ PendingInv
  BY DEF CoreInv, ChainInv, ChainsInv, OrderInv
<1>1. CASE UNCHANGED <<links, patched, original, stores, rank>>
  BY <1>0, <1>1 DEF OrderInv, SortedInv, PendingInv, Pending, Follower, Unset, Before
<1>s. ASSUME UNCHANGED <<links, original, rank>>
      PROVE  SortedInv' /\ \A x, y \in Present : Before(x, y)' <=> Before(x, y)
  BY <1>0, <1>s DEF SortedInv, Before
<1>2. ASSUME NEW h \in Threads, Installing(h)
      PROVE  OrderInv' /\ \A x, y \in Present : Before(x, y)' <=> Before(x, y)
  <2> DEFINE d == script[h][1].x
  <2>1. d \in Detours \ Present /\ \A g \in Threads : g # h => stores[g] = <<>> \/ links[Target[d]] = <<>>
    BY <1>2, OwnChain
  <2>2. stores[h] = <<>> /\ Install(h, d)
    BY <1>2 DEF Installing
  <2> HIDE DEF d
  <2>3. SortedInv' /\ \A x, y \in Present : Before(x, y)' <=> Before(x, y)
    BY <1>0, <2>1, <2>2, InstallKeepsOrder
  <2>4. PendingInv'
    BY <1>0, <2>1, <2>2, InstallKeepsPending
  <2> QED BY <2>3, <2>4 DEF OrderInv
<1>3. ASSUME NEW h \in Threads, DoPatch(h)
      PROVE  OrderInv' /\ \A x, y \in Present : Before(x, y)' <=> Before(x, y)
  <2>1. Ready(h, "patch") /\ Patch(h, Arg(h)) /\ UNCHANGED <<links, original, rank>>
    BY <1>3 DEF DoPatch, Patch, hookvars
  <2>2. h \in {"client", "main"} /\ (h = "main" => device) /\ script[h] # <<>> /\ stores[h] = <<>>
    BY <1>0, <2>1, OnlyLate DEF Ready
  <2>3. \A g \in Threads : stores[g] = <<>>
    BY <2>2, StoresAlone
  <2>4. Arg(h) \in Members(chains)
    <3>1. script[h] \in Seq(Ops) /\ Head(script[h]).op = "patch"
      BY <1>0, <2>1 DEF ScriptInv, Ready
    <3>2. Head(script[h]) = script[h][1] /\ 1 \in DOMAIN script[h]
      BY <2>2, <3>1, PopFacts
    <3> QED BY <1>0, <3>1, <3>2 DEF ScriptInv, Arg
  <2>5. PendingInv'
    BY <1>0, <2>1, <2>3, <2>4, PatchKeepsPending
  <2> QED BY <1>s, <2>1, <2>5 DEF OrderInv
<1>4. ASSUME NEW h \in Threads, DoStore(h)
      PROVE  OrderInv' /\ \A x, y \in Present : Before(x, y)' <=> Before(x, y)
  <2>1. Store(h) /\ rank' = rank
    BY <1>4 DEF DoStore, Store
  <2>2. SortedInv' /\ PendingInv'
    BY <1>0, <2>1, StoreKeepsOrder
  <2> QED BY <2>1, <2>2 DEF OrderInv, Before
<1>5. ASSUME NEW h \in Threads, Dropping(h) \/ DoEnable(h) \/ DoArm(h) \/ DoSpawn(h)
      PROVE  UNCHANGED <<links, patched, original, stores, rank>>
  BY <1>5 DEF Dropping, DoEnable, DoArm, Arm, DoSpawn, hookvars
<1>6. EnterInit \/ LoadExtensions \/ EnterOther \/ Device \/ Proceed \/ Quiet
        => UNCHANGED <<links, patched, original, stores, rank>>
  BY DEF EnterInit, LoadExtensions, EnterOther, Device, Proceed, Quiet, hookvars
<1> QED BY <1>0, <1>1, <1>2, <1>3, <1>4, <1>5, <1>6, HookSteps

\* The client's call: what it met, in order, and what it is due to meet, which
\* no pointer leads past.
Walks(target, at, seen, due) ==
  /\ \A e \in due : e \in Present /\ Target[e] = target /\ \A d \in Detours : ~Skips(d, e)
  /\ \A i \in DOMAIN seen : seen[i] \in Present
  /\ \A i, j \in DOMAIN seen : i < j => Before(seen[i], seen[j])
  /\ at \in Detours =>
       /\ \A i \in DOMAIN seen : Before(seen[i], at)
       /\ \A e \in due : e \in Members(seen) \/ e = at \/ Before(at, e)
  /\ at = "engine" => due \subseteq Members(seen)

WalkInv ==
  Walks(calls["client"].target, calls["client"].at, calls["client"].seen, calls["client"].due)

\* A pointer that is stored or left as it is leads past nobody it did not lead
\* past before.
LEMMA SkipsStay ==
  ASSUME CoreInv, OrderInv, [Next]_vars, NEW e \in Present, NEW d \in Detours, ~Skips(d, e)
  PROVE  ~Skips(d, e)'
<1>0. ScriptInv /\ HookTypeOK /\ ChainsInv /\ PointersInv /\ RankInv /\ SortedInv /\ PendingInv /\ Present \subseteq Detours
  BY DEF CoreInv, ChainInv, ChainsInv, OrderInv, Present
<1>1. \A x, y \in Present : Before(x, y)' <=> Before(x, y)
  BY OrderStep
<1>2. CASE original'[d] = original[d]
  <2>1. ASSUME Skips(d, e)' PROVE FALSE
    <3>1. d \in Present
      BY <1>0, <1>2, <2>1, HookAssumption DEF RankInv, Skips
    <3>2. original[d] \in Detours => original[d] \in Present
      BY <1>0 DEF PointersInv
    <3>3. Before(d, e)
      BY <1>1, <2>1, <3>1 DEF Skips
    <3>4. ASSUME original[d] \in Detours PROVE Before(e, original[d])
      <4>1. PICK b \in Present : b = original[d] /\ original'[d] = b
        BY <1>2, <3>2, <3>4
      <4>2. Priority[e] < Priority[b] \/ (Priority[e] = Priority[b] /\ rank'[e] < rank'[b])
        BY <2>1, <3>4, <4>1 DEF Skips, Before
      <4>3. Before(e, b)'
        BY <4>2 DEF Before
      <4>4. Before(e, b)
        BY <1>1, <4>1, <4>3
      <4> QED BY <4>1, <4>4
    <3> QED BY <1>2, <2>1, <3>3, <3>4 DEF Skips
  <2> QED BY <2>1
<1>3. CASE original'[d] # original[d]
  <2>1. PICK h \in Threads : Store(h)
    <3>1. \E h \in Threads : DoStore(h)
      BY <1>0, <1>3, HookSteps DEF Dropping, Installing, Install, DoEnable, DoPatch, Patch, DoArm, Arm, DoSpawn, EnterInit,
         LoadExtensions, EnterOther, Device, Proceed, Quiet, hookvars
    <3> QED BY <3>1 DEF DoStore
  <2>2. PICK t \in Targets : \E i \in DOMAIN links[t] : d = links[t][i] /\ original'[d] = Follower(links[t], i)
    BY <1>0, <1>3, <2>1, StoreKeepsOrder
  <2>3. PICK i \in DOMAIN links[t] : d = links[t][i] /\ original'[d] = Follower(links[t], i)
    BY <2>2
  <2>4. rank' = rank
    BY <2>1 DEF Store
  <2>5. ASSUME Skips(d, e)' PROVE FALSE
    <3>1. e \in Members(links[t])
      <4>1. d \in Members(links[t])
        BY <2>3 DEF Members
      <4>2. Target[d] = t /\ Target[e] = Target[d]
        BY <1>0, <2>5, <4>1, OneAddress DEF Skips
      <4> QED BY <1>0, <4>2, OneAddress
    <3>2. Before(d, e)
      BY <2>4, <2>5 DEF Skips, Before
    <3> DEFINE b == Follower(links[t], i)
    <3>3. b \in Detours /\ ~Before(e, b)
      BY <1>0, <2>3, <3>1, <3>2, FollowersSkipNobody
    <3>4. original'[d] = b
      BY <2>3
    <3> HIDE DEF b
    <3>5. Before(e, b)
      BY <2>4, <2>5, <3>3, <3>4 DEF Skips, Before
    <3> QED BY <3>3, <3>5
  <2> QED BY <2>5
<1> QED BY <1>2, <1>3

LEMMA AppendFacts ==
  ASSUME NEW S, NEW s \in Seq(S), NEW e \in S
  PROVE  /\ Append(s, e) \in Seq(S) /\ Len(s) \in Nat /\ DOMAIN s = 1..Len(s) /\ DOMAIN Append(s, e) = 1..(Len(s) + 1)
         /\ \A i \in 1..Len(s) : Append(s, e)[i] = s[i]
         /\ Append(s, e)[Len(s) + 1] = e
         /\ Members(Append(s, e)) = Members(s) \cup {e}
<1>1. /\ Append(s, e) \in Seq(S) /\ Len(s) \in Nat /\ DOMAIN s = 1..Len(s) /\ DOMAIN Append(s, e) = 1..(Len(s) + 1)
      /\ \A i \in 1..Len(s) : Append(s, e)[i] = s[i]
      /\ Append(s, e)[Len(s) + 1] = e
  OBVIOUS
<1>2. \A i \in 1..(Len(s) + 1) : i \in 1..Len(s) \/ i = Len(s) + 1
  BY <1>1
<1>3. \A i \in 1..Len(s) : i \in 1..(Len(s) + 1)
  BY <1>1
<1>4. Len(s) + 1 \in 1..(Len(s) + 1)
  BY <1>1
<1> QED BY <1>1, <1>2, <1>3, <1>4 DEF Members

LEMMA ForwardWalks ==
  ASSUME ChainsInv, PointersInv, SortedInv, NEW at \in Present, NEW seen \in Seq(Detours), NEW due \in SUBSET Detours,
         Walks(Target[at], at, seen, due)
  PROVE  Walks(Target[at], original[at], Append(seen, at), due)
<1> DEFINE r == Append(seen, at)
           b == original[at]
           t == Target[at]
<1>0. HookTypeOK /\ at \in Detours /\ t \in Targets /\ at \in Members(links[t])
  BY OneAddress DEF ChainsInv
<1>1. /\ r \in Seq(Detours) /\ Len(seen) \in Nat /\ DOMAIN seen = 1..Len(seen) /\ DOMAIN r = 1..(Len(seen) + 1)
      /\ \A i \in 1..Len(seen) : r[i] = seen[i]
      /\ r[Len(seen) + 1] = at
      /\ Members(r) = Members(seen) \cup {at}
  BY <1>0, AppendFacts
<1>2. /\ \A e \in due : e \in Present /\ Target[e] = t /\ \A d \in Detours : ~Skips(d, e)
      /\ \A i \in DOMAIN seen : seen[i] \in Present
      /\ \A i, j \in DOMAIN seen : i < j => Before(seen[i], seen[j])
      /\ \A i \in DOMAIN seen : Before(seen[i], at)
      /\ \A e \in due : e \in Members(seen) \/ e = at \/ Before(at, e)
  BY <1>0 DEF Walks
<1> HIDE DEF r
<1>3. \A i \in DOMAIN r : i \in 1..Len(seen) \/ i = Len(seen) + 1
  BY <1>1
<1>4. \A i \in DOMAIN r : r[i] \in Present
  BY <1>1, <1>2, <1>3
<1>5. ASSUME NEW i \in DOMAIN r, NEW j \in DOMAIN r, i < j PROVE Before(r[i], r[j])
  <2>1. i \in 1..Len(seen)
    BY <1>1, <1>5
  <2>2. CASE j = Len(seen) + 1
    BY <1>1, <1>2, <2>1, <2>2
  <2>3. CASE j \in 1..Len(seen)
    BY <1>1, <1>2, <1>5, <2>1, <2>3
  <2> QED BY <1>3, <2>2, <2>3
<1>6. ASSUME b \in Detours PROVE \A i \in DOMAIN r : Before(r[i], b)
  <2>1. Before(at, b)
    BY <1>0, <1>6 DEF SortedInv
  <2>2. ASSUME NEW i \in 1..Len(seen) PROVE Before(seen[i], b)
    <3>1. Before(seen[i], at) /\ seen[i] \in Detours
      BY <1>1, <1>2
    <3> QED BY <1>0, <1>6, <2>1, <3>1, BeforeOrder
  <2> QED BY <1>1, <1>3, <2>1, <2>2
<1>7. ASSUME b \in Detours, NEW e \in due PROVE e \in Members(r) \/ e = b \/ Before(b, e)
  <2>1. CASE e \in Members(seen) \/ e = at
    BY <1>1, <2>1
  <2>2. CASE Before(at, e)
    <3>1. ~Skips(at, e) /\ Target[e] = t /\ e \in Present
      BY <1>0, <1>2
    <3>2. ~Before(e, b)
      BY <1>7, <2>2, <3>1 DEF Skips
    <3>3. e \in Members(links[t]) /\ b \in Members(links[t])
      <4>1. b \in Present /\ Target[b] = t
        BY <1>0, <1>7 DEF PointersInv, HookTypeOK
      <4> QED BY <1>0, <3>1, <4>1, OneAddress
    <3> QED BY <1>0, <3>2, <3>3, ChainOrder
  <2> QED BY <1>2, <2>1, <2>2
<1>8. ASSUME b = "engine", NEW e \in due PROVE e \in Members(r)
  <2>1. ~Before(at, e)
    BY <1>0, <1>2, <1>8, HookAssumption DEF Skips
  <2> QED BY <1>1, <1>2, <2>1
<1> QED BY <1>2, <1>4, <1>5, <1>6, <1>7, <1>8 DEF Walks, r, b, t

LEMMA EnterWalks ==
  ASSUME ChainsInv, PointersInv, RankInv, SortedInv, PendingInv, NEW t \in armed
  PROVE  Walks(t, head[t], <<>>, Linked(t))
<1>0. HookTypeOK /\ t \in patched /\ t \in Targets /\ head[t] = links[t][1] /\ links[t] # <<>> /\ links[t] \in Seq(Detours)
  BY DEF ChainsInv, HookTypeOK
<1>1. DOMAIN <<>> = {}
  OBVIOUS
<1>2. \A e \in Linked(t) : e \in Members(links[t]) /\ e \in Present /\ Target[e] = t
  BY <1>0, OneAddress DEF Linked
<1>3. \A e \in Linked(t) : \A d \in Detours : ~Skips(d, e)
  BY <1>0, LinkedAreReached
<1>4. head[t] # "engine"
  <2>1. links[t][1] \in Members(links[t])
    BY <1>0, MembersFacts
  <2> QED BY <1>0, <2>1, OneAddress, HookAssumption
<1>5. ASSUME NEW e \in Linked(t) PROVE e = head[t] \/ Before(head[t], e)
  <2>1. PICK i \in 1..Len(links[t]) : e = links[t][i]
    BY <1>0, <1>2, MembersFacts
  <2>2. Len(links[t]) \in Nat /\ DOMAIN links[t] = 1..Len(links[t]) /\ 1 \in DOMAIN links[t]
    BY <1>0, MembersFacts
  <2>3. i = 1 \/ 1 < i
    BY <2>2
  <2> QED BY <1>0, <2>1, <2>2, <2>3 DEF SortedInv
<1> QED BY <1>1, <1>2, <1>3, <1>4, <1>5 DEF Walks

LEMMA WalkStep ==
  ASSUME CoreInv, OrderInv, WalkInv, [Next]_vars
  PROVE  WalkInv'
<1>0. ScriptInv /\ HookTypeOK /\ ChainsInv /\ PointersInv /\ CallsInv /\ RankInv /\ SortedInv /\ PendingInv
      /\ "client" \in Callers
  BY RuntimeAssumption DEF CoreInv, ChainInv, ChainsInv, OrderInv
<1> DEFINE k == calls["client"]
           R == [target : Targets \cup {"none"}, at : Detours \cup {"none", "engine", "null"},
                 seen : Seq(Detours), due : SUBSET Detours]
<1>1. k \in R /\ calls \in [Callers -> R]
  BY <1>0 DEF CallsInv
<1>2. CASE UNCHANGED calls
  <2>1. Present \subseteq Present' /\ \A x, y \in Present : Before(x, y)' <=> Before(x, y)
    BY OrderStep, ChainStep DEF CoreInv, Grows
  <2>2. \A e \in Present : \A d \in Detours : ~Skips(d, e) => ~Skips(d, e)'
    BY SkipsStay
  <2>3. k.at \in Detours => k.at \in Present
    BY <1>0 DEF CallsInv
  <2> DEFINE seen == k.seen
             at == k.at
             due == k.due
  <2>4. calls' = calls
    BY <1>2
  <2>5. \A e \in due : e \in Present' /\ Target[e] = k.target /\ \A d \in Detours : ~Skips(d, e)'
    BY <2>1, <2>2 DEF WalkInv, Walks
  <2>6. \A i \in DOMAIN seen : seen[i] \in Present /\ seen[i] \in Present'
    BY <2>1 DEF WalkInv, Walks
  <2> DEFINE Then(x, y) == Priority[x] < Priority[y] \/ (Priority[x] = Priority[y] /\ rank'[x] < rank'[y])
  <2>7. \A x, y \in Present : Before(x, y) => Then(x, y)
    BY <2>1 DEF Before
  <2> HIDE DEF Then
  <2>8. \A i, j \in DOMAIN seen : i < j => Then(seen[i], seen[j])
    BY <2>6, <2>7 DEF WalkInv, Walks
  <2>9. ASSUME at \in Detours
        PROVE  /\ \A i \in DOMAIN seen : Then(seen[i], at)
               /\ \A e \in due : e \in Members(seen) \/ e = at \/ Then(at, e)
    BY <2>3, <2>6, <2>7, <2>9 DEF WalkInv, Walks
  <2>10. at = "engine" => due \subseteq Members(seen)
    BY DEF WalkInv, Walks
  <2> QED BY <2>4, <2>5, <2>6, <2>8, <2>9, <2>10 DEF WalkInv, Walks, Members, Before, Then
<1>3. ASSUME UNCHANGED hookvars, NEW target, NEW at, NEW seen, NEW due, Walks(target, at, seen, due),
             calls'["client"].target = target, calls'["client"].at = at,
             calls'["client"].seen = seen, calls'["client"].due = due
      PROVE  WalkInv'
  <2>1. UNCHANGED <<links, original, rank>>
    BY <1>3 DEF hookvars
  <2>2. Present' = Present /\ \A d, e : (Before(d, e)' <=> Before(d, e)) /\ (Skips(d, e)' <=> Skips(d, e))
    BY <2>1 DEF Present, Before, Skips
  <2> QED BY <1>3, <2>1, <2>2 DEF WalkInv, Walks, Members, Before, Skips
<1>4. ASSUME NEW t \in Targets, Enter("client", t), UNCHANGED hookvars PROVE WalkInv'
  <2>1. /\ calls' = [calls EXCEPT !["client"] =
             IF t \in armed THEN [target |-> t, at |-> head[t], seen |-> <<>>, due |-> Linked(t)]
             ELSE [NoCall EXCEPT !.target = t, !.at = "engine"]]
    BY <1>4 DEF Enter
  <2>2. CASE t \in armed
    <3>1. calls'["client"] = [target |-> t, at |-> head[t], seen |-> <<>>, due |-> Linked(t)]
      BY <1>0, <1>1, <2>1, <2>2
    <3>2. Walks(t, head[t], <<>>, Linked(t))
      BY <1>0, <2>2, EnterWalks
    <3> QED BY <1>3, <1>4, <3>1, <3>2
  <2>3. CASE t \notin armed
    <3>1. calls'["client"] = [target |-> t, at |-> "engine", seen |-> <<>>, due |-> {}]
      BY <1>0, <1>1, <2>1, <2>3 DEF NoCall
    <3>2. Walks(t, "engine", <<>>, {})
      <4>1. DOMAIN <<>> = {}
        OBVIOUS
      <4> QED BY <4>1, HookAssumption DEF Walks
    <3> QED BY <1>3, <1>4, <3>1, <3>2
  <2> QED BY <2>2, <2>3
<1>5. ASSUME Proceed PROVE WalkInv'
  <2>0. UNCHANGED hookvars
    BY <1>5 DEF Proceed
  <2>1. CASE Forward("client")
    <3>1. /\ k.at \in Detours
          /\ calls' = [calls EXCEPT !["client"].seen = Append(@, k.at), !["client"].at = original[k.at]]
      BY <2>1 DEF Forward
    <3>2. /\ calls'["client"].target = k.target /\ calls'["client"].at = original[k.at]
          /\ calls'["client"].seen = Append(k.seen, k.at) /\ calls'["client"].due = k.due
      BY <1>0, <1>1, <3>1
    <3>3. k.at \in Present /\ k.target = Target[k.at] /\ k.seen \in Seq(Detours) /\ k.due \in SUBSET Detours
      BY <1>0, <1>1, <3>1 DEF CallsInv
    <3>4. Walks(Target[k.at], k.at, k.seen, k.due)
      BY <3>3 DEF WalkInv
    <3>5. Walks(Target[k.at], original[k.at], Append(k.seen, k.at), k.due)
      BY <1>0, <3>3, <3>4, ForwardWalks
    <3> QED BY <1>3, <2>0, <3>2, <3>3, <3>5
  <2>2. CASE Return("client")
    <3>1. calls'["client"] = NoCall
      BY <1>0, <1>1, <2>2 DEF Return
    <3>2. Walks("none", "none", <<>>, {})
      <4>1. DOMAIN <<>> = {}
        OBVIOUS
      <4> QED BY <4>1, HookAssumption DEF Walks
    <3> QED BY <1>3, <2>0, <3>1, <3>2 DEF NoCall
  <2> QED BY <1>5, <2>1, <2>2 DEF Proceed
<1>6. "init" \in Targets
  BY RuntimeAssumption, HookAssumption
<1>7. EnterInit \/ EnterOther => UNCHANGED hookvars /\ \E t \in Targets : Enter("client", t)
  BY <1>6 DEF EnterInit, EnterOther
<1>8. ASSUME NEW h \in Threads, Dropping(h) \/ Installing(h) \/ DoEnable(h) \/ DoPatch(h) \/ DoArm(h) \/ DoStore(h) \/ DoSpawn(h)
      PROVE  UNCHANGED calls
  BY <1>8 DEF Dropping, Installing, DoEnable, DoPatch, DoArm, DoStore, Store, DoSpawn
<1>9. LoadExtensions \/ Device \/ Quiet => UNCHANGED calls
  BY DEF LoadExtensions, Device, Quiet
<1> QED BY <1>0, <1>2, <1>4, <1>5, <1>7, <1>8, <1>9, HookSteps

LEMMA InitOrder == Init => OrderInv /\ WalkInv
<1> SUFFICES ASSUME Init PROVE OrderInv /\ WalkInv
  OBVIOUS
<1>1. /\ links = [t \in Targets |-> <<>>] /\ patched = {} /\ original = [d \in Detours |-> "null"]
      /\ stores = [h \in Threads |-> <<>>] /\ calls = [c \in Callers |-> NoCall]
  BY DEF Init, HookInit, CallInit
<1>2. DOMAIN <<>> = {}
  OBVIOUS
<1>3. OrderInv
  BY <1>1, <1>2, HookAssumption DEF OrderInv, SortedInv, PendingInv
<1>4. calls["client"] = NoCall
  BY <1>1, RuntimeAssumption
<1>5. WalkInv
  BY <1>2, <1>4, HookAssumption DEF WalkInv, Walks, NoCall
<1> QED BY <1>3, <1>5

LEMMA WalkInvariant ==
  ASSUME ~MayTimeOut PROVE Spec => [](CoreInv /\ OrderInv /\ WalkInv)
<1>1. CoreInv /\ OrderInv /\ WalkInv /\ [Next]_vars => OrderInv' /\ WalkInv'
  BY OrderStep, WalkStep
<1>2. Spec => []CoreInv
  BY CoreInvariant
<1> QED BY <1>1, <1>2, InitOrder, PTL DEF Spec

\* NoOneIsSkipped, if MainThread waits for as long as it takes: whichever
\* pointers Relink stores meanwhile, a call meets what was linked when it began,
\* in the order of the priorities (Hook.cpp:71).
THEOREM EveryDueDetourIsMet ==
  ASSUME ~MayTimeOut PROVE Spec => []NoOneIsSkipped
<1>1. ASSUME CoreInv, WalkInv PROVE NoOneIsSkipped
  <2>1. ASSUME NEW c \in Callers, calls[c].at = "engine"
        PROVE  /\ calls[c].due \subseteq Members(calls[c].seen)
               /\ \A i, j \in DOMAIN calls[c].seen : i < j => Before(calls[c].seen[i], calls[c].seen[j])
    <3>1. c = "client"
      BY <1>1, <2>1 DEF CoreInv, ChainInv, CallsInv, NoCall
    <3> QED BY <1>1, <2>1, <3>1 DEF WalkInv, Walks
  <2> QED BY <2>1 DEF NoOneIsSkipped
<1> QED BY <1>1, WalkInvariant, PTL

\* t is armed, or the client's script is going to arm it.
Covered(t) ==
  \/ t \in armed
  \/ \E i \in DOMAIN script["client"] : script["client"][i].op = "enable"
  \/ \E i \in DOMAIN script["client"] :
       /\ script["client"][i].op = "arm"
       /\ t \in patched \/ \E j \in DOMAIN script["client"] :
            j < i /\ script["client"][j].op = "patch" /\ script["client"][j].x = t

\* What the client attaches it arms in the end.
CoverInv ==
  /\ \A i \in DOMAIN script["client"] : script["client"][i].op = "install" =>
       \E j \in DOMAIN script["client"] : j > i /\ script["client"][j].op = "enable"
  /\ ~broken => \A d \in Present \ Mains : Covered(Target[d])

LEMMA CoverShift ==
  ASSUME ScriptInv, CoverInv, NEW h \in Threads, NEW k \in 1..Len(script[h]), Further(h, k),
         h = "client" => \A i \in 1..k : script[h][i].op \notin {"enable", "patch", "arm"},
         armed \subseteq armed', patched \subseteq patched'
  PROVE  /\ \A t \in Targets : Covered(t) => Covered(t)'
         /\ \A i \in DOMAIN script'["client"] : script'["client"][i].op = "install" =>
              \E j \in DOMAIN script'["client"] : j > i /\ script'["client"][j].op = "enable"
         /\ h = "client" /\ script[h][k].op = "install" =>
              \E j \in DOMAIN script'["client"] : script'["client"][j].op = "enable"
<1>1. /\ \A g \in Threads : g # h => script'[g] = script[g]
      /\ Len(script[h]) \in Nat /\ DOMAIN script[h] = 1..Len(script[h])
      /\ DOMAIN script'[h] = 1..(Len(script[h]) - k)
      /\ \A i \in DOMAIN script'[h] :
           i \in Nat /\ i > 0 /\ i + k \in DOMAIN script[h] /\ script'[h][i] = script[h][i + k]
      /\ \A j \in DOMAIN script[h] : j > k => j - k \in DOMAIN script'[h] /\ script'[h][j - k] = script[h][j]
  BY ShiftFacts
<1>0. "client" \in Threads
  BY RuntimeAssumption
<1>2. CASE h # "client"
  <2>1. script'["client"] = script["client"]
    BY <1>0, <1>1, <1>2
  <2> QED BY <1>2, <2>1 DEF Covered, CoverInv
<1>3. CASE h = "client"
  <2> DEFINE s == script["client"]
             r == script'["client"]
  <2>1. /\ \A i \in DOMAIN r : i \in Nat /\ i + k \in DOMAIN s /\ r[i] = s[i + k]
        /\ \A j \in DOMAIN s : j > k => j - k \in DOMAIN r /\ r[j - k] = s[j]
        /\ DOMAIN s = 1..Len(s) /\ Len(s) \in Nat /\ k \in 1..Len(s)
        /\ \A i \in DOMAIN r : i \in 1..(Len(s) - k)
    BY <1>1, <1>3
  <2>2. \A j \in DOMAIN s : s[j].op \in {"enable", "patch", "arm"} => j > k
    <3>1. ASSUME NEW j \in DOMAIN s, s[j].op \in {"enable", "patch", "arm"}, ~(j > k) PROVE FALSE
      <4>1. j \in 1..k
        BY <2>1, <3>1
      <4> QED BY <1>3, <3>1, <4>1
    <3> QED BY <3>1
  <2>3. \A i \in DOMAIN s : s[i].op = "install" => \E j \in DOMAIN s : j > i /\ s[j].op = "enable"
    BY DEF CoverInv
  <2> HIDE DEF s, r
  <2>4. ASSUME NEW t \in Targets, Covered(t) PROVE Covered(t)'
    <3>1. CASE t \in armed
      BY <3>1 DEF Covered
    <3>2. CASE \E i \in DOMAIN s : s[i].op = "enable"
      BY <2>1, <2>2, <3>2 DEF Covered, r
    <3>3. ASSUME NEW i \in DOMAIN s, s[i].op = "arm",
                 t \in patched \/ \E j \in DOMAIN s : j < i /\ s[j].op = "patch" /\ s[j].x = t
          PROVE  Covered(t)'
      <4>1. i - k \in DOMAIN r /\ r[i - k].op = "arm"
        BY <2>1, <2>2, <3>3
      <4>2. CASE t \in patched
        BY <4>1, <4>2 DEF Covered, r
      <4>3. ASSUME NEW j \in DOMAIN s, j < i, s[j].op = "patch", s[j].x = t PROVE Covered(t)'
        <5>1. j - k \in DOMAIN r /\ r[j - k] = s[j] /\ j - k < i - k
          BY <2>1, <2>2, <3>3, <4>3
        <5> QED BY <4>1, <4>3, <5>1 DEF Covered, r
      <4> QED BY <3>3, <4>2, <4>3
    <3> QED BY <2>4, <3>1, <3>2, <3>3 DEF Covered, s
  <2>5. ASSUME NEW i \in DOMAIN r, r[i].op = "install" PROVE \E j \in DOMAIN r : j > i /\ r[j].op = "enable"
    <3>1. PICK j \in DOMAIN s : j > i + k /\ s[j].op = "enable"
      BY <2>1, <2>3, <2>5
    <3>2. j - k \in DOMAIN r /\ r[j - k] = s[j] /\ j - k > i
      BY <2>1, <2>2, <3>1
    <3> QED BY <3>1, <3>2
  <2>6. ASSUME s[k].op = "install" PROVE \E j \in DOMAIN r : r[j].op = "enable"
    BY <2>1, <2>2, <2>3, <2>6
  <2> QED BY <1>3, <2>4, <2>5, <2>6 DEF r, s
<1> QED BY <1>2, <1>3

LEMMA CoverStep ==
  ASSUME CoreInv, CoverInv, [Next]_vars
  PROVE  CoverInv'
<1>0. ScriptInv /\ HookTypeOK /\ ChainsInv /\ PlanInv /\ RankInv /\ TurnInv /\ "client" \in Threads
      /\ script \in [Threads -> Seq(Ops)] /\ armed \subseteq patched /\ broken \in BOOLEAN
  BY RuntimeAssumption DEF CoreInv, ChainInv, ChainsInv, ScriptInv, HookTypeOK
<1> DEFINE s == script["client"]
           r == script'["client"]
<1>t. \A d \in Present : Target[d] \in Targets /\ Target[d] \in Members(chains) /\ d \in Detours
  <2>1. ASSUME NEW d \in Present PROVE links[Target[d]] # <<>>
    <3>1. d \in Members(links[Target[d]])
      BY DEF Present
    <3>2. DOMAIN <<>> = {}
      OBVIOUS
    <3> QED BY <3>1, <3>2 DEF Members
  <2> QED BY <1>0, <2>1, OneAddress DEF ChainsInv
<1>k. ASSUME NEW h \in Threads, NEW k \in 1..Len(script[h]), Further(h, k),
             h = "client" => \A i \in 1..k : script[h][i].op \notin {"enable", "patch", "arm"},
             armed \subseteq armed', patched \subseteq patched', links' = links, broken' \in BOOLEAN, broken => broken'
      PROVE  CoverInv'
  <2>1. Present' = Present
    BY <1>k DEF Present
  <2>2. /\ \A t \in Targets : Covered(t) => Covered(t)'
        /\ \A i \in DOMAIN r : r[i].op = "install" => \E j \in DOMAIN r : j > i /\ r[j].op = "enable"
    BY <1>0, <1>k, CoverShift
  <2> QED BY <1>t, <1>k, <2>1, <2>2 DEF CoverInv
<1>s. ASSUME script'["client"] = script["client"], links' = links, broken => broken', armed \subseteq armed', patched \subseteq patched'
      PROVE  CoverInv'
  BY <1>s DEF CoverInv, Covered, Present
<1>f. ASSUME NEW h \in Threads, NEW op, Ready(h, op), Next1(h)
      PROVE  /\ Further(h, 1) /\ 1 \in 1..Len(script[h]) /\ script[h][1].op = op /\ Arg(h) = script[h][1].x
             /\ \A i \in 1..1 : i = 1
  <2>1. Further(h, 1) /\ 1 \in 1..Len(script[h]) /\ Head(script[h]) = script[h][1]
    BY <1>0, <1>f, NextIsFurther DEF Ready
  <2> QED BY <1>f, <2>1 DEF Ready, Arg
<1>1. ASSUME NEW h \in Threads, Dropping(h) PROVE CoverInv'
  <2>1. PICK k \in 1..Len(script[h]) : Further(h, k) /\ \A i \in 1..k : script[h][i].op \notin {"enable", "patch", "arm", "spawn"}
    BY <1>1 DEF Dropping
  <2>2. UNCHANGED <<armed, patched, links, broken>>
    BY <1>1 DEF Dropping, hookvars
  <2> QED BY <1>0, <1>k, <2>1, <2>2
<1>2. ASSUME NEW h \in Threads, Installing(h) PROVE CoverInv'
  <2> DEFINE d == script[h][1].x
  <2>1. Further(h, 1) /\ 1 \in 1..Len(script[h]) /\ script[h][1].op = "install" /\ Install(h, d)
    BY <1>2 DEF Installing
  <2>2. d \in Detours /\ h \in {"client", "main"} /\ d \in Planned(h)
    BY <1>0, <1>2, InstallKeepsPlans
  <2>3. Present' = Present \cup {d} /\ UNCHANGED <<armed, patched, broken>>
    BY <1>0, <2>1, <2>2, InstallMembers DEF Install
  <2>i. \A i \in 1..1 : i = 1
    OBVIOUS
  <2>4. /\ \A t \in Targets : Covered(t) => Covered(t)'
        /\ \A i \in DOMAIN r : r[i].op = "install" => \E j \in DOMAIN r : j > i /\ r[j].op = "enable"
        /\ h = "client" => \E j \in DOMAIN r : r[j].op = "enable"
    BY <1>0, <2>1, <2>3, <2>i, CoverShift
  <2>5. h = "main" => d \in Mains
    BY <1>0, <2>2 DEF PlanInv
  <2>6. h = "client" => \A t : Covered(t)'
    BY <2>4 DEF Covered
  <2> HIDE DEF d
  <2>7. ASSUME ~broken', NEW e \in Present' \ Mains PROVE Covered(Target[e])'
    <3>1. CASE e \in Present
      BY <1>t, <2>3, <2>4, <2>7, <3>1 DEF CoverInv
    <3>2. CASE e = d
      BY <2>2, <2>5, <2>6, <2>7, <3>2
    <3> QED BY <2>3, <2>7, <3>1, <3>2
  <2> QED BY <2>4, <2>7 DEF CoverInv
<1>3. ASSUME NEW h \in Threads, DoEnable(h) PROVE CoverInv'
  <2>1. UNCHANGED <<armed, patched, links, broken, chains>>
    BY <1>3 DEF DoEnable, hookvars
  <2> DEFINE n == Len(chains)
  <2>2. /\ \A g \in Threads : g # h => script'[g] = script[g]
        /\ n \in Nat
        /\ \A i \in 1..n : i \in DOMAIN script'[h] /\ script'[h][i].op = "patch" /\ script'[h][i].x = chains[i]
        /\ n + 1 \in DOMAIN script'[h] /\ script'[h][n + 1].op = "arm"
        /\ \A i \in DOMAIN script'[h] :
             \/ i \in 1..n
             \/ i = n + 1
             \/ i > n + 1 /\ i - n \in DOMAIN script[h] /\ i - n > 1 /\ script'[h][i] = script[h][i - n]
        /\ \A j \in DOMAIN script[h] : j > 1 => j + n \in DOMAIN script'[h] /\ j + n > n + 1 /\ script'[h][j + n] = script[h][j]
        /\ DOMAIN script[h] = 1..Len(script[h]) /\ Len(script[h]) \in Nat
        /\ DOMAIN script'[h] = 1..(n + Len(script[h]))
    BY <1>0, <1>3, EnableShift
  <2>3. CASE h # "client"
    BY <1>0, <1>s, <2>1, <2>2, <2>3
  <2>4. CASE h = "client"
    <3> HIDE DEF n
    <3>1. ASSUME NEW d \in Present \ Mains PROVE Covered(Target[d])'
      <4>1. PICK i \in 1..n : chains[i] = Target[d]
        <5>1. Target[d] \in Members(chains) /\ chains \in Seq(Targets)
          BY <1>0, <1>t DEF HookTypeOK
        <5> QED BY <5>1, MembersFacts DEF n
      <4>2. i \in DOMAIN r /\ r[i].op = "patch" /\ r[i].x = Target[d] /\ n + 1 \in DOMAIN r /\ r[n + 1].op = "arm" /\ i < n + 1
        BY <2>2, <2>4, <4>1
      <4> HIDE DEF r
      <4> QED BY <4>2 DEF Covered, r
    <3>2. ASSUME NEW i \in DOMAIN r, r[i].op = "install" PROVE \E j \in DOMAIN r : j > i /\ r[j].op = "enable"
      <4>1. i - n \in DOMAIN s /\ i - n > 1 /\ r[i] = s[i - n]
        BY <2>2, <2>4, <3>2
      <4>2. PICK j \in DOMAIN s : j > i - n /\ s[j].op = "enable"
        BY <3>2, <4>1 DEF CoverInv
      <4>3. DOMAIN s = 1..Len(s) /\ DOMAIN r = 1..(n + Len(s)) /\ Len(s) \in Nat
        BY <2>2, <2>4
      <4>4. j > 1 /\ j + n > i
        BY <2>2, <3>2, <4>1, <4>2, <4>3
      <4>5. j + n \in DOMAIN r /\ r[j + n] = s[j]
        BY <2>2, <2>4, <4>4
      <4> QED BY <4>2, <4>4, <4>5
    <3>3. Present' = Present
      BY <2>1 DEF Present
    <3> QED BY <3>1, <3>2, <3>3 DEF CoverInv
  <2> QED BY <2>3, <2>4
<1>4. ASSUME NEW h \in Threads, DoPatch(h) PROVE CoverInv'
  <2>1. Ready(h, "patch") /\ Patch(h, Arg(h)) /\ Next1(h)
    BY <1>4 DEF DoPatch
  <2>2. /\ Further(h, 1) /\ 1 \in 1..Len(script[h]) /\ script[h][1].op = "patch" /\ Arg(h) = script[h][1].x
        /\ \A i \in 1..1 : i = 1
    BY <1>f, <2>1
  <2>3. /\ UNCHANGED <<armed, links>> /\ patched \subseteq patched' /\ (broken => broken') /\ broken' \in BOOLEAN
        /\ ~broken' => Arg(h) \in patched'
    <3>1. UNCHANGED <<armed, links>> /\ patched \subseteq patched'
      BY <2>1 DEF Patch, hookvars
    <3>2. (broken => broken') /\ broken' \in BOOLEAN
      <4>1. CASE broken' = broken
        BY <1>0, <4>1
      <4>2. CASE broken' = TRUE
        BY <4>2
      <4> QED BY <2>1, <4>1, <4>2 DEF Patch, hookvars
    <3>3. ~broken' => Arg(h) \in patched'
      BY <2>1 DEF Patch, hookvars
    <3> QED BY <3>1, <3>2, <3>3
  <2>4. CASE h # "client"
    BY <1>0, <1>k, <2>2, <2>3, <2>4
  <2>5. CASE h = "client"
    <3>1. /\ Len(s) \in Nat /\ DOMAIN s = 1..Len(s)
          /\ \A i \in DOMAIN r : i \in Nat /\ i > 0 /\ i + 1 \in DOMAIN s /\ r[i] = s[i + 1]
          /\ \A j \in DOMAIN s : j > 1 => j - 1 \in DOMAIN r /\ r[j - 1] = s[j]
      BY <1>0, <2>2, <2>5, ShiftFacts
    <3> HIDE DEF s, r
    <3>2. ASSUME ~broken', NEW t \in Targets, Covered(t) PROVE Covered(t)'
      <4>1. CASE t \in armed
        BY <2>3, <4>1 DEF Covered
      <4>2. ASSUME NEW i \in DOMAIN s, s[i].op = "enable" PROVE Covered(t)'
        <5>1. i > 1
          BY <2>2, <2>5, <3>1, <4>2 DEF s
        <5> QED BY <3>1, <4>2, <5>1 DEF Covered, r
      <4>3. ASSUME NEW i \in DOMAIN s, s[i].op = "arm",
                   t \in patched \/ \E j \in DOMAIN s : j < i /\ s[j].op = "patch" /\ s[j].x = t
            PROVE  Covered(t)'
        <5>1. i > 1
          BY <2>2, <2>5, <3>1, <4>3 DEF s
        <5>2. i - 1 \in DOMAIN r /\ r[i - 1].op = "arm"
          BY <3>1, <4>3, <5>1
        <5>3. CASE t \in patched'
          BY <5>2, <5>3 DEF Covered, r
        <5>4. ASSUME t \notin patched', NEW j \in DOMAIN s, j < i, s[j].op = "patch", s[j].x = t PROVE Covered(t)'
          <6>1. j # 1
            BY <2>2, <2>3, <2>5, <3>2, <5>4 DEF s
          <6>2. j > 1
            BY <3>1, <6>1
          <6>3. j - 1 \in DOMAIN r /\ r[j - 1] = s[j] /\ j - 1 < i - 1
            BY <3>1, <5>4, <6>2
          <6> QED BY <5>2, <5>4, <6>3 DEF Covered, r
        <5> QED BY <2>3, <4>3, <5>3, <5>4
      <4> QED BY <3>2, <4>1, <4>2, <4>3 DEF Covered, s
    <3>3. ASSUME NEW i \in DOMAIN r, r[i].op = "install" PROVE \E j \in DOMAIN r : j > i /\ r[j].op = "enable"
      <4>1. PICK j \in DOMAIN s : j > i + 1 /\ s[j].op = "enable"
        BY <3>1, <3>3 DEF CoverInv, s
      <4>2. j - 1 \in DOMAIN r /\ r[j - 1] = s[j] /\ j - 1 > i
        BY <3>1, <3>3, <4>1
      <4> QED BY <4>1, <4>2
    <3>4. Present' = Present
      BY <2>3 DEF Present
    <3> QED BY <1>t, <2>3, <3>2, <3>3, <3>4 DEF CoverInv, r
  <2> QED BY <2>4, <2>5
<1>5. ASSUME NEW h \in Threads, DoArm(h) PROVE CoverInv'
  <2>1. Ready(h, "arm") /\ Arm /\ Next1(h)
    BY <1>5 DEF DoArm
  <2>2. /\ Further(h, 1) /\ 1 \in 1..Len(script[h]) /\ script[h][1].op = "arm"
        /\ \A i \in 1..1 : i = 1
    BY <1>f, <2>1
  <2>3. /\ UNCHANGED <<patched, links>> /\ armed \subseteq armed' /\ (broken => broken') /\ broken' \in BOOLEAN
        /\ ~broken' => armed' = patched
    <3>1. UNCHANGED <<patched, links>> /\ (armed' = patched \/ armed' = armed)
      BY <2>1 DEF Arm
    <3>2. (broken => broken') /\ broken' \in BOOLEAN /\ (~broken' => armed' = patched)
      <4>1. CASE armed' = patched /\ broken' = broken
        BY <1>0, <4>1
      <4>2. CASE broken' = TRUE
        BY <4>2
      <4> QED BY <2>1, <4>1, <4>2 DEF Arm
    <3> QED BY <1>0, <3>1, <3>2
  <2>4. CASE h # "client"
    BY <1>0, <1>k, <2>2, <2>3, <2>4
  <2>5. CASE h = "client"
    <3>1. /\ Len(s) \in Nat /\ DOMAIN s = 1..Len(s)
          /\ \A i \in DOMAIN r : i \in Nat /\ i > 0 /\ i + 1 \in DOMAIN s /\ r[i] = s[i + 1]
          /\ \A j \in DOMAIN s : j > 1 => j - 1 \in DOMAIN r /\ r[j - 1] = s[j]
      BY <1>0, <2>2, <2>5, ShiftFacts
    <3> HIDE DEF s, r
    <3>2. ASSUME ~broken', NEW t \in Targets, Covered(t) PROVE Covered(t)'
      <4>1. CASE t \in armed
        BY <2>3, <4>1 DEF Covered
      <4>2. ASSUME NEW i \in DOMAIN s, s[i].op = "enable" PROVE Covered(t)'
        <5>1. i > 1
          BY <2>2, <2>5, <3>1, <4>2 DEF s
        <5> QED BY <3>1, <4>2, <5>1 DEF Covered, r
      <4>3. CASE t \in patched
        BY <2>3, <3>2, <4>3 DEF Covered
      <4>4. ASSUME NEW i \in DOMAIN s, s[i].op = "arm", NEW j \in DOMAIN s, j < i, s[j].op = "patch", s[j].x = t
            PROVE  Covered(t)'
        <5>1. j > 1 /\ i > 1
          BY <2>2, <2>5, <3>1, <4>4 DEF s
        <5>2. i - 1 \in DOMAIN r /\ r[i - 1].op = "arm" /\ j - 1 \in DOMAIN r /\ r[j - 1] = s[j] /\ j - 1 < i - 1
          BY <3>1, <4>4, <5>1
        <5> QED BY <4>4, <5>2 DEF Covered, r
      <4> QED BY <3>2, <4>1, <4>2, <4>3, <4>4 DEF Covered, s
    <3>3. ASSUME NEW i \in DOMAIN r, r[i].op = "install" PROVE \E j \in DOMAIN r : j > i /\ r[j].op = "enable"
      <4>1. PICK j \in DOMAIN s : j > i + 1 /\ s[j].op = "enable"
        BY <3>1, <3>3 DEF CoverInv, s
      <4>2. j - 1 \in DOMAIN r /\ r[j - 1] = s[j] /\ j - 1 > i
        BY <3>1, <3>3, <4>1
      <4> QED BY <4>1, <4>2
    <3>4. Present' = Present
      BY <2>3 DEF Present
    <3> QED BY <1>t, <2>3, <3>2, <3>3, <3>4 DEF CoverInv, r
  <2> QED BY <2>4, <2>5
<1>6. ASSUME NEW h \in Threads, DoStore(h) PROVE CoverInv'
  <2>1. UNCHANGED <<script, links, broken, armed, patched>>
    BY <1>6 DEF DoStore, Store
  <2> QED BY <1>s, <2>1
<1>7. ASSUME NEW h \in Threads, DoSpawn(h) PROVE CoverInv'
  <2>1. h = "client" /\ r = <<>> /\ UNCHANGED <<links, broken, armed, patched>>
    BY <1>0, <1>7, SpawnKeepsPlans DEF DoSpawn, hookvars
  <2>2. \A i \in DOMAIN s : i = 1 /\ s[i].op = "spawn"
    <3>1. s \in Seq(Ops) /\ s # <<>> /\ Head(s).op = "spawn"
      BY <1>0, <1>7, <2>1 DEF DoSpawn, Ready
    <3>2. Head(s) = s[1] /\ Len(s) \in Nat /\ DOMAIN s = 1..Len(s) /\ 1 \in DOMAIN s
      BY <3>1, PopFacts
    <3>3. 1 = Len(s)
      BY <1>0, <3>1, <3>2 DEF PlanInv
    <3> HIDE DEF s
    <3>4. \A i \in DOMAIN s : i = 1
      <4>1. DOMAIN s = 1..1
        BY <3>2, <3>3
      <4> QED BY <4>1
    <3> QED BY <3>1, <3>2, <3>4
  <2>3. \A t : Covered(t) => t \in armed
    BY <2>2 DEF Covered
  <2>4. DOMAIN <<>> = {}
    OBVIOUS
  <2>5. Present' = Present
    BY <2>1 DEF Present
  <2> HIDE DEF s
  <2> QED BY <2>1, <2>3, <2>4, <2>5 DEF CoverInv, Covered
<1>8. CASE LoadExtensions
  <2>1. /\ s = <<>> /\ r = LoadAll(extensions) /\ UNCHANGED <<links, broken, armed, patched>>
        /\ extensions \in Installations
    BY <1>0, <1>8 DEF LoadExtensions, Free, hookvars, ScriptInv
  <2>2. DOMAIN <<>> = {}
    OBVIOUS
  <2>3. \A t : Covered(t) => t \in armed
    BY <2>1, <2>2 DEF Covered
  <2>4. /\ r \in Seq(Ops) /\ Len(extensions) \in Nat /\ Len(r) = Len(extensions) + 1
        /\ r[Len(extensions) + 1] = Do("enable", "all")
    BY <2>1, LoadScript
  <2> HIDE DEF r
  <2>5. DOMAIN r = 1..(Len(extensions) + 1) /\ Len(extensions) + 1 \in DOMAIN r /\ r[Len(extensions) + 1].op = "enable"
    BY <2>4 DEF Do
  <2>6. ASSUME NEW i \in DOMAIN r, r[i].op = "install" PROVE Len(extensions) + 1 > i
    BY <2>4, <2>5, <2>6
  <2>7. Present' = Present
    BY <2>1 DEF Present
  <2> QED BY <2>1, <2>3, <2>5, <2>6, <2>7 DEF CoverInv, Covered, r
<1>9. CASE EnterInit \/ EnterOther \/ Device \/ Proceed \/ Quiet
  <2>1. UNCHANGED <<script, links, broken, armed, patched>>
    BY <1>9 DEF EnterInit, EnterOther, Device, Proceed, Quiet, hookvars
  <2> QED BY <1>s, <2>1
<1> QED BY <1>0, <1>1, <1>2, <1>3, <1>4, <1>5, <1>6, <1>7, <1>8, <1>9, HookSteps

LEMMA InitCover == Init => CoverInv
<1> SUFFICES ASSUME Init PROVE CoverInv
  OBVIOUS
<1>1. /\ script = [h \in Threads |-> IF h = "client" THEN DllMain ELSE <<>>]
      /\ links = [t \in Targets |-> <<>>] /\ "client" \in Threads
  BY RuntimeAssumption DEF Init, HookInit
<1>2. script["client"] = DllMain
  BY <1>1
<1>3. DOMAIN <<>> = {}
  OBVIOUS
<1>4. Present = {}
  BY <1>1, <1>3, HookAssumption DEF Present, Members
<1> DEFINE n == Len(DllMain)
<1>5. /\ n \in Nat /\ n >= 5 /\ DOMAIN DllMain = 1..n
      /\ \A i \in DOMAIN DllMain : DllMain[i].op = "install" => i < n - 1
      /\ DllMain[n - 1].op = "enable"
  BY DllMainFacts
<1> HIDE DEF n
<1>6. n - 1 \in DOMAIN DllMain
  BY <1>5
<1> QED BY <1>2, <1>4, <1>5, <1>6 DEF CoverInv

(***************************************************************************)
(* In front of engine initialisation                                       *)
(***************************************************************************)
\* The loader's detour comes first there, and stays.
LoaderInv ==
  /\ Present \subseteq Clients \cup Mains \cup Attached(extensions)
  /\ loaded => "init" \in patched /\ head["init"] = "loader"
  /\ "loader" \in Present \/ \E i \in DOMAIN script["client"] : script["client"][i] = Do("install", "loader")

LEMMA InitTargets ==
  /\ "loader" \in Detours /\ "init" \in Targets /\ Target["loader"] = "init" /\ "loader" \notin Mains
  /\ \A e \in Mains \cup Members(Boot) : Target[e] # "init"
  /\ \A exts \in Installations : Attached(exts) \cap (Mains \cup Clients) = {}
<1>1. "loader" \in Detours /\ "init" \in Targets /\ Target["loader"] = "init"
  BY RuntimeAssumption, HookAssumption
<1>2. \A e \in StorageOps : e \in Detours /\ Target[e] = e /\ e # "init"
  BY RuntimeAssumption DEF StorageOps
<1>3. ASSUME NEW ds \in {Boot, Features}, NEW e \in Members(ds) PROVE Target[e] # "init"
  <2>1. \A i, j \in DOMAIN ds : Target[ds[i]] # "init" /\ (ds[i] = ds[j] => i = j)
    BY RuntimeAssumption
  <2> QED BY <1>3, <2>1 DEF Members
<1>4. \A e \in Mains \cup Members(Boot) : Target[e] # "init"
  BY <1>2, <1>3 DEF Mains
<1>5. "loader" \notin Mains
  BY <1>1, <1>4
<1>6. \A exts \in Installations :
         Attached(exts) \cap (StorageOps \cup {"loader"} \cup Members(Boot) \cup Members(Features)) = {}
  BY RuntimeAssumption
<1> QED BY <1>1, <1>4, <1>5, <1>6 DEF Mains, Clients

LEMMA InitChain ==
  ASSUME CoreInv, LoaderInv
  PROVE  /\ \A e \in Members(links["init"]) : e \in Present /\ (e = "loader" \/ (loaded /\ e \in Attached(extensions)))
         /\ "init" \in patched => links["init"][1] = "loader" /\ head["init"] = "loader" /\ "loader" \in Present
         /\ links["init"] \in Seq(Detours)
<1>0. HookTypeOK /\ ChainsInv /\ PlanInv /\ extensions \in Installations
  BY DEF CoreInv, ChainInv, ChainsInv, ScriptInv
<1>1. links["init"] \in Seq(Detours) /\ \A e \in Members(links["init"]) : e \in Present /\ Target[e] = "init"
  BY <1>0, InitTargets, OneAddress
<1>2. ASSUME NEW e \in Members(links["init"]) PROVE e = "loader" \/ (loaded /\ e \in Attached(extensions))
  <2>1. e \in Present /\ e \notin Mains /\ e \notin Members(Boot)
    BY <1>1, InitTargets
  <2>2. e = "loader" \/ e \in Attached(extensions)
    BY <2>1 DEF LoaderInv, Clients
  <2> QED BY <1>0, <2>1, <2>2 DEF PlanInv
<1>3. ASSUME "init" \in patched PROVE links["init"][1] = "loader" /\ head["init"] = "loader" /\ "loader" \in Present
  <2>1. links["init"] # <<>> /\ head["init"] = links["init"][1]
    BY <1>0, <1>3, InitTargets DEF ChainsInv
  <2>2. links["init"][1] \in Members(links["init"])
    BY <1>1, <2>1, MembersFacts
  <2>3. links["init"][1] = "loader"
    BY <1>2, <2>1, <2>2 DEF LoaderInv
  <2> QED BY <1>1, <2>1, <2>2, <2>3
<1> QED BY <1>1, <1>2, <1>3

LEMMA InitLoader == Init => LoaderInv
<1> SUFFICES ASSUME Init PROVE LoaderInv
  OBVIOUS
<1>1. /\ script = [h \in Threads |-> IF h = "client" THEN DllMain ELSE <<>>]
      /\ links = [t \in Targets |-> <<>>] /\ "client" \in Threads /\ loaded = FALSE
  BY RuntimeAssumption DEF Init, HookInit
<1>2. script["client"] = DllMain
  BY <1>1
<1>3. DOMAIN <<>> = {}
  OBVIOUS
<1>4. Present = {}
  BY <1>1, <1>3, HookAssumption DEF Present, Members
<1>5. 2 \in DOMAIN DllMain /\ DllMain[2] = Do("install", "loader")
  <2>1. Len(DllMain) \in Nat /\ Len(DllMain) >= 5 /\ DOMAIN DllMain = 1..Len(DllMain)
    BY DllMainFacts
  <2>2. 2 \in DOMAIN DllMain
    BY <2>1
  <2> QED BY <2>2, DllMainIs
<1> QED BY <1>1, <1>2, <1>4, <1>5 DEF LoaderInv

LEMMA LoaderStep ==
  ASSUME CoreInv, LoaderInv, [Next]_vars
  PROVE  LoaderInv'
<1>0. /\ ScriptInv /\ HookTypeOK /\ ChainsInv /\ PlanInv /\ RankInv /\ TurnInv /\ CallsInv
      /\ "client" \in Threads /\ "client" \in Callers /\ "main" \in Threads
      /\ script \in [Threads -> Seq(Ops)] /\ extensions \in Installations
  BY RuntimeAssumption DEF CoreInv, ChainInv, ChainsInv, ScriptInv
<1> DEFINE s == script["client"]
           r == script'["client"]
           Planned1 == \E i \in DOMAIN s : s[i] = Do("install", "loader")
           Planned2 == \E i \in DOMAIN r : r[i] = Do("install", "loader")
<1>d. Do("install", "loader").op = "install" /\ Do("install", "loader").x = "loader" /\ Do("install", "loader").part = "core"
  BY DoFields
<1>g. Grows
  BY ChainStep DEF CoreInv
<1>e. extensions' = extensions
  BY <1>0, HookSteps DEF Dropping, Installing, DoEnable, DoPatch, DoArm, DoStore, DoSpawn, EnterInit, LoadExtensions,
     EnterOther, Device, Proceed, Quiet, runtimevars
<1>1. Present' \subseteq Clients \cup Mains \cup Attached(extensions')
  <2>1. CASE links' = links
    BY <1>e, <2>1 DEF LoaderInv, Present
  <2>2. ASSUME NEW h \in Threads, Installing(h) PROVE Present' \subseteq Clients \cup Mains \cup Attached(extensions)
    <3> DEFINE d == script[h][1].x
    <3>1. Install(h, d)
      BY <2>2 DEF Installing
    <3>2. d \in Detours /\ h \in {"client", "main"} /\ d \in Planned(h)
      BY <1>0, <2>2, InstallKeepsPlans
    <3>3. Present' = Present \cup {d}
      BY <1>0, <3>1, <3>2, InstallMembers
    <3> HIDE DEF d
    <3>4. d \in Clients \cup Mains \cup Attached(extensions)
      BY <1>0, <3>2 DEF PlanInv
    <3> QED BY <3>3, <3>4 DEF LoaderInv
  <2>3. (\E h \in Threads : Installing(h)) \/ links' = links
    BY <1>0, HookSteps DEF Dropping, DoEnable, DoPatch, Patch, DoArm, Arm, DoStore, Store, DoSpawn, EnterInit, LoadExtensions,
       EnterOther, Device, Proceed, Quiet, hookvars
  <2> QED BY <1>e, <2>1, <2>2, <2>3
<1>2. loaded' => "init" \in patched' /\ head'["init"] = "loader"
  <2>1. ASSUME NEW t \in patched PROVE head'[t] = head[t]
    <3>1. CASE head' = head
      BY <3>1
    <3>2. ASSUME NEW h \in Threads, DoPatch(h) PROVE head'[t] = head[t]
      BY <1>0, <2>1, <3>2 DEF DoPatch, Patch, hookvars, HookTypeOK
    <3>3. head' = head \/ \E h \in Threads : DoPatch(h)
      BY <1>0, HookSteps DEF Dropping, Installing, Install, DoEnable, DoArm, Arm, DoStore, Store, DoSpawn, EnterInit, LoadExtensions,
         EnterOther, Device, Proceed, Quiet, hookvars
    <3> QED BY <3>1, <3>2, <3>3
  <2>2. CASE loaded' = loaded
    BY <1>g, <2>1, <2>2 DEF LoaderInv, Grows
  <2>3. CASE LoadExtensions
    <3>1. calls["client"].at = "loader"
      BY <2>3 DEF LoadExtensions
    <3>2. "init" \in patched
      BY <1>0, <3>1, InitTargets DEF CallsInv
    <3> QED BY <1>g, <2>1, <3>2, InitChain DEF Grows
  <2>4. loaded' = loaded \/ LoadExtensions
    BY <1>0, HookSteps DEF Dropping, Installing, DoEnable, DoPatch, DoArm, DoStore, DoSpawn, EnterInit,
       EnterOther, Device, Proceed, Quiet, runtimevars
  <2> QED BY <2>2, <2>3, <2>4
<1>3. ASSUME "loader" \notin Present' PROVE Planned2
  <2>0. "loader" \notin Present /\ Planned1
    BY <1>g, <1>3 DEF Grows, LoaderInv
  <2>1. PICK a \in DOMAIN s : s[a] = Do("install", "loader")
    BY <2>0
  <2>2. s \in Seq(Ops) /\ DOMAIN s = 1..Len(s) /\ Len(s) \in Nat /\ a \in 1..Len(s) /\ s # <<>>
    <3>1. s \in Seq(Ops)
      BY <1>0
    <3>2. DOMAIN <<>> = {}
      OBVIOUS
    <3> HIDE DEF s
    <3> QED BY <2>1, <3>1, <3>2
  <2>3. CASE r = s
    BY <2>0, <2>3
  <2>4. ASSUME NEW k \in 1..Len(s), Further("client", k), \A i \in 1..k : s[i] # Do("install", "loader") PROVE Planned2
    <3>1. \A j \in DOMAIN s : j > k => j - k \in DOMAIN r /\ r[j - k] = s[j]
      BY <1>0, <2>4, ShiftFacts
    <3> HIDE DEF s, r
    <3>2. ~(a \in 1..k)
      BY <2>1, <2>4
    <3>3. a > k
      BY <2>2, <3>2
    <3> QED BY <2>1, <3>1, <3>3
  <2>5. ASSUME NEW h \in Threads, NEW k \in 1..Len(script[h]), Further(h, k),
               h = "client" => \A i \in 1..k : s[i] # Do("install", "loader")
        PROVE  Planned2
    <3>1. CASE h = "client"
      BY <2>4, <2>5, <3>1
    <3>2. CASE h # "client"
      <4>1. r = s
        BY <1>0, <2>5, <3>2, ShiftFacts
      <4> QED BY <2>3, <4>1
    <3> QED BY <3>1, <3>2
  <2> HIDE DEF Planned2
  <2>6. ASSUME NEW h \in Threads, NEW op, Ready(h, op), Next1(h), op # "install" PROVE Planned2
    <3>1. Further(h, 1) /\ 1 \in 1..Len(script[h]) /\ Head(script[h]) = script[h][1]
      BY <1>0, <2>6, NextIsFurther DEF Ready
    <3>2. script[h][1].op # "install" /\ \A i \in 1..1 : i = 1
      BY <2>6, <3>1 DEF Ready
    <3>3. h = "client" => \A i \in 1..1 : s[i] # Do("install", "loader")
      BY <1>d, <3>2
    <3> QED BY <2>5, <3>1, <3>3
  <2>7. ~Refused("loader")
    <3>1. "init" \notin patched
      BY <2>0, InitChain
    <3> QED BY <3>1, InitTargets DEF Refused
  <2>8. ASSUME NEW h \in Threads, Dropping(h) PROVE Planned2
    <3>1. PICK k \in 1..Len(script[h]) : Further(h, k) /\ \A i \in 1..k :
                 script[h][i].op = "install" /\ script[h][i].part = "core" => Refused(script[h][i].x)
      BY <2>8 DEF Dropping
    <3>2. h = "client" => \A i \in 1..k : s[i] # Do("install", "loader")
      BY <1>d, <2>7, <3>1
    <3> QED BY <2>5, <3>1, <3>2
  <2>9. ASSUME NEW h \in Threads, Installing(h) PROVE Planned2
    <3> DEFINE d == script[h][1].x
    <3>1. Install(h, d) /\ Further(h, 1) /\ 1 \in 1..Len(script[h])
      BY <2>9 DEF Installing
    <3>2. d \in Detours
      BY <1>0, <2>9, InstallKeepsPlans
    <3>3. Present' = Present \cup {d}
      BY <1>0, <3>1, <3>2, InstallMembers
    <3>4. d # "loader"
      BY <1>3, <3>3
    <3>5. h = "client" => \A i \in 1..1 : s[i] # Do("install", "loader")
      <4>1. \A i \in 1..1 : i = 1
        OBVIOUS
      <4> QED BY <1>d, <3>4, <4>1
    <3> QED BY <2>5, <3>1, <3>5
  <2>10. ASSUME NEW h \in Threads, DoEnable(h) PROVE Planned2
    <3> DEFINE n == Len(chains)
    <3>1. /\ \A g \in Threads : g # h => script'[g] = script[g]
          /\ \A j \in DOMAIN script[h] : j > 1 => j + n \in DOMAIN script'[h] /\ script'[h][j + n] = script[h][j]
          /\ DOMAIN script[h] = 1..Len(script[h])
      BY <1>0, <2>10, EnableShift
    <3>2. CASE h # "client"
      BY <1>0, <2>3, <3>1, <3>2
    <3>3. CASE h = "client"
      <4>1. a # 1
        <5>1. Head(s) = s[1] /\ Head(s).op = "enable"
          BY <2>2, <2>10, <3>3, PopFacts DEF DoEnable, Ready
        <5> QED BY <1>d, <2>1, <5>1
      <4>2. a > 1
        BY <2>2, <4>1
      <4>3. a + n \in DOMAIN r /\ r[a + n] = s[a]
        BY <2>1, <3>1, <3>3, <4>2
      <4> QED BY <2>1, <4>3 DEF Planned2
    <3> QED BY <3>2, <3>3
  <2>11. ASSUME NEW h \in Threads, DoSpawn(h) PROVE Planned2
    <3>1. h = "client"
      BY <1>0, <2>11, SpawnKeepsPlans
    <3>2. Head(s) = s[1] /\ Head(s).op = "spawn" /\ 1 \in DOMAIN s
      BY <2>2, <2>11, <3>1, PopFacts DEF DoSpawn, Ready
    <3>3. 1 = Len(s)
      BY <1>0, <3>2 DEF PlanInv
    <3>4. a = 1
      <4> HIDE DEF s
      <4>1. DOMAIN s = 1..1
        BY <2>2, <3>3
      <4> QED BY <2>1, <4>1
    <3> QED BY <1>d, <2>1, <3>2, <3>4
  <2>12. ASSUME NEW h \in Threads, DoPatch(h) \/ DoArm(h) PROVE Planned2
    BY <2>6, <2>12 DEF DoPatch, DoArm
  <2>13. ASSUME NEW h \in Threads, DoStore(h) PROVE Planned2
    <3>1. script' = script
      BY <2>13 DEF DoStore, Store
    <3> QED BY <2>3, <3>1
  <2>14. CASE LoadExtensions
    BY <2>2, <2>14 DEF LoadExtensions, Free
  <2>15. CASE EnterInit \/ EnterOther \/ Device \/ Proceed \/ Quiet
    <3>1. script' = script
      BY <2>15 DEF EnterInit, EnterOther, Device, Proceed, Quiet
    <3> QED BY <2>3, <3>1
  <2> QED BY <1>0, <2>8, <2>9, <2>10, <2>11, <2>12, <2>13, <2>14, <2>15, HookSteps
<1> QED BY <1>1, <1>2, <1>3 DEF LoaderInv

\* The call that initialises the engine waits in the loader's detour while the
\* client's script runs, and the detours of the address are those it met and
\* those that it comes to.
MetInv ==
  ~broken /\ calls["client"].target = "init" =>
    /\ script["client"] # <<>> => calls["client"].at = "loader"
    /\ \A e \in Members(links["init"]) :
         \/ e \in Members(calls["client"].seen) \/ e = calls["client"].at
         \/ calls["client"].at \in Detours /\ Before(calls["client"].at, e)

LEMMA MetStep ==
  ASSUME CoreInv, OrderInv, CoverInv, LoaderInv, MetInv, [Next]_vars
  PROVE  MetInv'
<1>0. /\ ScriptInv /\ HookTypeOK /\ ChainsInv /\ PointersInv /\ PlanInv /\ RankInv /\ TurnInv /\ CallsInv
      /\ SortedInv /\ PendingInv
      /\ "client" \in Threads /\ "client" \in Callers /\ "main" \in Threads
      /\ script \in [Threads -> Seq(Ops)] /\ broken \in BOOLEAN
  BY RuntimeAssumption DEF CoreInv, ChainInv, ChainsInv, ScriptInv, OrderInv, HookTypeOK
<1> DEFINE k == calls["client"]
           s == links["init"]
           R == [target : Targets \cup {"none"}, at : Detours \cup {"none", "engine", "null"},
                 seen : Seq(Detours), due : SUBSET Detours]
<1>1. k \in R /\ calls \in [Callers -> R]
  BY <1>0 DEF CallsInv
<1>b. /\ \A x, y \in Present : Before(x, y)' <=> Before(x, y)
      /\ Present \subseteq Present' /\ HookTypeOK' /\ SortedInv'
  BY OrderStep, ChainStep DEF CoreInv, Grows, OrderInv, ChainsInv
<1>p. /\ s \in Seq(Detours) /\ \A e \in Members(s) : e \in Present /\ (e = "loader" \/ (loaded /\ e \in Attached(extensions)))
      /\ "init" \in patched => s[1] = "loader" /\ head["init"] = "loader" /\ "loader" \in Present
  BY InitChain
<1>a. k.at \in Detours => k.at \in Present /\ Target[k.at] \in patched /\ k.target = Target[k.at]
  BY <1>0 DEF CallsInv
<1>2. ASSUME calls' = calls, links'["init"] = links["init"], broken => broken',
             script["client"] = <<>> /\ script'["client"] # <<>> => k.at = "loader"
      PROVE  MetInv'
  <2> SUFFICES ASSUME ~broken', k.target = "init" PROVE MetInv'
    BY <1>2 DEF MetInv
  <2>1. /\ script["client"] # <<>> => k.at = "loader"
        /\ \A e \in Members(s) : e \in Members(k.seen) \/ e = k.at \/ (k.at \in Detours /\ Before(k.at, e))
    BY <1>2 DEF MetInv
  <2>2. ASSUME NEW e \in Members(s), k.at \in Detours, Before(k.at, e)
        PROVE  Priority[k.at] < Priority[e] \/ (Priority[k.at] = Priority[e] /\ rank'[k.at] < rank'[e])
    <3>1. PICK a \in Present : a = k.at
      BY <1>a, <2>2
    <3>2. Before(a, e)'
      BY <1>b, <1>p, <2>2, <3>1
    <3> QED BY <3>1, <3>2 DEF Before
  <2> QED BY <1>2, <2>1, <2>2 DEF MetInv, Members, Before
<1>3. ASSUME NEW h \in Threads, Installing(h) PROVE MetInv'
  <2> DEFINE d == script[h][1].x
  <2>1. Install(h, d) /\ script[h] # <<>> /\ calls' = calls
    BY <1>3 DEF Installing
  <2>2. d \in Detours /\ h \in {"client", "main"} /\ d \in Planned(h) /\ d \notin Present
    BY <1>0, <1>3, InstallKeepsPlans
  <2>3. /\ \A u \in Targets : u # Target[d] => links'[u] = links[u]
        /\ Members(links'[Target[d]]) = Members(links[Target[d]]) \cup {d}
        /\ Target[d] \in patched => links'[Target[d]][1] = links[Target[d]][1]
        /\ broken' = broken
    BY <1>0, <2>1, <2>2, InstallMembers DEF Install
  <2>s. script["client"] = <<>> => script'["client"] = <<>>
    <3>1. Further(h, 1) /\ 1 \in 1..Len(script[h])
      BY <1>3 DEF Installing
    <3>2. \A g \in Threads : g # h => script'[g] = script[g]
      BY <1>0, <3>1, ShiftFacts
    <3> QED BY <1>0, <2>1, <3>2
  <2> HIDE DEF d
  <2>4. CASE Target[d] # "init"
    BY <1>2, <2>1, <2>3, <2>4, <2>s, InitTargets
  <2>5. CASE Target[d] = "init"
    <3>1. h = "client"
      BY <1>0, <2>2, <2>5, InitTargets DEF PlanInv
    <3> SUFFICES ASSUME ~broken', k.target = "init" PROVE MetInv'
      BY <2>1 DEF MetInv
    <3>2. k.at = "loader"
      BY <2>1, <2>3, <3>1 DEF MetInv
    <3>3. "init" \in patched /\ "loader" \in Present
      BY <1>a, <3>2, InitTargets
    <3>4. links'["init"][1] = "loader" /\ d # "loader" /\ Members(links'["init"]) = Members(s) \cup {d}
      BY <1>p, <2>2, <2>3, <2>5, <3>3
    <3> DEFINE Then(x, y) == Priority[x] < Priority[y] \/ (Priority[x] = Priority[y] /\ rank'[x] < rank'[y])
    <3>5. Then("loader", d)
      <4>1. links'["init"] \in Seq(Detours)
        BY <1>b, InitTargets DEF HookTypeOK
      <4>2. PICK i \in 1..Len(links'["init"]) : d = links'["init"][i]
        <5>1. d \in Members(links'["init"])
          BY <3>4
        <5> QED BY <4>1, <5>1, MembersFacts
      <4>3. i # 1 /\ Len(links'["init"]) \in Nat /\ DOMAIN links'["init"] = 1..Len(links'["init"])
        BY <3>4, <4>1, <4>2
      <4>4. 1 \in DOMAIN links'["init"] /\ i \in DOMAIN links'["init"] /\ 1 < i
        BY <4>2, <4>3
      <4>5. \A x, y \in DOMAIN links'["init"] : x < y => Then(links'["init"][x], links'["init"][y])
        BY <1>b, InitTargets DEF SortedInv, Before
      <4>6. Then(links'["init"][1], links'["init"][i])
        BY <4>4, <4>5
      <4> QED BY <3>4, <4>2, <4>6
    <3>6. ASSUME NEW e \in Members(s) PROVE e \in Members(k.seen) \/ e = "loader" \/ Then("loader", e)
      <4>1. e \in Members(k.seen) \/ e = "loader" \/ Before("loader", e)
        BY <2>3, <3>2 DEF MetInv
      <4>2. ASSUME Before("loader", e) PROVE Then("loader", e)
        <5>1. e \in Present
          BY <1>p
        <5>2. PICK y \in Present : y = e
          BY <5>1
        <5>3. Before("loader", y)'
          BY <1>b, <3>3, <4>2, <5>2
        <5> QED BY <5>2, <5>3 DEF Before
      <4> QED BY <4>1, <4>2
    <3>7. k.at \in Detours
      BY <3>2, InitTargets
    <3>8. \A e \in Members(links'["init"]) : e \in Members(k.seen) \/ e = "loader" \/ Then("loader", e)
      BY <3>4, <3>5, <3>6
    <3>9. calls'["client"] = k
      BY <2>1
    <3> HIDE DEF k
    <3> QED BY <3>2, <3>7, <3>8, <3>9 DEF MetInv, Before
  <2> QED BY <2>4, <2>5
<1>4. CASE EnterInit
  <2>1. /\ Enter("client", "init") /\ script["client"] = <<>> /\ UNCHANGED <<script, links, rank, broken>>
    BY <1>4 DEF EnterInit, Free, hookvars
  <2> SUFFICES ASSUME ~broken PROVE MetInv'
    BY <2>1 DEF MetInv
  <2>0. DOMAIN <<>> = {}
    OBVIOUS
  <2>2. "loader" \in Present
    BY <2>0, <2>1 DEF LoaderInv
  <2>3. Covered("init")
    BY <2>2, InitTargets DEF CoverInv
  <2>4. "init" \in armed
    BY <2>0, <2>1, <2>3 DEF Covered
  <2>5. "init" \in patched
    BY <1>0, <2>4 DEF HookTypeOK
  <2>6. calls'["client"] = [target |-> "init", at |-> "loader", seen |-> <<>>, due |-> Linked("init")]
    <3>1. calls' = [calls EXCEPT !["client"] = [target |-> "init", at |-> head["init"], seen |-> <<>>, due |-> Linked("init")]]
      BY <2>1, <2>4 DEF Enter
    <3> QED BY <1>0, <1>1, <1>p, <2>5, <3>1
  <2>7. ASSUME NEW e \in Members(s) PROVE e = "loader" \/ Before("loader", e)
    <3>1. PICK i \in 1..Len(s) : e = s[i]
      BY <1>p, MembersFacts
    <3>2. Len(s) \in Nat /\ DOMAIN s = 1..Len(s)
      BY <1>p
    <3>3. CASE i = 1
      BY <1>p, <2>5, <3>1, <3>3
    <3>4. CASE i # 1
      <4>1. 1 \in DOMAIN s /\ i \in DOMAIN s /\ 1 < i
        BY <3>1, <3>2, <3>4
      <4> QED BY <1>0, <1>p, <2>5, <3>1, <4>1, InitTargets DEF SortedInv
    <3> QED BY <3>3, <3>4
  <2>8. "loader" \in Detours
    BY InitTargets
  <2> QED BY <2>1, <2>6, <2>7, <2>8 DEF MetInv, Members, Before
<1>5. ASSUME calls'["client"].target # "init" PROVE MetInv'
  BY <1>5 DEF MetInv
<1>6. CASE EnterOther
  <2>1. PICK t \in Targets \ (StorageOps \cup {"init", "drain", "upload"}) : Enter("client", t)
    BY <1>6 DEF EnterOther
  <2>2. calls'["client"].target = t
    <3>1. CASE t \in armed
      BY <1>0, <1>1, <2>1, <3>1 DEF Enter
    <3>2. CASE t \notin armed
      BY <1>0, <1>1, <2>1, <3>2 DEF Enter, NoCall
    <3> QED BY <3>1, <3>2
  <2> QED BY <1>5, <2>1, <2>2
<1>7. CASE Proceed
  <2>1. UNCHANGED <<links, rank, broken, script>> /\ script["client"] = <<>>
    BY <1>7 DEF Proceed, Free, hookvars
  <2>2. CASE Return("client")
    <3>1. calls'["client"].target = "none"
      BY <1>0, <1>1, <2>2 DEF Return, NoCall
    <3> QED BY <1>5, <3>1
  <2>3. CASE Forward("client")
    <3>1. /\ k.at \in Detours
          /\ calls' = [calls EXCEPT !["client"].seen = Append(@, k.at), !["client"].at = original[k.at]]
      BY <2>3 DEF Forward
    <3>2. /\ calls'["client"].target = k.target /\ calls'["client"].at = original[k.at]
          /\ calls'["client"].seen = Append(k.seen, k.at)
      BY <1>0, <1>1, <3>1
    <3> SUFFICES ASSUME ~broken, k.target = "init" PROVE MetInv'
      BY <2>1, <3>2 DEF MetInv
    <3>3. Members(Append(k.seen, k.at)) = Members(k.seen) \cup {k.at}
      BY <1>1, <3>1, AppendFacts
    <3>4. \A h \in Threads : stores[h] = <<>>
      <4>1. ~device
        BY <1>0, <3>1, HookAssumption DEF TurnInv
      <4>2. stores["main"] = <<>> /\ stores["client"] = <<>>
        BY <1>0, <2>1, <4>1 DEF TurnInv
      <4> QED BY <1>0, <4>2 DEF TurnInv
    <3>5. k.at \in Present /\ Target[k.at] = "init" /\ "init" \in patched
      BY <1>a, <3>1
    <3>6. k.at \in Members(s)
      BY <3>5 DEF Present
    <3>7. PICK i \in 1..Len(s) : k.at = s[i]
      BY <1>p, <3>6, MembersFacts
    <3>8. i \in DOMAIN s
      BY <1>p, <3>7
    <3>9. original[k.at] = Follower(s, i)
      <4>1. ~Unset(k.at)
        BY <3>4 DEF Unset
      <4> QED BY <1>0, <3>5, <3>7, <3>8, <4>1 DEF PendingInv
    <3>10. ASSUME NEW e \in Members(s), Before(k.at, e)
           PROVE  e = original[k.at] \/ (original[k.at] \in Detours /\ Before(original[k.at], e))
      <4>1. Follower(s, i) \in Detours /\ ~Before(e, Follower(s, i))
        BY <1>0, <3>7, <3>8, <3>10, InitTargets, FollowersSkipNobody
      <4>2. original[k.at] \in Members(s)
        <5>1. original[k.at] \in Present /\ Target[original[k.at]] = "init"
          BY <1>0, <3>1, <3>5, <3>9, <4>1 DEF PointersInv, HookTypeOK
        <5> QED BY <5>1 DEF Present
      <4> QED BY <1>0, <3>9, <4>1, <4>2, InitTargets, ChainOrder
    <3>11. \A e \in Members(s) : e \in Members(k.seen) \cup {k.at} \/ e = original[k.at]
                                 \/ (original[k.at] \in Detours /\ Before(original[k.at], e))
      <4>1. \A e \in Members(s) : e \in Members(k.seen) \/ e = k.at \/ Before(k.at, e)
        BY DEF MetInv
      <4> QED BY <3>10, <4>1
    <3> HIDE DEF k
    <3> QED BY <2>1, <3>2, <3>3, <3>11 DEF MetInv, Before
  <2> QED BY <1>7, <2>2, <2>3 DEF Proceed
<1>8. ASSUME NEW h \in Threads, Dropping(h) \/ DoEnable(h) \/ DoPatch(h) \/ DoArm(h) \/ DoStore(h) \/ DoSpawn(h)
      PROVE  MetInv'
  <2>1. calls' = calls /\ links' = links /\ (broken => broken')
    <3>1. calls' = calls /\ links' = links
      BY <1>8 DEF Dropping, DoEnable, DoPatch, Patch, DoArm, Arm, DoStore, Store, DoSpawn, hookvars
    <3>2. broken' = broken \/ broken' = TRUE
      BY <1>8 DEF Dropping, DoEnable, DoPatch, Patch, DoArm, Arm, DoStore, Store, DoSpawn, hookvars
    <3> QED BY <3>1, <3>2
  <2>2. script["client"] = <<>> => script'["client"] = <<>>
    <3>1. ASSUME script["client"] = <<>>, h = "client" PROVE script'["client"] = <<>>
      BY <1>8, <3>1 DEF Dropping, DoEnable, DoPatch, DoArm, DoStore, Store, DoSpawn, Ready
    <3>2. ASSUME h # "client" PROVE script'["client"] = script["client"]
      <4>1. ASSUME NEW j \in 1..Len(script[h]), Further(h, j) PROVE script'["client"] = script["client"]
        BY <1>0, <3>2, <4>1, ShiftFacts
      <4>2. CASE Dropping(h)
        BY <4>1, <4>2 DEF Dropping
      <4>3. CASE DoPatch(h) \/ DoArm(h)
        <5>1. script[h] # <<>> /\ Next1(h)
          BY <4>3 DEF DoPatch, DoArm, Ready
        <5> QED BY <1>0, <4>1, <5>1, NextIsFurther
      <4>4. CASE DoEnable(h)
        BY <1>0, <3>2, <4>4, EnableShift
      <4>5. CASE DoStore(h)
        BY <4>5 DEF DoStore, Store
      <4>6. CASE DoSpawn(h)
        BY <1>0, <3>2, <4>6, SpawnKeepsPlans
      <4> QED BY <1>8, <4>2, <4>3, <4>4, <4>5, <4>6
    <3> QED BY <3>1, <3>2
  <2> QED BY <1>2, <2>1, <2>2
<1>9. CASE LoadExtensions
  <2>1. calls' = calls /\ links' = links /\ broken' = broken /\ k.at = "loader"
    BY <1>9 DEF LoadExtensions, hookvars
  <2> QED BY <1>2, <2>1
<1>10. CASE Device \/ Quiet
  <2>1. calls' = calls /\ links' = links /\ broken' = broken /\ script' = script
    BY <1>10 DEF Device, Quiet, hookvars
  <2> QED BY <1>2, <2>1
<1> QED BY <1>0, <1>3, <1>4, <1>6, <1>7, <1>8, <1>9, <1>10, HookSteps

LEMMA CoverInvariant ==
  ASSUME ~MayTimeOut PROVE Spec => [](CoreInv /\ OrderInv /\ CoverInv /\ LoaderInv /\ MetInv)
<1>1. CoreInv /\ OrderInv /\ CoverInv /\ LoaderInv /\ MetInv /\ [Next]_vars => CoverInv' /\ LoaderInv' /\ MetInv'
  BY CoverStep, LoaderStep, MetStep
<1>2. Init => MetInv
  <2>1. Init => calls["client"] = NoCall
    BY RuntimeAssumption DEF Init, CallInit
  <2> QED BY <2>1 DEF MetInv, NoCall
<1>3. Spec => [](CoreInv /\ OrderInv /\ WalkInv)
  BY WalkInvariant
<1> QED BY <1>1, <1>2, <1>3, InitCover, InitLoader, PTL DEF Spec

\* ExtensionsPrecedeEngine, if MainThread waits for as long as it takes: when
\* EngineInitDetour calls the engine, all that LoadAll attached is armed, and
\* the detours of engine initialisation have all been met (Extensions.cpp:285).
THEOREM ExtensionsComeFirst ==
  ASSUME ~MayTimeOut PROVE Spec => []ExtensionsPrecedeEngine
<1>1. ASSUME CoreInv, CoverInv, LoaderInv, MetInv PROVE ExtensionsPrecedeEngine
  <2> SUFFICES ASSUME Started, ~broken
               PROVE  /\ \A d \in Attached(extensions) : rank[d] > 0 => Target[d] \in armed
                      /\ \A c \in Callers : calls[c].target = "init" =>
                           Members(links["init"]) \subseteq Members(calls[c].seen)
    BY DEF ExtensionsPrecedeEngine
  <2>0. RankInv /\ TurnInv /\ CallsInv /\ extensions \in Installations
    BY <1>1 DEF CoreInv, ChainInv, ScriptInv
  <2>1. script["client"] = <<>> /\ DOMAIN <<>> = {}
    BY <2>0 DEF TurnInv
  <2>2. \A t : Covered(t) => t \in armed
    BY <2>1 DEF Covered
  <2>3. ASSUME NEW d \in Attached(extensions), rank[d] > 0 PROVE Target[d] \in armed
    <3>1. d \in Detours /\ d \notin Mains
      <4>1. Attached(extensions) \subseteq Detours
        BY <2>0, RuntimeAssumption
      <4> QED BY <2>0, <4>1, InitTargets
    <3>2. d \in Present
      BY <2>0, <2>3, <3>1 DEF RankInv
    <3> QED BY <1>1, <2>2, <3>1, <3>2 DEF CoverInv
  <2>4. \A c \in Callers : c # "client" => calls[c] = NoCall
    BY <2>0 DEF CallsInv
  <2>5. calls["client"].target = "init" /\ calls["client"].at = "engine"
    BY <2>4 DEF Started, NoCall
  <2>6. \A e \in Members(links["init"]) : e \in Detours /\ e # "engine"
    BY <1>1, InitChain, HookAssumption DEF Present
  <2>7. Members(links["init"]) \subseteq Members(calls["client"].seen)
    BY <1>1, <2>5, <2>6, HookAssumption DEF MetInv
  <2>8. ASSUME NEW c \in Callers, calls[c].target = "init" PROVE Members(links["init"]) \subseteq Members(calls[c].seen)
    <3>1. c = "client"
      BY <2>4, <2>8 DEF NoCall
    <3> QED BY <2>7, <3>1
  <2> QED BY <2>3, <2>8
<1> QED BY <1>1, CoverInvariant, PTL
=============================================================================
