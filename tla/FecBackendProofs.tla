-------------------------- MODULE FecBackendProofs --------------------------
(***************************************************************************)
(* Theorems of FecBackend for any number of threads, processes and         *)
(* machines, any set of builds, and processes killed at any step.          *)
(***************************************************************************)
EXTENDS FecBackend, TLAPS

-----------------------------------------------------------------------------
(* The order of preference.                                                *)

LEMMA PreferenceIs ==
  /\ DOMAIN Preference = {"hexagon", "fast", "sse", "neon", "portable"}
  /\ Preference["hexagon"] = 1 /\ Preference["fast"] = 2 /\ Preference["sse"] = 3
  /\ Preference["neon"] = 4 /\ Preference["portable"] = 5
  BY DEF Preference

LEMMA PreferenceOrder ==
  /\ \A b \in Builds : Preference[b] \in 1 .. 5
  /\ \A b, c \in Builds : Preference[b] = Preference[c] => b = c
  /\ \A b \in Builds : Preference[b] <= Preference["portable"]
<1>1. Builds \subseteq {"hexagon", "fast", "sse", "neon", "portable"}
  BY PreferenceIs, FecBackendAssumption
<1> QED BY <1>1, PreferenceIs

LEMMA PreferredIs ==
  \A S \in SUBSET Builds : S # {} =>
    /\ Preferred(S) \in S
    /\ \A c \in S : Preference[Preferred(S)] <= Preference[c]
<1> TAKE S \in SUBSET Builds
<1> HAVE S # {}
<1>1. S \subseteq {"hexagon", "fast", "sse", "neon", "portable"}
  BY PreferenceIs, FecBackendAssumption
<1>2. \E b \in S : \A c \in S : Preference[b] <= Preference[c]
  <2>1. CASE "hexagon" \in S
    BY <1>1, <2>1, PreferenceIs
  <2>2. CASE "hexagon" \notin S /\ "fast" \in S
    BY <1>1, <2>2, PreferenceIs
  <2>3. CASE "hexagon" \notin S /\ "fast" \notin S /\ "sse" \in S
    BY <1>1, <2>3, PreferenceIs
  <2>4. CASE "hexagon" \notin S /\ "fast" \notin S /\ "sse" \notin S /\ "neon" \in S
    BY <1>1, <2>4, PreferenceIs
  <2>5. CASE "hexagon" \notin S /\ "fast" \notin S /\ "sse" \notin S /\ "neon" \notin S
    <3>1. S = {"portable"}
      BY <1>1, <2>5
    <3> QED BY <3>1, PreferenceIs
  <2> QED BY <2>1, <2>2, <2>3, <2>4, <2>5
<1> QED BY <1>2 DEF Preferred

(* What has been asked before the first build, and after a build was       *)
(* passed over.                                                            *)
LEMMA FirstBuild == Preferred(Builds) \in Builds /\ Before(Preferred(Builds)) = {}
<1>1. Builds # {} /\ Builds \in SUBSET Builds
  BY FecBackendAssumption
<1>2. /\ Preferred(Builds) \in Builds
      /\ \A c \in Builds : Preference[Preferred(Builds)] <= Preference[c]
  BY <1>1, PreferredIs
<1> QED BY <1>2, PreferenceOrder DEF Before

LEMMA NextBuild ==
  ASSUME NEW b \in Builds, b # "portable"
  PROVE  /\ Preferred(After(b)) \in Builds
         /\ Before(Preferred(After(b))) = Before(b) \cup {b}
<1> DEFINE next == Preferred(After(b))
<1>1. "portable" \in Builds /\ Preference["portable"] > Preference[b]
  BY FecBackendAssumption, PreferenceOrder
<1>2. After(b) # {} /\ After(b) \in SUBSET Builds
  BY <1>1 DEF After
<1>3. next \in After(b) /\ \A c \in After(b) : Preference[next] <= Preference[c]
  BY <1>2, PreferredIs
<1> HIDE DEF next
<1>4. next \in Builds /\ Preference[next] > Preference[b]
  BY <1>3 DEF After
<1>5. ASSUME NEW c \in Builds
      PROVE  Preference[c] < Preference[next] <=> Preference[c] < Preference[b] \/ c = b
  <2>1. /\ Preference[c] \in Nat /\ Preference[b] \in Nat /\ Preference[next] \in Nat
        /\ Preference[c] = Preference[b] => c = b
    BY <1>4, PreferenceOrder
  <2>2. Preference[c] > Preference[b] => Preference[next] <= Preference[c]
    BY <1>3 DEF After
  <2> QED BY <1>4, <2>1, <2>2
<1>6. Before(next) = Before(b) \cup {b}
  BY <1>5 DEF Before
<1> QED BY <1>4, <1>6 DEF next

LEMMA LastBuild == Builds = Before("portable") \cup {"portable"}
  BY FecBackendAssumption, PreferenceOrder DEF Before

-----------------------------------------------------------------------------
(* Types.                                                                  *)

Making == {"compiling", "writing", "replacing"}
Probing == {"examining", "loading"} \cup Making
Busy == {"asking", "locking", "constructing"} \cup Probing

Kept(S) == [Processes -> [Builds -> S]]

TypeOK ==
  /\ host \in [Processes -> Host]
  /\ checked \in Kept(BOOLEAN)
  /\ lib \in Kept(Library \cup {NONE})
  /\ lock \in Kept(Threads \cup {NONE})
  /\ cache \in [Names -> Library \cup {NONE}]
  /\ tmp \in [Slots -> Library \cup {NONE}]
  /\ pc \in [Threads -> Busy \cup {"idle", "raised"}]
  /\ want \in [Threads -> {"conv", "rs"}]
  /\ asked \in [Threads -> Builds]
  /\ codec \in [Threads -> Builds \cup {"python", NONE}]
  /\ raced \in [Threads -> BOOLEAN]
  /\ misled \in [Processes -> BOOLEAN]
  /\ collided \in [Names -> BOOLEAN]

(* The process of a thread, and the machine it runs on. *)
LEMMA ThreadFacts ==
  ASSUME TypeOK, NEW t \in Threads
  PROVE  /\ ProcessOf[t] \in Processes /\ asked[t] \in Builds
         /\ host[ProcessOf[t]] \in Host
         /\ host[ProcessOf[t]].machine \in Machines
         /\ Arch(host[ProcessOf[t]].machine) \in {"x86", "arm", "riscv"}
         /\ NameFor(t) \in Names /\ SlotFor(t) \in Slots
<1>1. ProcessOf[t] \in Processes /\ asked[t] \in Builds
  BY DEF Processes, TypeOK
<1>2. host[ProcessOf[t]] \in Host
  BY <1>1 DEF TypeOK
<1>3. host[ProcessOf[t]].machine \in Machines /\ host[ProcessOf[t]].pid \in Pids
  BY <1>2 DEF Host
<1> QED BY <1>1, <1>2, <1>3 DEF Machines, Arch, Names, Slots, NameFor, SlotFor

LEMMA SetType ==
  ASSUME NEW S, NEW f \in Kept(S), NEW p \in Processes, NEW b \in Builds, NEW value \in S
  PROVE  Set(f, p, b, value) \in Kept(S)
  BY DEF Kept, Set

LEMMA SetAt ==
  ASSUME NEW S, NEW f \in Kept(S), NEW p \in Processes, NEW b \in Builds, NEW value
  PROVE  /\ Set(f, p, b, value)[p][b] = value
         /\ \A q \in Processes, c \in Builds :
              (q = p /\ c = b) \/ Set(f, p, b, value)[q][c] = f[q][c]
  BY DEF Kept, Set

(* A call that is answered moves its own thread only.                      *)
LEMMA AnsweredElsewhere ==
  ASSUME TypeOK, NEW t \in Threads, NEW yes, Answered(t, yes)
  PROVE  \A u \in Threads \ {t} :
           pc'[u] = pc[u] /\ asked'[u] = asked[u] /\ codec'[u] = codec[u]
<1>1. /\ \E place : pc' = [pc EXCEPT ![t] = place]
      /\ asked' = asked \/ \E b : asked' = [asked EXCEPT ![t] = b]
      /\ codec' = codec \/ \E c : codec' = [codec EXCEPT ![t] = c]
  BY DEF Answered, Goto, Has
<1>2. t \in DOMAIN pc /\ DOMAIN pc = Threads /\ DOMAIN asked = Threads /\ DOMAIN codec = Threads
  BY DEF TypeOK
<1> QED BY ONLY <1>1, <1>2

LEMMA AnsweredType ==
  ASSUME TypeOK, NEW t \in Threads, NEW yes, Answered(t, yes)
  PROVE  /\ pc' \in [Threads -> Busy \cup {"idle", "raised"}]
         /\ asked' \in [Threads -> Builds]
         /\ codec' \in [Threads -> Builds \cup {"python", NONE}]
<1>1. asked[t] # "portable" => Preferred(After(asked[t])) \in Builds
  BY NextBuild DEF TypeOK
<1> QED BY <1>1 DEF Answered, Goto, Has, TypeOK, Busy

LEMMA EndedType ==
  ASSUME TypeOK, NEW t \in Threads, NEW library \in Library \cup {NONE}, Ended(t, library)
  PROVE  /\ checked' \in Kept(BOOLEAN)
         /\ lib' \in Kept(Library \cup {NONE})
         /\ lock' \in Kept(Threads \cup {NONE})
         /\ pc' \in [Threads -> Busy \cup {"idle", "raised"}]
         /\ asked' \in [Threads -> Builds]
         /\ codec' \in [Threads -> Builds \cup {"python", NONE}]
<1>1. ProcessOf[t] \in Processes /\ asked[t] \in Builds
  BY ThreadFacts
<1>2. Answered(t, library # NONE)
  BY DEF Ended
<1> QED BY <1>1, <1>2, AnsweredType, SetType DEF Ended, TypeOK

LEMMA FinishedType ==
  ASSUME NEW file \in Library \cup {NONE}, NEW p
  PROVE  /\ Finished(p, file) \in Library \cup {NONE}
         /\ Finished(p, file) = NONE <=> file = NONE
         /\ file # NONE => Finished(p, file).arch = file.arch
         /\ file # NONE /\ file.whole => Finished(p, file).whole
         /\ file # NONE /\ file.by = p => Finished(p, file).whole
<1>1. CASE file # NONE /\ file.by = p
  <2>1. Finished(p, file) \in Library /\ Finished(p, file).arch = file.arch /\ Finished(p, file).whole
    BY <1>1 DEF Finished, Library
  <2> QED BY <1>1, <2>1, FecBackendAssumption
<1>2. CASE ~(file # NONE /\ file.by = p)
  BY <1>2 DEF Finished
<1> QED BY <1>1, <1>2

LEMMA OrphanedType ==
  ASSUME NEW file \in Library \cup {NONE}, NEW p
  PROVE  /\ Orphaned(p, file) \in Library \cup {NONE}
         /\ Orphaned(p, file) = NONE <=> file = NONE
         /\ file # NONE => /\ Orphaned(p, file).arch = file.arch
                           /\ Orphaned(p, file).whole = file.whole
                           /\ file.by # p => Orphaned(p, file).by = file.by
<1>1. CASE file # NONE /\ file.by = p
  <2>1. /\ Orphaned(p, file) \in Library /\ Orphaned(p, file).arch = file.arch
        /\ Orphaned(p, file).whole = file.whole
    BY <1>1 DEF Orphaned, Library
  <2> QED BY <1>1, <2>1, FecBackendAssumption
<1>2. CASE ~(file # NONE /\ file.by = p)
  BY <1>2 DEF Orphaned
<1> QED BY <1>1, <1>2

LEMMA InitTypeOK == Init => TypeOK
<1> SUFFICES ASSUME Init PROVE TypeOK
  OBVIOUS
<1>1. host \in [Processes -> Host]
  BY FecBackendAssumption DEF Init
<1>2. "portable" \in Builds
  BY FecBackendAssumption
<1> QED BY <1>1, <1>2 DEF Init, TypeOK, Kept, Fresh

LEMMA NextTypeOK == ASSUME TypeOK, [Next]_vars PROVE TypeOK'
<1>1. ASSUME NEW t \in Threads, NEW code \in {"conv", "rs"}, NewCodec(t, code)
      PROVE  TypeOK'
  <2>1. Preferred(Builds) \in Builds /\ "portable" \in Builds
    BY FirstBuild, FecBackendAssumption
  <2> QED BY <1>1, <2>1 DEF NewCodec, Has, Goto, TypeOK, globals, Busy
<1>2. ASSUME NEW t \in Threads, Ask(t) PROVE TypeOK'
  <2>1. raced' \in [Threads -> BOOLEAN]
    BY <1>2 DEF Ask, TypeOK
  <2>2. CASE checked[ProcessOf[t]][asked[t]]
    BY <1>2, <2>1, <2>2, AnsweredType DEF Ask, TypeOK, globals
  <2>3. CASE ~checked[ProcessOf[t]][asked[t]]
    BY <1>2, <2>1, <2>3 DEF Ask, TypeOK, globals, Goto, Busy
  <2> QED BY <2>2, <2>3
<1>3. ASSUME NEW t \in Threads, Lock(t) PROVE TypeOK'
  <2>1. CASE checked[ProcessOf[t]][asked[t]]
    BY <1>3, <2>1, AnsweredType DEF Lock, TypeOK
  <2>2. CASE ~checked[ProcessOf[t]][asked[t]]
    <3>1. lock' = Set(lock, ProcessOf[t], asked[t], t)
          /\ checked' = Set(checked, ProcessOf[t], asked[t], TRUE)
      BY <1>3, <2>2 DEF Lock
    <3>2. lock' \in Kept(Threads \cup {NONE}) /\ checked' \in Kept(BOOLEAN)
      BY <3>1, ThreadFacts, SetType DEF TypeOK
    <3> QED BY <1>3, <2>2, <3>2 DEF Lock, TypeOK, Goto, Busy, Probing
  <2> QED BY <2>1, <2>2
<1>4. ASSUME NEW t \in Threads, Examine(t) PROVE TypeOK'
  <2>1. CASE ~Gate(asked[t], host[ProcessOf[t]].machine)
    BY <1>4, <2>1, EndedType DEF Examine, TypeOK
  <2>2. CASE Gate(asked[t], host[ProcessOf[t]].machine)
    <3>1. collided' \in [Names -> BOOLEAN]
      BY <1>4, <2>2, ThreadFacts DEF Examine, TypeOK, Contended
    <3> QED BY <1>4, <2>2, <3>1 DEF Examine, TypeOK, globals, Goto, Busy, Probing, Making
  <2> QED BY <2>1, <2>2
<1>5. ASSUME NEW t \in Threads, Opened(t) PROVE TypeOK'
  <2>1. tmp' \in [Slots -> Library \cup {NONE}]
    BY <1>5, ThreadFacts DEF Opened, TypeOK, Library
  <2> QED BY <1>5, <2>1 DEF Opened, TypeOK, globals, Goto, Busy, Probing, Making
<1>6. ASSUME NEW t \in Threads, Compiled(t) PROVE TypeOK'
  <2>1. tmp' \in [Slots -> Library \cup {NONE}] /\ cache' \in [Names -> Library \cup {NONE}]
    BY <1>6, ThreadFacts, FinishedType DEF Compiled, TypeOK
  <2> QED BY <1>6, <2>1 DEF Compiled, TypeOK, globals, Goto, Busy, Probing, Making
<1>7. ASSUME NEW t \in Threads, CompileFails(t) PROVE TypeOK'
  <2>1. tmp' \in [Slots -> Library \cup {NONE}]
    BY <1>7, ThreadFacts DEF CompileFails, TypeOK
  <2> QED BY <1>7, <2>1, EndedType DEF CompileFails, TypeOK
<1>12. ASSUME NEW t \in Threads, Replace(t) PROVE TypeOK'
  <2>1. CASE tmp[SlotFor(t)] = NONE
    BY <1>12, <2>1, EndedType DEF Replace, TypeOK
  <2>2. CASE tmp[SlotFor(t)] # NONE
    <3>1. tmp' \in [Slots -> Library \cup {NONE}] /\ cache' \in [Names -> Library \cup {NONE}]
      BY <1>12, <2>2, ThreadFacts DEF Replace, TypeOK
    <3> QED BY <1>12, <2>2, <3>1 DEF Replace, TypeOK, globals, Goto, Busy, Probing, Making
  <2> QED BY <2>1, <2>2
<1>8. ASSUME NEW t \in Threads, Load(t) PROVE TypeOK'
  <2> DEFINE file == cache[NameFor(t)]
  <2>1. file \in Library \cup {NONE} /\ NONE \in Library \cup {NONE}
    BY ThreadFacts DEF TypeOK
  <2> DEFINE found == IF file.whole /\ file.arch = Arch(host[ProcessOf[t]].machine)
                      THEN file ELSE NONE
  <2>2. found \in Library \cup {NONE} /\ Ended(t, found)
    BY <1>8, <2>1 DEF Load
  <2>3. misled' \in [Processes -> BOOLEAN]
    BY <1>8 DEF Load, TypeOK
  <2>4. UNCHANGED <<host, cache, tmp, want, raced, collided>>
    BY <1>8 DEF Load
  <2> HIDE DEF found
  <2> QED BY <2>2, <2>3, <2>4, EndedType DEF TypeOK
<1>9. ASSUME NEW t \in Threads, Construct(t) PROVE TypeOK'
  BY <1>9 DEF Construct, Has, Goto, TypeOK, globals
<1>10. ASSUME NEW p \in Mortal, Kill(p) PROVE TypeOK'
  <2>1. p \in Processes /\ "portable" \in Builds
    BY FecBackendAssumption
  <2>2. Fresh \in [Builds -> {NONE}]
    BY DEF Fresh
  <2>3. checked' \in Kept(BOOLEAN)
    BY <1>10, <2>1 DEF Kill, TypeOK, Kept
  <2>4. lib' \in Kept(Library \cup {NONE}) /\ lock' \in Kept(Threads \cup {NONE})
    BY <1>10, <2>1, <2>2 DEF Kill, TypeOK, Kept
  <2>5. tmp' \in [Slots -> Library \cup {NONE}] /\ cache' \in [Names -> Library \cup {NONE}]
    BY <1>10, OrphanedType DEF Kill, TypeOK
  <2> QED BY <1>10, <2>1, <2>3, <2>4, <2>5 DEF Kill, TypeOK
<1>11. CASE UNCHANGED vars
  BY <1>11 DEF vars, globals, TypeOK
<1> QED
  BY <1>1, <1>2, <1>3, <1>4, <1>5, <1>6, <1>7, <1>8, <1>9, <1>10, <1>11, <1>12 DEF Next

-----------------------------------------------------------------------------
(* The files.                                                              *)

(* What lies in the cache directory is whole, unless two wrote under one   *)
(* temporary name, and but for the portable library of the architecture    *)
(* its name says; so is what lies under a temporary name.                  *)
NameInv(b, m) ==
  cache[SoName(b, m)] # NONE =>
    /\ cache[SoName(b, m)].whole \/ collided[SoName(b, m)]
    /\ b # "portable" => cache[SoName(b, m)].arch = Arch(m)

SlotInv(b, m, i) ==
  tmp[<<SoName(b, m), i>>] # NONE /\ b # "portable" =>
    tmp[<<SoName(b, m), i>>].arch = Arch(m)

(* Until two meet under a temporary name, what lies there is what its one  *)
(* writer has made of it.                                                  *)
FileInv(t) ==
  pc[t] \in Making /\ ~collided[NameFor(t)] =>
    /\ ~Contended(t)
    /\ pc[t] = "writing" => tmp[SlotFor(t)] # NONE /\ tmp[SlotFor(t)].by = ProcessOf[t]
    /\ pc[t] = "replacing" => tmp[SlotFor(t)] # NONE /\ tmp[SlotFor(t)].whole

FilesInv ==
  /\ TypeOK
  /\ \A b \in Builds, m \in Machines : NameInv(b, m)
  /\ \A b \in Builds, m \in Machines, i \in Pids : SlotInv(b, m, i)
  /\ \A t \in Threads : FileInv(t)

(* A build and a machine of its kind are all that a name says. *)
LEMMA NamesTell ==
  ASSUME NEW b \in Builds, NEW m \in Machines, NEW c \in Builds, NEW n \in Machines,
         SoName(b, m) = SoName(c, n)
  PROVE  b = c /\ (b # "portable" => Arch(m) = Arch(n))
  BY DEF SoName

LEMMA NameOf ==
  ASSUME TypeOK, NEW t \in Threads
  PROVE  /\ NameFor(t) = SoName(asked[t], host[ProcessOf[t]].machine)
         /\ SlotFor(t) = <<SoName(asked[t], host[ProcessOf[t]].machine), host[ProcessOf[t]].pid>>
         /\ host[ProcessOf[t]].machine \in Machines /\ host[ProcessOf[t]].pid \in Pids
  BY ThreadFacts DEF NameFor, SlotFor, Host

(* What the step of a thread leaves alone of other threads' files. *)
FileFrame(t) ==
  /\ host' = host
  /\ \A u \in Threads \ {t} : pc'[u] = pc[u] /\ asked'[u] = asked[u]
  /\ \A s \in Slots : tmp'[s] = tmp[s] \/ (pc[t] \in Making /\ s = SlotFor(t))
  /\ \A n \in Names : collided[n] => collided'[n]
  /\ pc'[t] \in Making =>
       /\ asked'[t] = asked[t]
       /\ pc[t] \in Making \/ (Contended(t) => collided'[NameFor(t)])

LEMMA OtherFilesKept ==
  ASSUME TypeOK, NEW t \in Threads, FileFrame(t), NEW u \in Threads \ {t}, FileInv(u)
  PROVE  FileInv(u)'
<1>1. /\ NameFor(u)' = NameFor(u) /\ SlotFor(u)' = SlotFor(u) /\ pc'[u] = pc[u]
      /\ NameFor(u) \in Names /\ SlotFor(u) \in Slots
      /\ \A v \in Threads \ {t} : pc'[v] = pc[v] /\ SlotFor(v)' = SlotFor(v)
      /\ SlotFor(u) = SlotFor(t) => NameFor(u) = NameFor(t)
  BY ThreadFacts DEF FileFrame, NameFor, SlotFor
<1> SUFFICES ASSUME pc[u] \in Making, ~collided'[NameFor(u)]
             PROVE  FileInv(u)'
  BY <1>1 DEF FileInv
<1>2. ~collided[NameFor(u)] /\ ~Contended(u)
  BY <1>1 DEF FileFrame, FileInv
<1>3. pc[t] \in Making => SlotFor(t) # SlotFor(u)
  BY <1>2 DEF Contended, Making
<1>4. tmp'[SlotFor(u)] = tmp[SlotFor(u)]
  BY <1>1, <1>3 DEF FileFrame
<1>5. ASSUME pc'[t] \in Making, SlotFor(t)' = SlotFor(u) PROVE FALSE
  <2>1. SlotFor(t) = SlotFor(u)
    BY <1>5 DEF FileFrame, SlotFor, NameFor
  <2>2. Contended(t)
    BY <2>1 DEF Contended, Making
  <2>3. collided'[NameFor(u)]
    BY <1>1, <1>3, <1>5, <2>1, <2>2 DEF FileFrame
  <2> QED BY <2>3
<1>6. ~Contended(u)'
  <2> SUFFICES ASSUME NEW v \in Threads \ {u}, pc'[v] \in Making, SlotFor(v)' = SlotFor(u)'
               PROVE  FALSE
    BY DEF Contended, Making
  <2>1. v # t
    BY <1>1, <1>5
  <2> QED BY <1>1, <1>2, <2>1 DEF Contended, Making
<1> QED BY <1>1, <1>2, <1>4, <1>6 DEF FileInv

(* An answer ends whatever was being made. *)
LEMMA AnsweredPlace ==
  ASSUME TypeOK, NEW t \in Threads, NEW yes, Answered(t, yes)
  PROVE  pc'[t] \notin Making
<1>1. t \in DOMAIN pc
  BY DEF TypeOK
<1> QED BY <1>1 DEF Answered, Goto, Has, Making

(* A step that leaves the files alone. *)
LEMMA NoFileStep ==
  ASSUME FilesInv, NEW t \in Threads, UNCHANGED <<host, cache, tmp, collided>>,
         pc'[t] \notin Making, TypeOK',
         \A u \in Threads \ {t} : pc'[u] = pc[u] /\ asked'[u] = asked[u]
  PROVE  FilesInv'
<1>1. FileFrame(t) /\ FileInv(t)'
  BY DEF FileFrame, FileInv
<1>2. \A u \in Threads : FileInv(u)'
  BY <1>1, OtherFilesKept DEF FilesInv
<1> QED BY <1>2 DEF FilesInv, NameInv, SlotInv

(* A step of a thread that is at its files. *)
LEMMA OwnFileStep ==
  ASSUME FilesInv, TypeOK', NEW t \in Threads, pc[t] \in Making \cup {"examining"},
         FileFrame(t), FileInv(t)', collided' = collided,
         \A n \in Names : cache'[n] = cache[n] \/ n = NameFor(t),
         LET m == host[ProcessOf[t]].machine
             made == tmp'[SlotFor(t)]
             there == cache'[NameFor(t)]
         IN  /\ made # NONE /\ asked[t] # "portable" => made.arch = Arch(m)
             /\ there # NONE => /\ there.whole \/ collided'[NameFor(t)]
                                /\ asked[t] # "portable" => there.arch = Arch(m)
  PROVE  FilesInv'
<1> DEFINE m == host[ProcessOf[t]].machine
<1>1. /\ TypeOK /\ m \in Machines /\ asked[t] \in Builds
      /\ NameFor(t) = SoName(asked[t], m) /\ SlotFor(t) = <<SoName(asked[t], m), host[ProcessOf[t]].pid>>
  BY ThreadFacts, NameOf DEF FilesInv
<1>2. \A u \in Threads : FileInv(u)'
  BY <1>1, OtherFilesKept DEF FilesInv
<1>3. ASSUME NEW c \in Builds, NEW n \in Machines PROVE NameInv(c, n)'
  <2>1. SoName(c, n) \in Names /\ NameInv(c, n)
    BY DEF Names, FilesInv
  <2>2. CASE SoName(c, n) = NameFor(t)
    <3>1. c = asked[t] /\ (c # "portable" => Arch(n) = Arch(m))
      BY <1>1, <2>2, NamesTell
    <3> QED BY <2>2, <3>1 DEF NameInv
  <2>3. CASE SoName(c, n) # NameFor(t)
    <3>1. cache'[SoName(c, n)] = cache[SoName(c, n)]
      BY <2>1, <2>3
    <3> QED BY <2>1, <3>1 DEF NameInv
  <2> QED BY <2>2, <2>3
<1>4. ASSUME NEW c \in Builds, NEW n \in Machines, NEW i \in Pids PROVE SlotInv(c, n, i)'
  <2>1. <<SoName(c, n), i>> \in Slots /\ SlotInv(c, n, i)
    BY DEF Names, Slots, FilesInv
  <2>2. CASE <<SoName(c, n), i>> = SlotFor(t)
    <3>1. c = asked[t] /\ (c # "portable" => Arch(n) = Arch(m))
      BY <1>1, <2>2, NamesTell
    <3> QED BY <2>2, <3>1 DEF SlotInv
  <2>3. CASE <<SoName(c, n), i>> # SlotFor(t)
    <3>1. tmp'[<<SoName(c, n), i>>] = tmp[<<SoName(c, n), i>>]
      BY <2>1, <2>3 DEF FileFrame
    <3> QED BY <2>1, <3>1 DEF SlotInv
  <2> QED BY <2>2, <2>3
<1> QED BY <1>2, <1>3, <1>4 DEF FilesInv

(* What a thread at its files finds there. *)
LEMMA FoundThere ==
  ASSUME FilesInv, NEW t \in Threads
  PROVE  /\ cache[NameFor(t)] # NONE =>
              /\ cache[NameFor(t)].whole \/ collided[NameFor(t)]
              /\ asked[t] # "portable" => cache[NameFor(t)].arch = Arch(host[ProcessOf[t]].machine)
         /\ tmp[SlotFor(t)] # NONE /\ asked[t] # "portable" =>
              tmp[SlotFor(t)].arch = Arch(host[ProcessOf[t]].machine)
         /\ cache[NameFor(t)] \in Library \cup {NONE}
         /\ tmp[SlotFor(t)] \in Library \cup {NONE}
<1> DEFINE m == host[ProcessOf[t]].machine
<1>1. /\ TypeOK /\ m \in Machines /\ asked[t] \in Builds /\ host[ProcessOf[t]].pid \in Pids
      /\ NameFor(t) = SoName(asked[t], m) /\ SlotFor(t) = <<SoName(asked[t], m), host[ProcessOf[t]].pid>>
      /\ NameFor(t) \in Names /\ SlotFor(t) \in Slots
  BY ThreadFacts, NameOf DEF FilesInv
<1>2. NameInv(asked[t], m) /\ SlotInv(asked[t], m, host[ProcessOf[t]].pid)
  BY <1>1 DEF FilesInv
<1> QED BY <1>1, <1>2 DEF NameInv, SlotInv, TypeOK

LEMMA ExamineFiles ==
  ASSUME FilesInv, TypeOK', NEW t \in Threads, Examine(t)
  PROVE  FilesInv'
<1>1. /\ TypeOK /\ t \in DOMAIN pc /\ pc[t] = "examining" /\ NameFor(t) \in Names
      /\ UNCHANGED <<host, cache, tmp>> /\ "examining" \notin Making
  BY ThreadFacts DEF FilesInv, TypeOK, Examine, Making
<1>2. CASE Ended(t, NONE) /\ UNCHANGED collided
  <2>1. pc'[t] \notin Making /\ \A u \in Threads \ {t} : pc'[u] = pc[u] /\ asked'[u] = asked[u]
    BY <1>1, <1>2, AnsweredPlace, AnsweredElsewhere DEF Ended
  <2> QED BY <1>1, <1>2, <2>1, NoFileStep
<1>3. CASE Goto(t, "loading") /\ UNCHANGED <<collided, asked>>
  BY <1>1, <1>3, NoFileStep DEF Goto, Making
<1>4. CASE /\ Goto(t, "compiling") /\ UNCHANGED asked
           /\ collided' = [collided EXCEPT ![NameFor(t)] = @ \/ Contended(t)]
  <2>1. /\ pc'[t] = "compiling" /\ \A u \in Threads \ {t} : pc'[u] = pc[u] /\ asked'[u] = asked[u]
        /\ collided'[NameFor(t)] = (collided[NameFor(t)] \/ Contended(t))
        /\ \A n \in Names : collided[n] => collided'[n]
    BY <1>1, <1>4 DEF Goto, TypeOK
  <2>2. FileFrame(t)
    BY <1>1, <1>4, <2>1 DEF FileFrame
  <2>3. NameFor(t)' = NameFor(t) /\ \A u \in Threads : SlotFor(u)' = SlotFor(u)
    BY <1>1, <1>4 DEF NameFor, SlotFor
  <2>4. Contended(t)' => Contended(t)
    BY <2>1, <2>3 DEF Contended
  <2>5. FileInv(t)'
    BY <2>1, <2>3, <2>4 DEF FileInv
  <2>6. \A u \in Threads : FileInv(u)'
    BY <1>1, <2>2, <2>5, OtherFilesKept DEF FilesInv
  <2>7. ASSUME NEW c \in Builds, NEW m \in Machines PROVE NameInv(c, m)'
    <3>1. SoName(c, m) \in Names /\ NameInv(c, m)
      BY DEF Names, FilesInv
    <3> QED BY <1>1, <2>1, <3>1 DEF NameInv
  <2> QED BY <1>1, <2>6, <2>7 DEF FilesInv, SlotInv
<1> QED BY <1>2, <1>3, <1>4 DEF Examine

LEMMA OpenedFiles ==
  ASSUME FilesInv, TypeOK', NEW t \in Threads, Opened(t)
  PROVE  FilesInv'
<1> DEFINE p == ProcessOf[t]
           new == [arch |-> Arch(host[p].machine), whole |-> FALSE, by |-> p]
<1>1. /\ TypeOK /\ t \in DOMAIN pc /\ SlotFor(t) \in DOMAIN tmp
      /\ pc[t] = "compiling" /\ pc[t] \in Making /\ "writing" \in Making
      /\ UNCHANGED <<host, cache, asked, collided>> /\ FileInv(t)
      /\ p \in Processes /\ Arch(host[p].machine) \in {"x86", "arm", "riscv"}
  BY ThreadFacts DEF FilesInv, TypeOK, Opened, Making
<1>2. /\ pc' = [pc EXCEPT ![t] = "writing"] /\ tmp' = [tmp EXCEPT ![SlotFor(t)] = new]
      /\ new.by = p /\ new.arch = Arch(host[p].machine) /\ new \in Library
  BY <1>1 DEF Opened, Goto, Library
<1> HIDE DEF new
<1>3. /\ pc'[t] = "writing" /\ \A u \in Threads \ {t} : pc'[u] = pc[u]
      /\ tmp'[SlotFor(t)] = new /\ \A s \in Slots : tmp'[s] = tmp[s] \/ s = SlotFor(t)
      /\ new # NONE
  BY <1>1, <1>2, FecBackendAssumption DEF TypeOK
<1>4. FileFrame(t)
  BY <1>1, <1>3 DEF FileFrame
<1>5. NameFor(t)' = NameFor(t) /\ \A u \in Threads : SlotFor(u)' = SlotFor(u)
  BY <1>1 DEF NameFor, SlotFor
<1>6. Contended(t)' <=> Contended(t)
  BY <1>3, <1>5 DEF Contended
<1>7. FileInv(t)'
  BY <1>1, <1>2, <1>3, <1>5, <1>6 DEF FileInv
<1> QED BY <1>1, <1>2, <1>3, <1>4, <1>7, FoundThere, OwnFileStep

LEMMA CompiledFiles ==
  ASSUME FilesInv, TypeOK', NEW t \in Threads, Compiled(t)
  PROVE  FilesInv'
<1> DEFINE p == ProcessOf[t]
<1>1. /\ TypeOK /\ t \in DOMAIN pc /\ SlotFor(t) \in DOMAIN tmp /\ NameFor(t) \in DOMAIN cache
      /\ pc[t] = "writing" /\ pc[t] \in Making /\ "replacing" \in Making
      /\ UNCHANGED <<host, asked, collided>> /\ FileInv(t)
  BY ThreadFacts DEF FilesInv, TypeOK, Compiled, Making
<1>2. /\ pc'[t] = "replacing" /\ \A u \in Threads \ {t} : pc'[u] = pc[u]
      /\ tmp'[SlotFor(t)] = Finished(p, tmp[SlotFor(t)])
      /\ \A s \in Slots : tmp'[s] = tmp[s] \/ s = SlotFor(t)
      /\ cache'[NameFor(t)] = Finished(p, cache[NameFor(t)])
      /\ \A n \in Names : cache'[n] = cache[n] \/ n = NameFor(t)
  BY <1>1 DEF Compiled, Goto, TypeOK
<1>3. FileFrame(t)
  BY <1>1, <1>2 DEF FileFrame
<1>4. NameFor(t)' = NameFor(t) /\ \A u \in Threads : SlotFor(u)' = SlotFor(u)
  BY <1>1 DEF NameFor, SlotFor
<1>5. Contended(t)' <=> Contended(t)
  BY <1>1, <1>2, <1>4 DEF Contended
<1>6. /\ tmp[SlotFor(t)] \in Library \cup {NONE} /\ cache[NameFor(t)] \in Library \cup {NONE}
  BY FoundThere
<1>7. FileInv(t)'
  BY <1>1, <1>2, <1>4, <1>5, <1>6, FinishedType DEF FileInv
<1>8. /\ tmp'[SlotFor(t)] # NONE => tmp[SlotFor(t)] # NONE /\ tmp'[SlotFor(t)].arch = tmp[SlotFor(t)].arch
      /\ cache'[NameFor(t)] # NONE =>
           /\ cache[NameFor(t)] # NONE /\ cache'[NameFor(t)].arch = cache[NameFor(t)].arch
           /\ cache[NameFor(t)].whole => cache'[NameFor(t)].whole
  BY <1>2, <1>6, FinishedType
<1> QED BY <1>1, <1>2, <1>3, <1>7, <1>8, FoundThere, OwnFileStep

LEMMA CompileFailsFiles ==
  ASSUME FilesInv, TypeOK', NEW t \in Threads, CompileFails(t)
  PROVE  FilesInv'
<1>1. /\ TypeOK /\ SlotFor(t) \in DOMAIN tmp
      /\ pc[t] \in Making /\ Answered(t, NONE # NONE)
      /\ UNCHANGED <<host, cache, collided>>
      /\ tmp' = tmp \/ tmp' = [tmp EXCEPT ![SlotFor(t)] = NONE]
  BY ThreadFacts DEF FilesInv, TypeOK, CompileFails, Ended, Making
<1>2. pc'[t] \notin Making /\ \A u \in Threads \ {t} : pc'[u] = pc[u] /\ asked'[u] = asked[u]
  BY <1>1, AnsweredPlace, AnsweredElsewhere
<1>3. /\ tmp'[SlotFor(t)] \in {tmp[SlotFor(t)], NONE}
      /\ \A s \in Slots : tmp'[s] = tmp[s] \/ s = SlotFor(t)
  BY <1>1 DEF TypeOK
<1>4. FileFrame(t) /\ FileInv(t)'
  BY <1>1, <1>2, <1>3 DEF FileFrame, FileInv
<1> QED BY <1>1, <1>3, <1>4, FoundThere, OwnFileStep

LEMMA ReplaceFiles ==
  ASSUME FilesInv, TypeOK', NEW t \in Threads, Replace(t)
  PROVE  FilesInv'
<1>1. /\ TypeOK /\ t \in DOMAIN pc /\ SlotFor(t) \in DOMAIN tmp /\ NameFor(t) \in DOMAIN cache
      /\ pc[t] = "replacing" /\ pc[t] \in Making /\ "loading" \notin Making
      /\ UNCHANGED <<host, collided>> /\ FileInv(t)
  BY ThreadFacts DEF FilesInv, TypeOK, Replace, Making
<1>2. CASE tmp[SlotFor(t)] = NONE
  <2>1. Answered(t, NONE # NONE) /\ UNCHANGED <<cache, tmp>>
    BY <1>2 DEF Replace, Ended
  <2>2. pc'[t] \notin Making /\ \A u \in Threads \ {t} : pc'[u] = pc[u] /\ asked'[u] = asked[u]
    BY <1>1, <2>1, AnsweredPlace, AnsweredElsewhere
  <2> QED BY <1>1, <2>1, <2>2, NoFileStep
<1>3. CASE tmp[SlotFor(t)] # NONE
  <2>1. /\ pc'[t] = "loading" /\ asked' = asked /\ \A u \in Threads \ {t} : pc'[u] = pc[u]
        /\ tmp'[SlotFor(t)] = NONE /\ \A s \in Slots : tmp'[s] = tmp[s] \/ s = SlotFor(t)
        /\ cache'[NameFor(t)] = tmp[SlotFor(t)]
        /\ \A n \in Names : cache'[n] = cache[n] \/ n = NameFor(t)
    BY <1>1, <1>3 DEF Replace, Goto, TypeOK
  <2>2. FileFrame(t) /\ FileInv(t)'
    BY <1>1, <2>1 DEF FileFrame, FileInv
  <2>3. tmp[SlotFor(t)].whole \/ collided[NameFor(t)]
    BY <1>1 DEF FileInv
  <2> QED BY <1>1, <2>1, <2>2, <2>3, FoundThere, OwnFileStep
<1> QED BY <1>2, <1>3

(* The files of a killed process stay as they are. *)
LEMMA KillFiles ==
  ASSUME FilesInv, TypeOK', NEW p \in Mortal, Kill(p)
  PROVE  FilesInv'
<1>1. /\ TypeOK /\ UNCHANGED <<host, collided>>
      /\ \A s \in Slots : tmp'[s] = Orphaned(p, tmp[s]) /\ tmp[s] \in Library \cup {NONE}
      /\ \A n \in Names : cache'[n] = Orphaned(p, cache[n]) /\ cache[n] \in Library \cup {NONE}
      /\ \A u \in Threads : IF ProcessOf[u] = p THEN pc'[u] = "idle"
                            ELSE pc'[u] = pc[u] /\ asked'[u] = asked[u]
  BY DEF FilesInv, Kill, TypeOK
<1>2. ASSUME NEW c \in Builds, NEW m \in Machines PROVE NameInv(c, m)'
  <2>1. SoName(c, m) \in Names /\ NameInv(c, m)
    BY DEF Names, FilesInv
  <2> QED BY <1>1, <2>1, OrphanedType DEF NameInv
<1>3. ASSUME NEW c \in Builds, NEW m \in Machines, NEW i \in Pids PROVE SlotInv(c, m, i)'
  <2>1. <<SoName(c, m), i>> \in Slots /\ SlotInv(c, m, i)
    BY DEF Names, Slots, FilesInv
  <2> QED BY <1>1, <2>1, OrphanedType DEF SlotInv
<1>4. ASSUME NEW u \in Threads PROVE FileInv(u)'
  <2>1. CASE ProcessOf[u] = p
    BY <1>1, <2>1 DEF FileInv, Making
  <2>2. CASE ProcessOf[u] # p
    <3>1. /\ pc'[u] = pc[u] /\ NameFor(u)' = NameFor(u) /\ SlotFor(u)' = SlotFor(u)
          /\ SlotFor(u) \in Slots /\ FileInv(u)
      BY <1>1, <2>2, ThreadFacts DEF NameFor, SlotFor, FilesInv
    <3>2. \A v \in Threads : pc'[v] \in Making => pc[v] \in Making /\ SlotFor(v)' = SlotFor(v)
      BY <1>1 DEF Making, NameFor, SlotFor
    <3>3. Contended(u)' => Contended(u)
      BY <3>1, <3>2 DEF Contended, Making
    <3> QED BY <1>1, <2>2, <3>1, <3>3, OrphanedType DEF FileInv
  <2> QED BY <2>1, <2>2
<1> QED BY <1>2, <1>3, <1>4 DEF FilesInv

LEMMA InitFilesInv == Init => FilesInv
<1> SUFFICES ASSUME Init PROVE FilesInv
  OBVIOUS
<1>1. TypeOK /\ \A t \in Threads : pc[t] \notin Making
  BY InitTypeOK DEF Init, Making
<1>2. \A b \in Builds, m \in Machines : SoName(b, m) \in Names
  BY DEF Names
<1>3. \A b \in Builds, m \in Machines : cache[SoName(b, m)] = NONE
  BY <1>2 DEF Init
<1>4. \A b \in Builds, m \in Machines, i \in Pids : tmp[<<SoName(b, m), i>>] = NONE
  BY <1>2 DEF Init, Slots
<1> QED BY <1>1, <1>3, <1>4 DEF FilesInv, NameInv, SlotInv, FileInv

LEMMA NextFilesInv == ASSUME FilesInv, [Next]_vars PROVE FilesInv'
<1>1. TypeOK /\ TypeOK'
  BY NextTypeOK DEF FilesInv
<1>2. \A t \in Threads : t \in DOMAIN pc /\ t \in DOMAIN asked
  BY <1>1 DEF TypeOK
<1>3. ASSUME NEW t \in Threads, NEW code \in {"conv", "rs"}, NewCodec(t, code) PROVE FilesInv'
  <2>1. pc'[t] \notin Making /\ \A u \in Threads \ {t} : pc'[u] = pc[u] /\ asked'[u] = asked[u]
    BY <1>1, <1>3 DEF NewCodec, Has, Goto, Making, TypeOK
  <2> QED BY <1>1, <1>3, <2>1, NoFileStep DEF NewCodec
<1>4. ASSUME NEW t \in Threads, Ask(t) PROVE FilesInv'
  <2>1. UNCHANGED <<host, cache, tmp, collided>>
    BY <1>4 DEF Ask
  <2>2. CASE checked[ProcessOf[t]][asked[t]]
    <3>1. Answered(t, lib[ProcessOf[t]][asked[t]] # NONE)
      BY <1>4, <2>2 DEF Ask
    <3> QED BY <1>1, <2>1, <3>1, AnsweredPlace, AnsweredElsewhere, NoFileStep
  <2>3. CASE ~checked[ProcessOf[t]][asked[t]]
    <3>1. pc'[t] \notin Making /\ \A u \in Threads \ {t} : pc'[u] = pc[u] /\ asked'[u] = asked[u]
      BY <1>1, <1>4, <2>3 DEF Ask, Goto, Making, TypeOK
    <3> QED BY <1>1, <2>1, <3>1, NoFileStep
  <2> QED BY <2>2, <2>3
<1>5. ASSUME NEW t \in Threads, Lock(t) PROVE FilesInv'
  <2>1. UNCHANGED <<host, cache, tmp, collided>>
    BY <1>5 DEF Lock
  <2>2. CASE checked[ProcessOf[t]][asked[t]]
    <3>1. Answered(t, lib[ProcessOf[t]][asked[t]] # NONE)
      BY <1>5, <2>2 DEF Lock
    <3> QED BY <1>1, <2>1, <3>1, AnsweredPlace, AnsweredElsewhere, NoFileStep
  <2>3. CASE ~checked[ProcessOf[t]][asked[t]]
    <3>1. pc'[t] \notin Making /\ \A u \in Threads \ {t} : pc'[u] = pc[u] /\ asked'[u] = asked[u]
      BY <1>1, <1>5, <2>3 DEF Lock, Goto, Making, TypeOK
    <3> QED BY <1>1, <2>1, <3>1, NoFileStep
  <2> QED BY <2>2, <2>3
<1>6. ASSUME NEW t \in Threads, Examine(t) PROVE FilesInv'
  BY <1>1, <1>6, ExamineFiles
<1>7. ASSUME NEW t \in Threads, Opened(t) PROVE FilesInv'
  BY <1>1, <1>7, OpenedFiles
<1>8. ASSUME NEW t \in Threads, Compiled(t) PROVE FilesInv'
  BY <1>1, <1>8, CompiledFiles
<1>9. ASSUME NEW t \in Threads, CompileFails(t) PROVE FilesInv'
  BY <1>1, <1>9, CompileFailsFiles
<1>10. ASSUME NEW t \in Threads, Replace(t) PROVE FilesInv'
  BY <1>1, <1>10, ReplaceFiles
<1>11. ASSUME NEW t \in Threads, Load(t) PROVE FilesInv'
  <2>1. UNCHANGED <<host, cache, tmp, collided>> /\ \E library : Answered(t, library # NONE)
    BY <1>11 DEF Load, Ended
  <2> QED BY <1>1, <2>1, AnsweredPlace, AnsweredElsewhere, NoFileStep
<1>12. ASSUME NEW t \in Threads, Construct(t) PROVE FilesInv'
  <2>1. pc'[t] \notin Making /\ \A u \in Threads \ {t} : pc'[u] = pc[u] /\ asked'[u] = asked[u]
    BY <1>1, <1>12 DEF Construct, Has, Goto, Making, TypeOK
  <2> QED BY <1>1, <1>12, <2>1, NoFileStep DEF Construct
<1>13. ASSUME NEW p \in Mortal, Kill(p) PROVE FilesInv'
  BY <1>1, <1>13, KillFiles
<1>14. CASE UNCHANGED vars
  <2>1. UNCHANGED <<host, cache, tmp, pc, asked, collided>>
    BY <1>14 DEF vars
  <2> QED BY <1>1, <2>1 DEF FilesInv, NameInv, SlotInv, FileInv, Contended, NameFor, SlotFor
<1> QED
  BY <1>3, <1>4, <1>5, <1>6, <1>7, <1>8, <1>9, <1>10, <1>11, <1>12, <1>13, <1>14 DEF Next

LEMMA FilesInductive == Spec => []FilesInv
  BY InitFilesInv, NextFilesInv, PTL DEF Spec

-----------------------------------------------------------------------------
(* The inductive invariant.                                                *)

MachineOf(p) == host[p].machine

(* What excuses process p from build b, for its life. *)
Refused(p, b) ==
  \/ b \notin host[p].compiles
  \/ b = "portable" /\ misled[p]
  \/ collided[SoName(b, MachineOf(p))]

Excused(p, b) == Gate(b, MachineOf(p)) /\ Accepts(b, p) => Refused(p, b)

(* A probe happens once: until it is begun nothing is held, until it ends  *)
(* no library is there, and what it leaves is its build's library or a     *)
(* reason.                                                                 *)
ProbeInv(p, b) ==
  /\ ~checked[p][b] => lib[p][b] = NONE /\ lock[p][b] = NONE
  /\ lock[p][b] # NONE => lib[p][b] = NONE
  /\ lib[p][b] # NONE =>
       Gate(b, MachineOf(p)) /\ lib[p][b].arch = Arch(MachineOf(p))
  /\ checked[p][b] /\ lock[p][b] = NONE /\ lib[p][b] = NONE =>
       ~Gate(b, MachineOf(p)) \/ Refused(p, b)

(* A thread's probe is its own until it ends; the builds before the one it *)
(* asks for are excused.                                                   *)
ProberInv(t) ==
  LET p == ProcessOf[t]  b == asked[t]
  IN  /\ pc[t] \in Probing => lock[p][b] = t
      /\ pc[t] \in Probing \ {"examining"} => Gate(b, MachineOf(p))
      /\ pc[t] = "loading" => cache[SoName(b, MachineOf(p))] # NONE

AskerInv(t) ==
  LET p == ProcessOf[t]  b == asked[t]
  IN  /\ pc[t] = "constructing" => lib[p][b] # NONE
      /\ codec[t] \in Builds => lib[p][codec[t]] # NONE
      /\ pc[t] \in Busy /\ want[t] = "rs" => b = "portable"
      /\ pc[t] \in Busy /\ want[t] = "conv" /\ host[p].forced = "" /\ ~raced[t] =>
           \A x \in Before(b) : Excused(p, x)
      /\ codec[t] # NONE /\ host[p].forced = "" /\ ~raced[t] =>
           \A x \in Better(codec[t], t) : Refused(p, x)

IInv ==
  /\ TypeOK
  /\ \A p \in Processes, b \in Builds : ProbeInv(p, b)
  /\ \A t \in Threads : ProberInv(t) /\ AskerInv(t)

(* What a step of thread t leaves alone, or only adds to. *)
Frame(t) ==
  /\ host' = host
  /\ \A u \in Threads \ {t} :
       /\ pc'[u] = pc[u] /\ want'[u] = want[u] /\ asked'[u] = asked[u]
       /\ codec'[u] = codec[u] /\ raced'[u] = raced[u]
  /\ \A q \in Processes, c \in Builds :
       \/ q = ProcessOf[t] /\ c = asked[t]
       \/ /\ lib'[q][c] = lib[q][c] /\ checked'[q][c] = checked[q][c]
          /\ lock'[q][c] = lock[q][c]
  /\ \A q \in Processes, c \in Builds :
       /\ lib[q][c] # NONE => lib'[q][c] # NONE
       /\ \A u \in Threads \ {t} : lock[q][c] = u => lock'[q][c] = u
  /\ \A n \in Names : cache[n] # NONE => cache'[n] # NONE
  /\ \A q \in Processes : misled[q] => misled'[q]
  /\ \A n \in Names : collided[n] => collided'[n]

(* A reason stays one. *)
LEMMA RefusedKept ==
  ASSUME TypeOK, host' = host, NEW p \in Processes, misled[p] => misled'[p],
         \A n \in Names : collided[n] => collided'[n], NEW x \in Builds
  PROVE  Refused(p, x) => Refused(p, x)'
<1>1. SoName(x, MachineOf(p)) \in Names
  <2>1. host[p] \in Host
    BY DEF TypeOK
  <2>2. MachineOf(p) \in Machines
    BY <2>1 DEF MachineOf, Host
  <2> QED BY <2>2 DEF Names
<1> QED BY <1>1 DEF Refused, MachineOf

LEMMA ExcusedKept ==
  ASSUME TypeOK, host' = host, NEW p \in Processes, misled[p] => misled'[p],
         \A n \in Names : collided[n] => collided'[n], NEW x \in Builds
  PROVE  Excused(p, x) => Excused(p, x)'
  BY RefusedKept DEF Excused, MachineOf, Accepts

(* The other threads, and the other probes, keep their invariants. *)
LEMMA OthersKept ==
  ASSUME TypeOK, NEW t \in Threads, Frame(t), NEW u \in Threads \ {t},
         ProberInv(u), AskerInv(u)
  PROVE  ProberInv(u)' /\ AskerInv(u)'
<1> DEFINE p == ProcessOf[u]
<1>1. /\ p \in Processes /\ asked[u] \in Builds /\ host' = host
      /\ SoName(asked[u], MachineOf(p)) \in Names
  BY ThreadFacts DEF Frame, MachineOf, NameFor
<1>2. /\ pc'[u] = pc[u] /\ want'[u] = want[u] /\ asked'[u] = asked[u]
      /\ codec'[u] = codec[u] /\ raced'[u] = raced[u]
  BY DEF Frame
<1>3. /\ \A c \in Builds : lib[p][c] # NONE => lib'[p][c] # NONE
      /\ \A c \in Builds : lock[p][c] = u => lock'[p][c] = u
      /\ \A n \in Names : cache[n] # NONE => cache'[n] # NONE
      /\ misled[p] => misled'[p]
  BY <1>1 DEF Frame
<1>4. "portable" \in Builds
  BY FecBackendAssumption
<1>5. \A x \in Builds : Refused(p, x) => Refused(p, x)'
  BY <1>1, <1>3, RefusedKept DEF Frame
<1>9. \A x \in Builds : Excused(p, x) => Excused(p, x)'
  BY <1>1, <1>3, ExcusedKept DEF Frame
<1>6. Better(codec[u], u)' = Better(codec[u], u)
  BY <1>1, <1>2 DEF Better, Accepts
<1>7. ProberInv(u)'
  BY <1>1, <1>2, <1>3 DEF ProberInv, MachineOf, Probing, Making
<1>8. AskerInv(u)'
  BY <1>1, <1>2, <1>3, <1>4, <1>5, <1>6, <1>9 DEF AskerInv, Before, Better
<1> QED BY <1>7, <1>8

LEMMA ProbesKept ==
  ASSUME TypeOK, NEW t \in Threads, Frame(t), NEW q \in Processes, NEW c \in Builds,
         ProbeInv(q, c), ~(q = ProcessOf[t] /\ c = asked[t])
  PROVE  ProbeInv(q, c)'
<1>1. /\ lib'[q][c] = lib[q][c] /\ checked'[q][c] = checked[q][c]
      /\ lock'[q][c] = lock[q][c] /\ host' = host
  BY DEF Frame
<1>2. Refused(q, c) => Refused(q, c)'
  BY <1>1, RefusedKept DEF Frame
<1> QED BY <1>1, <1>2 DEF ProbeInv, MachineOf

(* What an answer leads to, if a refusal has a reason. *)
LEMMA AnsweredAsker ==
  ASSUME TypeOK, NEW t \in Threads, NEW yes \in BOOLEAN, Answered(t, yes), AskerInv(t),
         pc[t] \in Busy, host' = host, want' = want,
         raced[t] => raced'[t],
         \A c \in Builds : lib[ProcessOf[t]][c] # NONE => lib'[ProcessOf[t]][c] # NONE,
         misled[ProcessOf[t]] => misled'[ProcessOf[t]],
         \A n \in Names : collided[n] => collided'[n],
         yes => lib'[ProcessOf[t]][asked[t]] # NONE,
         NEW b \in Builds, b = asked[t],
         ~yes => \/ raced'[t]
                 \/ ~Gate(b, MachineOf(ProcessOf[t]))
                 \/ Refused(ProcessOf[t], b)'
  PROVE  ProberInv(t)' /\ AskerInv(t)'
<1> DEFINE p == ProcessOf[t]
<1>0. "portable" \in Builds /\ "python" \notin Builds /\ "" \notin Builds
  BY FecBackendAssumption, PreferenceIs
<1>1. /\ p \in Processes /\ want[t] \in {"conv", "rs"}
      /\ t \in DOMAIN pc /\ t \in DOMAIN codec /\ t \in DOMAIN asked
  BY ThreadFacts DEF TypeOK
<1>2. \A x \in Builds : Refused(p, x) => Refused(p, x)'
  BY <1>1, RefusedKept
<1>3. \A x \in Builds : Excused(p, x) => Excused(p, x)'
  BY <1>1, ExcusedKept
<1>4. Better(codec[t], t)' = Better(codec[t]', t)
  BY DEF Better, Accepts
<1>5. \A x : Gate(x, MachineOf(p))' <=> Gate(x, MachineOf(p))
  BY DEF MachineOf
<1>6. \A x : Accepts(x, p)' <=> Accepts(x, p)
  BY DEF Accepts
<1>7. Accepts("portable", p) /\ Gate("portable", MachineOf(p))
  BY DEF Accepts, Gate
<1>8. pc'[t] \notin Probing => ProberInv(t)'
  BY DEF ProberInv, Probing, Making
<1>13. Better(codec[t], t) \subseteq Builds /\ Before(b) \subseteq Builds
  BY <1>0 DEF Better, Before
<1>9. CASE yes /\ Accepts(b, p)
  <2>1. pc'[t] = "constructing" /\ asked' = asked /\ codec' = codec
    BY <1>1, <1>9 DEF Answered, Goto
  <2>2. \A x \in Better(codec[t], t)' : x \in Better(codec[t], t)
    BY <2>1 DEF Better, Accepts
  <2>3. AskerInv(t)'
    BY <1>1, <1>2, <1>3, <1>9, <1>13, <2>1, <2>2 DEF AskerInv, Before, Busy, Making
  <2> QED BY <1>8, <2>1, <2>3 DEF Probing, Making
<1>10. CASE ~(yes /\ Accepts(b, p)) /\ want[t] = "conv" /\ host[p].forced # ""
  <2>1. pc'[t] = "raised" /\ asked' = asked /\ codec' = codec
    BY <1>1, <1>10 DEF Answered, Goto
  <2>2. AskerInv(t)'
    BY <1>1, <1>10, <2>1 DEF AskerInv, Busy, Probing, Making
  <2> QED BY <1>8, <2>1, <2>2 DEF Probing, Making
<1>11. CASE /\ ~(yes /\ Accepts(b, p)) /\ ~(want[t] = "conv" /\ host[p].forced # "")
            /\ want[t] = "rs" \/ b = "portable"
  <2>1. pc'[t] = "idle" /\ asked' = asked /\ codec'[t] = "python"
    BY <1>1, <1>11 DEF Answered, Has, Goto
  <2>2. b = "portable"
    BY <1>1, <1>11 DEF AskerInv
  <2>3. raced'[t] \/ Refused(p, "portable")'
    BY <1>7, <1>11, <2>2
  <2>4. ASSUME host'[p].forced = "", ~raced'[t], NEW x \in Better("python", t)'
        PROVE  Refused(p, x)'
    <3>1. CASE want[t] = "rs"
      BY <2>3, <2>4, <3>1 DEF Better
    <3>2. CASE want[t] = "conv"
      <4>1. x \in Builds /\ Gate(x, MachineOf(p)) /\ Accepts(x, p)
        BY <2>4, <3>2 DEF Better, MachineOf, Accepts
      <4>2. CASE x \in Before("portable")
        <5>1. Excused(p, x)
          BY <2>2, <2>4, <3>2, <4>2 DEF AskerInv
        <5> QED BY <1>2, <4>1, <5>1 DEF Excused
      <4>3. CASE x = "portable"
        BY <2>3, <2>4, <4>3
      <4> QED BY <4>1, <4>2, <4>3, LastBuild
    <3> QED BY <1>1, <3>1, <3>2
  <2>5. AskerInv(t)'
    BY <1>0, <1>1, <2>1, <2>4 DEF AskerInv, Busy, Probing, Making
  <2> QED BY <1>8, <2>1, <2>5 DEF Probing, Making
<1>12. CASE /\ ~(yes /\ Accepts(b, p)) /\ ~(want[t] = "conv" /\ host[p].forced # "")
            /\ ~(want[t] = "rs" \/ b = "portable")
  <2>1. /\ pc'[t] = "asking" /\ asked'[t] = Preferred(After(b)) /\ codec' = codec
        /\ want[t] = "conv" /\ b # "portable"
    BY <1>1, <1>12 DEF Answered, Goto
  <2>2. Before(asked'[t]) = Before(b) \cup {b}
    BY <1>1, <2>1, NextBuild
  <2>3. \A x \in Better(codec[t], t)' : x \in Better(codec[t], t)
    BY <2>1 DEF Better, Accepts
  <2>4. ASSUME host'[p].forced = "", ~raced'[t], NEW x \in Before(b) \cup {b}
        PROVE  Excused(p, x)'
    <3>1. CASE x \in Before(b)
      <4>1. Excused(p, x)
        BY <2>1, <2>4, <3>1 DEF AskerInv
      <4> QED BY <1>3, <1>13, <3>1, <4>1
    <3>2. CASE x = b
      <4>1. Gate(b, MachineOf(p))' /\ Accepts(b, p)' => Refused(p, b)'
        BY <1>5, <1>6, <1>12, <2>4
      <4> QED BY <3>2, <4>1 DEF Excused, Refused, MachineOf
    <3> QED BY <3>1, <3>2
  <2>5. AskerInv(t)'
    BY <1>1, <1>2, <1>13, <2>1, <2>2, <2>3, <2>4 DEF AskerInv, Before, Probing, Making
  <2> QED BY <1>8, <2>1, <2>5 DEF Probing, Making
<1> QED BY <1>9, <1>10, <1>11, <1>12

LEMMA AskerKept ==
  ASSUME TypeOK, NEW t \in Threads, AskerInv(t), pc[t] \in Busy,
         pc'[t] \in Busy \ {"constructing"}, UNCHANGED <<host, want, asked, codec, raced>>,
         \A c \in Builds : lib[ProcessOf[t]][c] # NONE => lib'[ProcessOf[t]][c] # NONE,
         misled[ProcessOf[t]] => misled'[ProcessOf[t]],
         \A n \in Names : collided[n] => collided'[n]
  PROVE  AskerInv(t)'
<1> DEFINE p == ProcessOf[t]
<1>1. p \in Processes /\ "portable" \in Builds
  BY ThreadFacts, FecBackendAssumption
<1>2. \A x \in Builds : Refused(p, x) => Refused(p, x)'
  BY <1>1, RefusedKept
<1>4. \A x \in Builds : Excused(p, x) => Excused(p, x)'
  BY <1>1, ExcusedKept
<1>3. Better(codec[t], t)' = Better(codec[t], t)
  BY DEF Better, Accepts
<1> QED BY <1>1, <1>2, <1>3, <1>4 DEF AskerInv, Before, Better

(* A step of one thread. *)
LEMMA StepKept ==
  ASSUME IInv, TypeOK', NEW t \in Threads, Frame(t),
         NEW p \in Processes, p = ProcessOf[t], NEW b \in Builds, b = asked[t],
         ProbeInv(p, b)',
         ProberInv(t)', AskerInv(t)'
  PROVE  IInv'
<1>1. \A q \in Processes, c \in Builds : ProbeInv(q, c)'
  BY ProbesKept DEF IInv
<1>2. \A u \in Threads : ProberInv(u)' /\ AskerInv(u)'
  BY OthersKept DEF IInv
<1> QED BY <1>1, <1>2 DEF IInv

(* The end of a probe. *)
LEMMA EndedKept ==
  ASSUME IInv, TypeOK', NEW t \in Threads, pc[t] \in Probing,
         NEW library \in Library \cup {NONE}, Ended(t, library),
         UNCHANGED <<host, cache, want, raced, collided>>,
         \A q \in Processes : misled[q] => misled'[q],
         NEW p \in Processes, p = ProcessOf[t], NEW b \in Builds, b = asked[t],
         library # NONE => Gate(b, MachineOf(p)) /\ library.arch = Arch(MachineOf(p)),
         library = NONE => ~Gate(b, MachineOf(p)) \/ Refused(p, b)'
  PROVE  IInv'
<1>1. /\ TypeOK /\ ProbeInv(p, b) /\ ProberInv(t) /\ AskerInv(t)
      /\ lock[p][b] = t /\ lib[p][b] = NONE /\ t # NONE /\ checked[p][b]
  BY FecBackendAssumption DEF IInv, ProbeInv, ProberInv
<1>2. /\ lib' = Set(lib, p, b, library) /\ lock' = Set(lock, p, b, NONE)
      /\ checked' = checked /\ Answered(t, library # NONE)
  BY DEF Ended
<1>3. /\ lib'[p][b] = library /\ lock'[p][b] = NONE
      /\ \A q \in Processes, c \in Builds :
           (q = p /\ c = b) \/ (lib'[q][c] = lib[q][c] /\ lock'[q][c] = lock[q][c])
  <2>1. lib \in Kept(Library \cup {NONE}) /\ lock \in Kept(Threads \cup {NONE})
    BY <1>1 DEF TypeOK
  <2>2. /\ Set(lib, p, b, library)[p][b] = library
        /\ \A q \in Processes, c \in Builds :
             (q = p /\ c = b) \/ Set(lib, p, b, library)[q][c] = lib[q][c]
    BY <2>1, SetAt
  <2>3. /\ Set(lock, p, b, NONE)[p][b] = NONE
        /\ \A q \in Processes, c \in Builds :
             (q = p /\ c = b) \/ Set(lock, p, b, NONE)[q][c] = lock[q][c]
    BY <2>1, SetAt
  <2> QED BY <1>2, <2>2, <2>3
<1>4. \A u \in Threads \ {t} :
        /\ pc'[u] = pc[u] /\ want'[u] = want[u] /\ asked'[u] = asked[u]
        /\ codec'[u] = codec[u] /\ raced'[u] = raced[u]
  BY <1>1, <1>2, AnsweredElsewhere
<1>5. Frame(t)
  BY <1>1, <1>2, <1>3, <1>4 DEF Frame
<1>6. ProbeInv(p, b)'
  BY <1>1, <1>2, <1>3 DEF ProbeInv, MachineOf
<1>8. ProberInv(t)' /\ AskerInv(t)'
  <2>1. pc[t] \in Busy
    BY DEF Busy, Making
  <2>2. \A c \in Builds : lib[p][c] # NONE => lib'[p][c] # NONE
    BY <1>1, <1>3
  <2>3. (library # NONE) \in BOOLEAN
    OBVIOUS
  <2>4. misled[p] => misled'[p]
    OBVIOUS
  <2>5. library # NONE => lib'[p][b] # NONE
    BY <1>3
  <2> QED BY <1>1, <1>2, <2>1, <2>2, <2>3, <2>4, <2>5, AnsweredAsker
<1> QED BY <1>5, <1>6, <1>8, StepKept

(* A codec is asked for: nothing has been passed over yet. *)
LEMMA NewCodecKept ==
  ASSUME IInv, TypeOK', NEW t \in Threads, NEW code \in {"conv", "rs"}, NewCodec(t, code)
  PROVE  IInv'
<1> DEFINE p == ProcessOf[t]
<1>0. PICK b \in Builds : b = asked[t]
  BY ThreadFacts DEF IInv
<1>1. TypeOK /\ p \in Processes /\ AskerInv(t) /\ ProbeInv(p, b)
  BY <1>0, ThreadFacts DEF IInv
<1>2. UNCHANGED <<host, checked, lib, lock, cache, misled, collided>>
  BY DEF NewCodec, globals
<1>3. \A u \in Threads \ {t} :
        /\ pc'[u] = pc[u] /\ want'[u] = want[u] /\ asked'[u] = asked[u]
        /\ codec'[u] = codec[u] /\ raced'[u] = raced[u]
  BY <1>1 DEF NewCodec, Goto, Has, TypeOK
<1>4. Frame(t)
  BY <1>2, <1>3 DEF Frame
<1>5. ProbeInv(p, b)'
  BY <1>1, <1>2 DEF ProbeInv, MachineOf, Refused
<1>7. /\ t \in DOMAIN pc /\ t \in DOMAIN want /\ t \in DOMAIN asked /\ t \in DOMAIN codec
      /\ "python" \notin Builds /\ "python" # "" /\ "" \notin Builds /\ NONE \notin Builds
  <2>1. "python" \notin Builds /\ "python" # "" /\ "" \notin Builds /\ NONE \notin Builds
    BY FecBackendAssumption, PreferenceIs
  <2> QED BY <1>1, <2>1 DEF TypeOK
<1>8. CASE code = "conv" /\ host[p].forced = "python"
  <2>1. pc'[t] = "idle" /\ codec'[t] = "python"
    BY <1>7, <1>8 DEF NewCodec, Has, Goto
  <2>2. ProberInv(t)'
    BY <2>1 DEF ProberInv, Probing, Making
  <2>3. AskerInv(t)'
    BY <1>2, <1>7, <1>8, <2>1 DEF AskerInv, Busy, Probing, Making
  <2> QED BY <1>0, <1>1, <1>4, <1>5, <2>2, <2>3, StepKept
<1>9. CASE ~(code = "conv" /\ host[p].forced = "python")
  <2>1. /\ pc'[t] = "asking" /\ codec'[t] = NONE /\ want'[t] = code
        /\ asked'[t] = IF code = "rs" THEN "portable"
                       ELSE IF host[p].forced \in Builds THEN host[p].forced
                       ELSE Preferred(Builds)
    BY <1>7, <1>9 DEF NewCodec, Goto
  <2>2. ProberInv(t)'
    BY <2>1 DEF ProberInv, Probing, Making
  <2>3. code = "conv" /\ host[p].forced = "" => Before(asked'[t]) = {}
    BY <1>7, <2>1, FirstBuild
  <2>4. AskerInv(t)'
    BY <1>2, <1>7, <2>1, <2>3 DEF AskerInv, Before, Busy, Probing, Making
  <2> QED BY <1>0, <1>1, <1>4, <1>5, <2>2, <2>4, StepKept
<1> QED BY <1>8, <1>9

(* The flag is read without the lock: either the probe is over, and left a *)
(* library or a reason, or it is under way, and the answer is noted as     *)
(* raced.                                                                  *)
LEMMA AskKept ==
  ASSUME IInv, TypeOK', NEW t \in Threads, Ask(t)
  PROVE  IInv'
<1> DEFINE p == ProcessOf[t]
<1>0. PICK b \in Builds : b = asked[t]
  BY ThreadFacts DEF IInv
<1>1. /\ TypeOK /\ p \in Processes /\ AskerInv(t) /\ ProbeInv(p, b)
      /\ pc[t] \in Busy /\ t \in DOMAIN pc /\ t \in DOMAIN raced
  BY <1>0, ThreadFacts DEF IInv, Ask, Busy, TypeOK, Making
<1>2. UNCHANGED <<host, checked, lib, lock, cache, want, misled, collided>>
  BY DEF Ask, globals
<1>3. \A u \in Threads \ {t} :
        /\ pc'[u] = pc[u] /\ want'[u] = want[u] /\ asked'[u] = asked[u]
        /\ codec'[u] = codec[u] /\ raced'[u] = raced[u]
  <2>1. \A u \in Threads \ {t} :
          pc'[u] = pc[u] /\ asked'[u] = asked[u] /\ codec'[u] = codec[u]
    <3>1. CASE Answered(t, lib[p][asked[t]] # NONE)
      BY <1>1, <3>1, AnsweredElsewhere
    <3>2. CASE Goto(t, "locking") /\ UNCHANGED <<asked, codec, raced>>
      BY <1>1, <3>2 DEF Goto, TypeOK
    <3> QED BY <3>1, <3>2 DEF Ask
  <2>2. \A u \in Threads \ {t} : want'[u] = want[u] /\ raced'[u] = raced[u]
    BY <1>1, <1>2 DEF Ask, TypeOK
  <2> QED BY <2>1, <2>2
<1>4. Frame(t)
  BY <1>2, <1>3 DEF Frame
<1>5. ProbeInv(p, b)'
  BY <1>1, <1>2 DEF ProbeInv, MachineOf, Refused
<1>7. ProberInv(t)' /\ AskerInv(t)'
  <2>1. CASE checked[p][b]
    <3>1. /\ Answered(t, lib[p][b] # NONE)
          /\ raced'[t] = (raced[t] \/ lock[p][b] # NONE)
      BY <1>0, <1>1, <2>1 DEF Ask
    <3>2. lib[p][b] = NONE => raced'[t] \/ ~Gate(b, MachineOf(p)) \/ Refused(p, b)'
      BY <1>1, <1>2, <2>1, <3>1 DEF ProbeInv, Refused, MachineOf
    <3>3. /\ (lib[p][b] # NONE) \in BOOLEAN
          /\ lib[p][b] # NONE => lib'[p][asked[t]] # NONE
          /\ misled[p] => misled'[p]
          /\ \A c \in Builds : lib[p][c] # NONE => lib'[p][c] # NONE
          /\ raced[t] => raced'[t]
      BY <1>0, <1>2, <3>1
    <3> QED BY <1>0, <1>1, <1>2, <3>1, <3>2, <3>3, AnsweredAsker
  <2>2. CASE ~checked[p][b]
    <3>1. pc'[t] = "locking" /\ UNCHANGED <<asked, codec, raced>>
      BY <1>0, <1>1, <2>2 DEF Ask, Goto
    <3>2. pc'[t] \in Busy \ {"constructing"} /\ pc'[t] \notin Probing
      BY <3>1 DEF Busy, Probing, Making
    <3>3. AskerInv(t)'
      BY <1>1, <1>2, <3>1, <3>2, AskerKept
    <3>4. ProberInv(t)'
      BY <3>1 DEF ProberInv, Probing, Making
    <3> QED BY <3>3, <3>4
  <2> QED BY <2>1, <2>2
<1> QED BY <1>0, <1>1, <1>4, <1>5, <1>7, StepKept

(* The lock is free: the probe of another thread is over, or this one      *)
(* begins.                                                                 *)
LEMMA LockKept ==
  ASSUME IInv, TypeOK', NEW t \in Threads, Lock(t)
  PROVE  IInv'
<1> DEFINE p == ProcessOf[t]
<1>0. PICK b \in Builds : b = asked[t]
  BY ThreadFacts DEF IInv
<1>1. /\ TypeOK /\ p \in Processes /\ AskerInv(t) /\ ProbeInv(p, b)
      /\ pc[t] \in Busy /\ t \in DOMAIN pc /\ lock[p][b] = NONE /\ t # NONE
  BY <1>0, ThreadFacts, FecBackendAssumption DEF IInv, Lock, Busy, TypeOK, Making
<1>2. UNCHANGED <<host, lib, cache, want, raced, misled, collided>>
  BY DEF Lock
<1>4. CASE checked[p][b]
  <2>1. Answered(t, lib[p][b] # NONE) /\ UNCHANGED <<checked, lock>>
    BY <1>0, <1>4 DEF Lock
  <2>2. \A u \in Threads \ {t} :
          /\ pc'[u] = pc[u] /\ want'[u] = want[u] /\ asked'[u] = asked[u]
          /\ codec'[u] = codec[u] /\ raced'[u] = raced[u]
    BY <1>1, <1>2, <2>1, AnsweredElsewhere
  <2>3. Frame(t)
    BY <1>2, <2>1, <2>2 DEF Frame
  <2>4. ProbeInv(p, b)'
    BY <1>1, <1>2, <2>1 DEF ProbeInv, MachineOf, Refused
  <2>5. lib[p][b] = NONE => raced'[t] \/ ~Gate(b, MachineOf(p)) \/ Refused(p, b)'
    BY <1>1, <1>2, <1>4 DEF ProbeInv, Refused, MachineOf
  <2>6. /\ (lib[p][b] # NONE) \in BOOLEAN
        /\ lib[p][b] # NONE => lib'[p][asked[t]] # NONE
        /\ misled[p] => misled'[p]
        /\ \A c \in Builds : lib[p][c] # NONE => lib'[p][c] # NONE
        /\ raced[t] => raced'[t]
    BY <1>0, <1>2
  <2>7. ProberInv(t)' /\ AskerInv(t)'
    BY <1>0, <1>1, <1>2, <2>1, <2>5, <2>6, AnsweredAsker
  <2> QED BY <1>0, <1>1, <2>3, <2>4, <2>7, StepKept
<1>5. CASE ~checked[p][b]
  <2>1. /\ lock' = Set(lock, p, b, t) /\ checked' = Set(checked, p, b, TRUE)
        /\ pc' = [pc EXCEPT ![t] = "examining"] /\ UNCHANGED <<asked, codec>>
    BY <1>0, <1>5 DEF Lock, Goto
  <2>2. /\ lock'[p][b] = t
        /\ \A q \in Processes, c \in Builds :
             (q = p /\ c = b) \/ lock'[q][c] = lock[q][c]
    BY <1>1, <2>1, SetAt DEF TypeOK
  <2>3. /\ checked'[p][b] = TRUE
        /\ \A q \in Processes, c \in Builds :
             (q = p /\ c = b) \/ checked'[q][c] = checked[q][c]
    <3>1. checked \in Kept(BOOLEAN)
      BY <1>1 DEF TypeOK
    <3>2. /\ Set(checked, p, b, TRUE)[p][b] = TRUE
          /\ \A q \in Processes, c \in Builds :
               (q = p /\ c = b) \/ Set(checked, p, b, TRUE)[q][c] = checked[q][c]
      BY <1>1, <3>1 DEF Kept, Set
    <3> QED BY <2>1, <3>2
  <2>4. Frame(t)
    <3>1. \A u \in Threads \ {t} : pc'[u] = pc[u]
      BY <1>1, <2>1
    <3>2. \A q \in Processes, c \in Builds : \A u \in Threads \ {t} :
            lock[q][c] = u => lock'[q][c] = u
      BY <1>1, <2>2, FecBackendAssumption
    <3>3. \A u \in Threads \ {t} :
            /\ pc'[u] = pc[u] /\ want'[u] = want[u] /\ asked'[u] = asked[u]
            /\ codec'[u] = codec[u] /\ raced'[u] = raced[u]
      BY <1>2, <2>1, <3>1
    <3>4. \A q \in Processes, c \in Builds :
            \/ q = p /\ c = asked[t]
            \/ /\ lib'[q][c] = lib[q][c] /\ checked'[q][c] = checked[q][c]
               /\ lock'[q][c] = lock[q][c]
      BY <1>0, <1>2, <2>2, <2>3
    <3> QED BY <1>2, <3>2, <3>3, <3>4 DEF Frame
  <2>5. ProbeInv(p, b)'
    BY <1>1, <1>2, <1>5, <2>2, <2>3 DEF ProbeInv
  <2>6. ProberInv(t)'
    BY <1>0, <1>1, <2>1, <2>2 DEF ProberInv
  <2>7. AskerInv(t)'
    <3>1. pc'[t] \in Busy \ {"constructing"}
      BY <1>1, <2>1 DEF Busy, Probing, Making
    <3> QED BY <1>1, <1>2, <2>1, <3>1, AskerKept
  <2> QED BY <1>0, <1>1, <2>4, <2>5, <2>6, <2>7, StepKept
<1> QED BY <1>4, <1>5

(* A probe goes on: what its process holds stays as it is. *)
Works(t, p, b, place) ==
  /\ pc' = [pc EXCEPT ![t] = place]
  /\ UNCHANGED <<host, lib, checked, lock, want, asked, codec, raced, misled>>
  /\ \A n \in Names : (cache[n] # NONE => cache'[n] # NONE) /\ (collided[n] => collided'[n])
  /\ Gate(b, MachineOf(p))
  /\ place = "loading" => cache'[SoName(b, MachineOf(p))] # NONE

LEMMA WorkKept ==
  ASSUME IInv, TypeOK', NEW t \in Threads, pc[t] \in Probing,
         NEW p \in Processes, p = ProcessOf[t], NEW b \in Builds, b = asked[t],
         NEW place \in Probing \ {"examining"}, Works(t, p, b, place)
  PROVE  IInv'
<1> USE DEF Works
<1>1. /\ TypeOK /\ AskerInv(t) /\ ProberInv(t) /\ ProbeInv(p, b)
      /\ lock[p][b] = t /\ t \in DOMAIN pc /\ t # NONE
  BY FecBackendAssumption DEF IInv, ProberInv, TypeOK
<1>2. pc'[t] = place /\ \A u \in Threads \ {t} : pc'[u] = pc[u]
  BY <1>1
<1>3. Frame(t)
  BY <1>1, <1>2 DEF Frame
<1>4. ProbeInv(p, b)'
  BY <1>1 DEF ProbeInv, MachineOf
<1>5. ProberInv(t)'
  BY <1>1, <1>2 DEF ProberInv, MachineOf
<1>6. AskerInv(t)'
  <2>1. pc[t] \in Busy /\ pc'[t] \in Busy \ {"constructing"}
    BY <1>2 DEF Busy, Probing, Making
  <2> QED BY <1>1, <2>1, AskerKept
<1> QED BY <1>3, <1>4, <1>5, <1>6, StepKept

LEMMA ExamineKept ==
  ASSUME IInv, TypeOK', NEW t \in Threads, Examine(t)
  PROVE  IInv'
<1> DEFINE p == ProcessOf[t]
<1>0. PICK b \in Builds : b = asked[t]
  BY ThreadFacts DEF IInv
<1>1. /\ TypeOK /\ p \in Processes /\ pc[t] \in Probing
      /\ UNCHANGED <<host, cache, want, raced, misled>>
      /\ NameFor(t) = SoName(b, MachineOf(p)) /\ NameFor(t) \in Names
  BY <1>0, ThreadFacts DEF IInv, Examine, Probing, NameFor, MachineOf, Making
<1>2. CASE ~Gate(b, MachineOf(p))
  <2>1. Ended(t, NONE) /\ UNCHANGED collided
    BY <1>0, <1>2 DEF Examine, MachineOf
  <2> QED BY <1>0, <1>1, <1>2, <2>1, EndedKept
<1>3. CASE Gate(b, MachineOf(p))
  <2>1. /\ UNCHANGED <<lib, checked, lock, asked, codec>>
        /\ \/ /\ cache[NameFor(t)] # NONE
              /\ pc' = [pc EXCEPT ![t] = "loading"] /\ UNCHANGED collided
           \/ /\ pc' = [pc EXCEPT ![t] = "compiling"]
              /\ collided' = [collided EXCEPT ![NameFor(t)] = @ \/ Contended(t)]
    BY <1>0, <1>3 DEF Examine, MachineOf, Goto, globals
  <2>2. \A n \in Names : (cache[n] # NONE => cache'[n] # NONE) /\ (collided[n] => collided'[n])
    BY <1>1, <2>1 DEF TypeOK
  <2>3. "loading" \in Probing \ {"examining"} /\ "compiling" \in Probing \ {"examining"}
    BY DEF Probing, Making
  <2>4. Works(t, p, b, "loading") \/ Works(t, p, b, "compiling")
    BY <1>1, <1>3, <2>1, <2>2 DEF Works
  <2> QED BY <1>0, <1>1, <2>3, <2>4, WorkKept
<1> QED BY <1>2, <1>3

LEMMA OpenedKept ==
  ASSUME IInv, TypeOK', NEW t \in Threads, Opened(t)
  PROVE  IInv'
<1> DEFINE p == ProcessOf[t]
<1>0. PICK b \in Builds : b = asked[t]
  BY ThreadFacts DEF IInv
<1>1. /\ TypeOK /\ p \in Processes /\ ProberInv(t) /\ pc[t] = "compiling"
      /\ pc[t] \in Probing /\ "writing" \in Probing \ {"examining"}
      /\ pc' = [pc EXCEPT ![t] = "writing"]
      /\ UNCHANGED <<host, lib, checked, lock, cache, want, asked, codec, raced, misled, collided>>
  BY <1>0, ThreadFacts DEF IInv, Opened, Probing, Making, Goto, globals
<1>2. Gate(b, MachineOf(p))
  BY <1>0, <1>1 DEF ProberInv
<1>3. Works(t, p, b, "writing")
  BY <1>1, <1>2 DEF Works
<1> QED BY <1>0, <1>1, <1>3, WorkKept

LEMMA CompiledKept ==
  ASSUME IInv, TypeOK', NEW t \in Threads, Compiled(t)
  PROVE  IInv'
<1> DEFINE p == ProcessOf[t]
<1>0. PICK b \in Builds : b = asked[t]
  BY ThreadFacts DEF IInv
<1>1. /\ TypeOK /\ p \in Processes /\ ProberInv(t) /\ pc[t] = "writing"
      /\ pc[t] \in Probing /\ "replacing" \in Probing \ {"examining"}
      /\ pc' = [pc EXCEPT ![t] = "replacing"]
      /\ UNCHANGED <<host, lib, checked, lock, want, asked, codec, raced, misled, collided>>
      /\ cache' = [cache EXCEPT ![NameFor(t)] = Finished(p, @)]
  BY <1>0, ThreadFacts DEF IInv, Compiled, Probing, Making, Goto, globals
<1>2. Gate(b, MachineOf(p))
  BY <1>0, <1>1 DEF ProberInv
<1>3. \A n \in Names : cache[n] # NONE => cache'[n] # NONE
  <2>1. \A n \in Names : cache[n] \in Library \cup {NONE}
    BY <1>1 DEF TypeOK
  <2> QED BY <1>1, <2>1, FinishedType DEF TypeOK
<1>4. Works(t, p, b, "replacing")
  BY <1>1, <1>2, <1>3 DEF Works
<1> QED BY <1>0, <1>1, <1>4, WorkKept

LEMMA CompileFailsKept ==
  ASSUME IInv, TypeOK', NEW t \in Threads, CompileFails(t)
  PROVE  IInv'
<1> DEFINE p == ProcessOf[t]
<1>0. PICK b \in Builds : b = asked[t]
  BY ThreadFacts DEF IInv
<1>1. /\ p \in Processes /\ pc[t] \in Probing /\ Ended(t, NONE)
      /\ UNCHANGED <<host, cache, want, raced, misled, collided>>
      /\ b \notin host[p].compiles
  BY <1>0, ThreadFacts DEF IInv, CompileFails, Probing, Making
<1>2. Refused(p, b)'
  BY <1>1 DEF Refused
<1> QED BY <1>0, <1>1, <1>2, EndedKept

(* A file that is gone, or that another moved there, means that two wrote  *)
(* under one name.                                                         *)
LEMMA ReplaceKept ==
  ASSUME IInv, FilesInv, TypeOK', NEW t \in Threads, Replace(t)
  PROVE  IInv'
<1> DEFINE p == ProcessOf[t]
<1>0. PICK b \in Builds : b = asked[t]
  BY ThreadFacts DEF IInv
<1>1. /\ TypeOK /\ p \in Processes /\ ProberInv(t) /\ FileInv(t)
      /\ pc[t] = "replacing" /\ pc[t] \in Probing /\ pc[t] \in Making
      /\ "loading" \in Probing \ {"examining"} /\ pc[t] # "examining"
      /\ NameFor(t) = SoName(b, MachineOf(p)) /\ NameFor(t) \in Names
      /\ UNCHANGED <<host, want, raced, misled, collided>>
  BY <1>0, ThreadFacts DEF IInv, FilesInv, Replace, Probing, Making, NameFor, MachineOf
<1>2. CASE tmp[SlotFor(t)] = NONE
  <2>1. Ended(t, NONE) /\ UNCHANGED cache
    BY <1>2 DEF Replace
  <2>2. Refused(p, b)'
    BY <1>1, <1>2 DEF FileInv, Refused, MachineOf
  <2> QED BY <1>0, <1>1, <2>1, <2>2, EndedKept
<1>3. CASE tmp[SlotFor(t)] # NONE
  <2>1. /\ UNCHANGED <<lib, checked, lock, asked, codec>>
        /\ pc' = [pc EXCEPT ![t] = "loading"]
        /\ cache' = [cache EXCEPT ![NameFor(t)] = tmp[SlotFor(t)]]
    BY <1>3 DEF Replace, Goto, globals
  <2>2. /\ cache'[NameFor(t)] # NONE
        /\ \A n \in Names : cache[n] # NONE => cache'[n] # NONE
    BY <1>1, <1>3, <2>1 DEF TypeOK
  <2>3. Gate(b, MachineOf(p))
    BY <1>0, <1>1 DEF ProberInv
  <2>4. Works(t, p, b, "loading")
    BY <1>1, <2>1, <2>2, <2>3 DEF Works
  <2> QED BY <1>0, <1>1, <2>4, WorkKept
<1> QED BY <1>2, <1>3

(* A library that does not load is another architecture's, and then it is  *)
(* the portable one, or one of two that were written under one name.       *)
LEMMA LoadKept ==
  ASSUME IInv, FilesInv, TypeOK', NEW t \in Threads, Load(t)
  PROVE  IInv'
<1> DEFINE p == ProcessOf[t]
<1>0. PICK b \in Builds : b = asked[t]
  BY ThreadFacts DEF IInv
<1> DEFINE file == cache[NameFor(t)]
           own == file.arch = Arch(MachineOf(p))
<1>1. /\ TypeOK /\ p \in Processes /\ pc[t] = "loading" /\ ProberInv(t)
      /\ pc[t] \in Probing /\ pc[t] # "examining"
      /\ NameFor(t) = SoName(b, MachineOf(p))
  BY <1>0, ThreadFacts DEF IInv, Load, Probing, MachineOf, NameFor, Making
<1>2. Gate(b, MachineOf(p)) /\ file # NONE /\ file \in Library \cup {NONE}
  BY <1>0, <1>1, FoundThere DEF ProberInv
<1>3. (file.whole \/ collided[NameFor(t)]) /\ (own \/ b = "portable")
  BY <1>0, <1>2, FoundThere DEF MachineOf
<1>4. /\ Ended(t, IF file.whole /\ own THEN file ELSE NONE)
      /\ misled' = [misled EXCEPT ![p] = @ \/ (b = "portable" /\ ~own)]
      /\ UNCHANGED <<host, cache, tmp, want, raced, collided>>
  BY <1>0 DEF Load, MachineOf
<1>5. /\ \A q \in Processes : misled[q] => misled'[q]
      /\ b = "portable" /\ ~own => misled'[p]
  BY <1>1, <1>4 DEF TypeOK
<1>6. ~(file.whole /\ own) => Refused(p, b)'
  BY <1>1, <1>3, <1>4, <1>5 DEF Refused, MachineOf
<1>7. CASE file.whole /\ own
  <2>1. Ended(t, file)
    BY <1>4, <1>7
  <2> HIDE DEF file
  <2> QED BY <1>0, <1>1, <1>2, <1>4, <1>5, <1>7, <2>1, EndedKept
<1>8. CASE ~(file.whole /\ own)
  <2>1. Ended(t, NONE)
    BY <1>4, <1>8
  <2> QED BY <1>0, <1>1, <1>4, <1>5, <1>6, <1>8, <2>1, EndedKept
<1> QED BY <1>7, <1>8

(* The library that was answered for is still there. *)
LEMMA ConstructKept ==
  ASSUME IInv, TypeOK', NEW t \in Threads, Construct(t)
  PROVE  IInv'
<1> DEFINE p == ProcessOf[t]
<1>0. PICK b \in Builds : b = asked[t]
  BY ThreadFacts DEF IInv
<1>1. /\ TypeOK /\ p \in Processes /\ AskerInv(t) /\ ProbeInv(p, b)
      /\ pc[t] = "constructing" /\ pc[t] \in Busy
      /\ UNCHANGED <<host, checked, lib, lock, cache, want, asked, raced, misled, collided>>
  BY <1>0, ThreadFacts DEF IInv, Construct, Busy, globals, Making
<1>2. lib[p][b] # NONE
  BY <1>0, <1>1 DEF AskerInv
<1>3. pc' = [pc EXCEPT ![t] = "idle"] /\ codec' = [codec EXCEPT ![t] = b]
  BY <1>0, <1>2 DEF Construct, Has, Goto
<1>4. /\ pc'[t] = "idle" /\ codec'[t] = b
      /\ \A u \in Threads \ {t} : pc'[u] = pc[u] /\ codec'[u] = codec[u]
  BY <1>1, <1>3 DEF TypeOK
<1>5. Frame(t)
  BY <1>1, <1>4 DEF Frame
<1>6. ProbeInv(p, b)'
  BY <1>1 DEF ProbeInv, MachineOf, Refused
<1>8. ProberInv(t)'
  BY <1>4 DEF ProberInv, Probing, Making
<1>9. ASSUME host'[p].forced = "", ~raced'[t], NEW x \in Better(b, t)'
      PROVE  Refused(p, x)'
  <2>0. b # "python" /\ want[t] \in {"conv", "rs"}
    BY <1>1, FecBackendAssumption, PreferenceIs DEF TypeOK
  <2>1. Preference[x] < Preference[b]
    BY <1>9, <2>0 DEF Better
  <2>2. want[t] = "conv"
    <3>1. ASSUME want[t] = "rs" PROVE FALSE
      <4>1. b = "portable" /\ x = "portable"
        BY <1>0, <1>1, <1>9, <3>1 DEF AskerInv, Better
      <4> QED BY <2>1, <4>1, PreferenceIs
    <3> QED BY <2>0, <3>1
  <2>3. x \in Builds /\ Gate(x, MachineOf(p)) /\ Accepts(x, p)
    BY <1>1, <1>9, <2>2 DEF Better, MachineOf, Accepts
  <2>4. Excused(p, x)
    BY <1>0, <1>1, <1>9, <2>1, <2>2, <2>3 DEF AskerInv, Before
  <2> QED BY <1>1, <2>3, <2>4 DEF Excused, Refused, MachineOf
<1>10. AskerInv(t)'
  <2>1. lib'[p][b] # NONE /\ b # NONE
    BY <1>1, <1>2, FecBackendAssumption
  <2> QED BY <1>1, <1>4, <1>9, <2>1 DEF AskerInv, Busy, Probing, Making
<1> QED BY <1>0, <1>1, <1>5, <1>6, <1>8, <1>10, StepKept

(* A killed process forgets all of it. *)
LEMMA KillKept ==
  ASSUME IInv, TypeOK', NEW p \in Mortal, Kill(p)
  PROVE  IInv'
<1>1. /\ TypeOK /\ p \in Processes /\ host' = host /\ collided' = collided
      /\ \A n \in Names : cache[n] # NONE => cache'[n] # NONE
  <2>1. TypeOK /\ p \in Processes /\ host' = host /\ collided' = collided
    BY FecBackendAssumption DEF IInv, Kill
  <2>2. \A n \in Names : cache[n] \in Library \cup {NONE} /\ cache'[n] = Orphaned(p, cache[n])
    BY <2>1 DEF Kill, TypeOK
  <2> QED BY <2>1, <2>2, OrphanedType
<1>2. \A c \in Builds : checked'[p][c] = FALSE /\ lib'[p][c] = NONE /\ lock'[p][c] = NONE
  BY <1>1 DEF Kill, TypeOK, Kept, Fresh
<1>3. \A q \in Processes \ {p} :
        /\ checked'[q] = checked[q] /\ lib'[q] = lib[q] /\ lock'[q] = lock[q]
        /\ misled'[q] = misled[q]
  BY <1>1 DEF Kill, TypeOK, Kept
<1>4. ASSUME NEW q \in Processes, NEW c \in Builds PROVE ProbeInv(q, c)'
  <2>1. CASE q = p
    BY <1>2, <2>1 DEF ProbeInv
  <2>2. CASE q # p
    BY <1>1, <1>3, <2>2 DEF ProbeInv, MachineOf, Refused, IInv
  <2> QED BY <2>1, <2>2
<1>6. ASSUME NEW u \in Threads PROVE ProberInv(u)' /\ AskerInv(u)'
  <2>1. CASE ProcessOf[u] = p
    <3>1. pc'[u] = "idle" /\ codec'[u] = NONE
      BY <2>1 DEF Kill
    <3>2. NONE \notin Builds
      BY FecBackendAssumption
    <3> QED BY <3>1, <3>2 DEF ProberInv, AskerInv, Probing, Busy, Making
  <2>2. CASE ProcessOf[u] # p
    <3> DEFINE q == ProcessOf[u]
    <3>1. q \in Processes /\ ProberInv(u) /\ AskerInv(u)
      BY <1>1, ThreadFacts DEF IInv
    <3>2. /\ pc'[u] = pc[u] /\ codec'[u] = codec[u] /\ want'[u] = want[u]
          /\ asked'[u] = asked[u] /\ raced'[u] = raced[u]
      BY <2>2 DEF Kill
    <3>3. lib'[q] = lib[q] /\ lock'[q] = lock[q] /\ misled'[q] = misled[q]
      BY <1>3, <2>2, <3>1
    <3>4. \A x \in Builds : Refused(q, x) => Refused(q, x)'
      BY <1>1, <3>1, <3>3, RefusedKept
    <3>5. \A x \in Builds : Excused(q, x) => Excused(q, x)'
      BY <1>1, <3>1, <3>3, ExcusedKept
    <3>9. "portable" \in Builds
      BY FecBackendAssumption
    <3>6. Better(codec[u], u)' = Better(codec[u], u)
      BY <1>1, <3>2 DEF Better, Accepts
    <3>7. ProberInv(u)'
      <4>1. asked[u] \in Builds /\ SoName(asked[u], MachineOf(q)) \in Names
        BY <1>1, ThreadFacts DEF NameFor, MachineOf
      <4> QED BY <1>1, <3>1, <3>2, <3>3, <4>1 DEF ProberInv, MachineOf
    <3>8. AskerInv(u)'
      BY <1>1, <3>1, <3>2, <3>3, <3>4, <3>5, <3>6, <3>9 DEF AskerInv, Before, Better
    <3> QED BY <3>7, <3>8
  <2> QED BY <2>1, <2>2
<1> QED BY <1>4, <1>6 DEF IInv

LEMMA InitIInv == Init => IInv
<1> SUFFICES ASSUME Init PROVE IInv
  OBVIOUS
<1>1. TypeOK
  BY InitTypeOK
<1>2. NONE \notin Builds
  BY FecBackendAssumption
<1>3. \A p \in Processes, b \in Builds : ProbeInv(p, b)
  BY DEF Init, ProbeInv, Fresh
<1>5. \A t \in Threads : ProberInv(t) /\ AskerInv(t)
  BY <1>2 DEF Init, ProberInv, AskerInv, Probing, Busy, Making
<1> QED BY <1>1, <1>3, <1>5 DEF IInv

LEMMA NextIInv == ASSUME IInv, FilesInv, [Next]_vars PROVE IInv'
<1>1. TypeOK'
  BY NextTypeOK DEF IInv
<1>2. ASSUME NEW t \in Threads, NEW code \in {"conv", "rs"}, NewCodec(t, code) PROVE IInv'
  BY <1>1, <1>2, NewCodecKept
<1>3. ASSUME NEW t \in Threads, Ask(t) PROVE IInv'
  BY <1>1, <1>3, AskKept
<1>4. ASSUME NEW t \in Threads, Lock(t) PROVE IInv'
  BY <1>1, <1>4, LockKept
<1>5. ASSUME NEW t \in Threads, Examine(t) PROVE IInv'
  BY <1>1, <1>5, ExamineKept
<1>13. ASSUME NEW t \in Threads, Opened(t) PROVE IInv'
  BY <1>1, <1>13, OpenedKept
<1>6. ASSUME NEW t \in Threads, Compiled(t) PROVE IInv'
  BY <1>1, <1>6, CompiledKept
<1>7. ASSUME NEW t \in Threads, CompileFails(t) PROVE IInv'
  BY <1>1, <1>7, CompileFailsKept
<1>8. ASSUME NEW t \in Threads, Replace(t) PROVE IInv'
  BY <1>1, <1>8, ReplaceKept
<1>9. ASSUME NEW t \in Threads, Load(t) PROVE IInv'
  BY <1>1, <1>9, LoadKept
<1>10. ASSUME NEW t \in Threads, Construct(t) PROVE IInv'
  BY <1>1, <1>10, ConstructKept
<1>11. ASSUME NEW p \in Mortal, Kill(p) PROVE IInv'
  BY <1>1, <1>11, KillKept
<1>12. CASE UNCHANGED vars
  <2>1. UNCHANGED <<host, checked, lib, lock, cache, pc, want, asked, codec, raced, misled, collided>>
    BY <1>12 DEF vars, globals
  <2>2. ASSUME NEW q \in Processes, NEW c \in Builds PROVE ProbeInv(q, c)'
    BY <2>1 DEF IInv, ProbeInv, MachineOf, Refused
  <2>4. ASSUME NEW u \in Threads PROVE ProberInv(u)' /\ AskerInv(u)'
    <3>1. ProberInv(u) /\ AskerInv(u)
      BY DEF IInv
    <3>2. ProberInv(u)'
      BY <2>1, <3>1 DEF ProberInv, MachineOf
    <3>3. AskerInv(u)'
      BY <2>1, <3>1 DEF AskerInv, MachineOf, Refused, Excused, Accepts, Better, Before
    <3> QED BY <3>2, <3>3
  <2> QED BY <1>1, <2>2, <2>4 DEF IInv
<1> QED
  BY <1>2, <1>3, <1>4, <1>5, <1>6, <1>7, <1>8, <1>9, <1>10, <1>11, <1>12, <1>13 DEF Next

LEMMA Inductive == Spec => []IInv
  BY InitIInv, NextIInv, FilesInductive, PTL DEF Spec

-----------------------------------------------------------------------------
(* The theorems.                                                           *)

(* What the constructors of codecs rely on (`_lib` of _native.py is set    *)
(* once and never taken back): whoever was told a build is there finds its *)
(* library, one its machine can run.                                       *)
THEOREM BackendsHeld == Spec => []BackendHeld
<1>1. IInv => BackendHeld
  <2> SUFFICES ASSUME IInv, NEW t \in Threads
               PROVE  /\ codec[t] \in Builds =>
                           /\ lib[ProcessOf[t]][codec[t]] # NONE
                           /\ lib[ProcessOf[t]][codec[t]].arch = Arch(host[ProcessOf[t]].machine)
                           /\ codec[t] = "sse" => host[ProcessOf[t]].machine # "x86_old"
                      /\ pc[t] = "constructing" => lib[ProcessOf[t]][asked[t]] # NONE
    BY DEF BackendHeld
  <2>1. AskerInv(t) /\ ProcessOf[t] \in Processes
    BY ThreadFacts DEF IInv
  <2>2. \A b \in Builds : ProbeInv(ProcessOf[t], b)
    BY <2>1 DEF IInv
  <2> QED BY <2>1, <2>2 DEF AskerInv, ProbeInv, Gate, SseGate, MachineOf
<1> QED BY <1>1, Inductive, PTL

(* The order of preference is kept to (_select_native_backend, and the     *)
(* flag read before the lock is taken): only a build that does not         *)
(* compile, a probe under way in another thread, another machine's         *)
(* portable library, or two processes of one pid that once compiled the    *)
(* build at the same time leave a codec with less.                         *)
THEOREM NeverSlowWithoutCause == Spec => []SlowForCause
<1>1. IInv => SlowForCause
  BY DEF IInv, AskerInv, SlowForCause, Refused, MachineOf
<1> QED BY <1>1, Inductive, PTL

=============================================================================
