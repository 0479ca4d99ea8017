----------------------------- MODULE FecBackend -----------------------------
(***************************************************************************)
(* How a codec finds its compiled backend (fec/_native.py, _native_        *)
(* hexagon.py and ConvolutionalCode of fec/viterbi.py).  A build is a      *)
(* library that the first to ask for it in a process compiles into a cache *)
(* directory, or finds there, and loads: once per process, behind a double *)
(* checked flag.  The directory outlives the process and may be shared by  *)
(* machines of another kind, whose process ids mean nothing to each other. *)
(*                                                                         *)
(* Processes differ by what a codec's choice depends on; the hash of the   *)
(* sources, the same for all, is left out of a library's name.             *)
(***************************************************************************)
EXTENDS Naturals

CONSTANTS
  Builds,         \* those there are sources for
  Threads,        \* those that construct codecs
  ProcessOf,      \* the process of each
  Mortal,         \* processes that may be killed, and started again
  Pids,           \* process ids
  Deployments,    \* what the processes may run on
  NONE

Processes == {ProcessOf[t] : t \in Threads}

(* _select_native_backend's order of preference, from 1 on.                *)
Preference == [hexagon |-> 1, fast |-> 2, sse |-> 3, neon |-> 4, portable |-> 5]

Preferred(builds) == CHOOSE b \in builds : \A c \in builds : Preference[b] <= Preference[c]

Before(b) == {c \in Builds : Preference[c] < Preference[b]}
After(b)  == {c \in Builds : Preference[c] > Preference[b]}

(* The machine, the builds that compile there, within a minute, the value  *)
(* of SPECTRACUDA_VITERBI_BACKEND, and os.getpid(): a number that another  *)
(* machine, or another container, may have given a process of its own.     *)
Machines == {"x86", "x86_old", "arm", "riscv"}

Host ==
  [machine : Machines, compiles : SUBSET Builds, forced : Builds \cup {"", "python"},
   pid : Pids]

(* A shared library: what it was built on, whether all of it is there, and *)
(* the process whose compiler is writing it.                               *)
Library ==
  [arch : {"x86", "arm", "riscv"}, whole : BOOLEAN, by : Processes \cup {NONE}]

ASSUME FecBackendAssumption ==
  /\ Mortal \subseteq Processes
  /\ "portable" \in Builds /\ Builds \subseteq DOMAIN Preference
  /\ \A d \in Deployments : d \in [Processes -> Host]
  /\ NONE \notin Threads \cup Builds \cup Library \cup Processes

VARIABLES
  host,                   \* of a process: what it runs on
  checked, lib, lock,     \* per process and build: the module's globals
  cache,                  \* per file name: the library, or NONE
  tmp,                    \* per file name and pid: so_path + ".tmp" + pid
  pc, want, asked, codec, \* of a thread: its step, code, build, and the backend it has
  raced,                  \* history: a thread was answered during another's probe
  misled,                 \* history: the portable library a process found was foreign
  collided                \* history, per file name: two wrote under one temporary name

globals == <<checked, lib, lock>>
vars == <<host, globals, cache, tmp, pc, want, asked, codec, raced, misled, collided>>

-----------------------------------------------------------------------------
(* The machines.  SSE4.1 is optional on x86_64.                            *)

Arch(m) == IF m = "x86_old" THEN "x86" ELSE m

SseGate(m) == Arch(m) = "x86" /\ m # "x86_old"

\* No machine has the DSP's skeleton, the last of hexagon_available's gates.
Gate(b, m) ==
  /\ b = "sse" => SseGate(m)
  /\ b = "neon" => m = "arm"
  /\ b # "hexagon"

SoNameUntagged(b, m) == <<b, "any">>                                \* mutant

\* A library's file name: all but the portable one bear the machine.
SoName(b, m) == <<b, IF b = "portable" THEN "any" ELSE Arch(m)>>

Names == {SoName(b, m) : b \in Builds, m \in Machines}
Slots == Names \X Pids

NameFor(t) == SoName(asked[t], host[ProcessOf[t]].machine)
SlotFor(t) == <<NameFor(t), host[ProcessOf[t]].pid>>

\* The fast build is not trusted on other machines, but asked for all the same.
Accepts(b, p) == b = "fast" /\ host[p].forced = "" => Arch(host[p].machine) \in {"x86", "arm"}

-----------------------------------------------------------------------------
(* A codec is constructed.                                                 *)

Set(f, p, b, value) == [f EXCEPT ![p][b] = value]

Goto(t, place) == pc' = [pc EXCEPT ![t] = place]

Has(t, backend) ==
  /\ codec' = [codec EXCEPT ![t] = backend]
  /\ Goto(t, "idle")

NewCodec(t, code) ==
  LET p == ProcessOf[t]
      first == IF code = "rs" THEN "portable"
               ELSE IF host[p].forced \in Builds THEN host[p].forced ELSE Preferred(Builds)
  IN  /\ pc[t] = "idle"
      /\ want' = [want EXCEPT ![t] = code]
      /\ raced' = [raced EXCEPT ![t] = FALSE]
      /\ IF code = "conv" /\ host[p].forced = "python"
         THEN Has(t, "python") /\ UNCHANGED asked
         ELSE /\ asked' = [asked EXCEPT ![t] = first]
              /\ Goto(t, "asking") /\ codec' = [codec EXCEPT ![t] = NONE]
      /\ UNCHANGED <<host, globals, cache, tmp, misled, collided>>

(* What *_available's answer leads to: the class, the next build, the      *)
(* array code, or, of a backend that was asked for by name, an exception.  *)
Answered(t, yes) ==
  LET p == ProcessOf[t]
      b == asked[t]
      last == want[t] = "rs" \/ b = "portable"
      named == want[t] = "conv" /\ host[p].forced # ""
  IN  IF yes /\ Accepts(b, p) THEN Goto(t, "constructing") /\ UNCHANGED <<asked, codec>>
      ELSE IF named THEN Goto(t, "raised") /\ UNCHANGED <<asked, codec>>
      ELSE IF last THEN Has(t, "python") /\ UNCHANGED asked
      ELSE /\ asked' = [asked EXCEPT ![t] = Preferred(After(b))]
           /\ Goto(t, "asking") /\ UNCHANGED codec

\* `if _checked: return _lib is not None`, without the lock.
Ask(t) ==
  LET p == ProcessOf[t]  b == asked[t]
  IN  /\ pc[t] = "asking"
      /\ IF checked[p][b]
         THEN /\ Answered(t, lib[p][b] # NONE)
              /\ raced' = [raced EXCEPT ![t] = @ \/ lock[p][b] # NONE]
         ELSE Goto(t, "locking") /\ UNCHANGED <<asked, codec, raced>>
      /\ UNCHANGED <<host, globals, cache, tmp, want, misled, collided>>

LockUnchecked(t) ==                                                 \* mutant
  LET p == ProcessOf[t]  b == asked[t]
  IN  /\ pc[t] = "locking" /\ lock[p][b] = NONE
      /\ lock' = Set(lock, p, b, t) /\ checked' = Set(checked, p, b, TRUE)
      /\ Goto(t, "examining")
      /\ UNCHANGED <<host, lib, cache, tmp, want, asked, codec, raced, misled, collided>>

Lock(t) ==
  LET p == ProcessOf[t]  b == asked[t]
  IN  /\ pc[t] = "locking" /\ lock[p][b] = NONE
      /\ IF checked[p][b]
         THEN Answered(t, lib[p][b] # NONE) /\ UNCHANGED <<checked, lock>>
         ELSE /\ lock' = Set(lock, p, b, t)
              /\ checked' = Set(checked, p, b, TRUE)
              /\ Goto(t, "examining") /\ UNCHANGED <<asked, codec>>
      /\ UNCHANGED <<host, lib, cache, tmp, want, raced, misled, collided>>

\* The probe ends, with the library loaded or without.
Ended(t, library) ==
  LET p == ProcessOf[t]  b == asked[t]
  IN  /\ lib' = Set(lib, p, b, library)
      /\ lock' = Set(lock, p, b, NONE)
      /\ Answered(t, library # NONE)
      /\ UNCHANGED checked

\* Another compiles under the temporary name that t would use.
Contended(t) ==
  \E u \in Threads \ {t} :
    pc[u] \in {"compiling", "writing", "replacing"} /\ SlotFor(u) = SlotFor(t)

(* The gates, and os.path.exists(so_path).                                 *)
Examine(t) ==
  LET b == asked[t]
  IN  /\ pc[t] = "examining"
      /\ IF ~Gate(b, host[ProcessOf[t]].machine) THEN Ended(t, NONE) /\ UNCHANGED collided
         ELSE /\ IF cache[NameFor(t)] # NONE
                 THEN Goto(t, "loading") /\ UNCHANGED collided
                 ELSE /\ Goto(t, "compiling")
                      /\ collided' = [collided EXCEPT ![NameFor(t)] = @ \/ Contended(t)]
              /\ UNCHANGED <<globals, asked, codec>>
      /\ UNCHANGED <<host, cache, tmp, want, raced, misled>>

(* The linker opens its output.  One that is there it unlinks first: its   *)
(* writer goes on writing a file that has no name.                         *)
Opened(t) ==
  LET p == ProcessOf[t]
  IN  /\ pc[t] = "compiling"
      /\ tmp' = [tmp EXCEPT ![SlotFor(t)] =
                   [arch |-> Arch(host[p].machine), whole |-> FALSE, by |-> p]]
      /\ Goto(t, "writing")
      /\ UNCHANGED <<host, globals, cache, want, asked, codec, raced, misled, collided>>

Finished(p, file) ==
  IF file # NONE /\ file.by = p THEN [file EXCEPT !.whole = TRUE, !.by = NONE] ELSE file

\* The output is complete, under whatever name it has by now.
Compiled(t) ==
  LET p == ProcessOf[t]
  IN  /\ pc[t] = "writing" /\ asked[t] \in host[p].compiles
      /\ tmp' = [tmp EXCEPT ![SlotFor(t)] = Finished(p, @)]
      /\ cache' = [cache EXCEPT ![NameFor(t)] = Finished(p, @)]
      /\ Goto(t, "replacing")
      /\ UNCHANGED <<host, globals, want, asked, codec, raced, misled, collided>>

\* No compiler, an error, or more than a minute: the output is left, or removed.
CompileFails(t) ==
  /\ pc[t] \in {"compiling", "writing"} /\ asked[t] \notin host[ProcessOf[t]].compiles
  /\ \/ UNCHANGED tmp
     \/ pc[t] = "writing" /\ tmp' = [tmp EXCEPT ![SlotFor(t)] = NONE]
  /\ Ended(t, NONE)
  /\ UNCHANGED <<host, cache, want, raced, misled, collided>>

(* os.replace(tmp_path, so_path): what lies under the temporary name,      *)
(* whoever wrote it and however far it got.                                *)
Replace(t) ==
  /\ pc[t] = "replacing"
  /\ IF tmp[SlotFor(t)] = NONE
     THEN Ended(t, NONE) /\ UNCHANGED <<cache, tmp>>
     ELSE /\ cache' = [cache EXCEPT ![NameFor(t)] = tmp[SlotFor(t)]]
          /\ tmp' = [tmp EXCEPT ![SlotFor(t)] = NONE]
          /\ Goto(t, "loading") /\ UNCHANGED <<globals, asked, codec>>
  /\ UNCHANGED <<host, want, raced, misled, collided>>

\* ctypes.CDLL: a library of another architecture, or half of one, raises.
Load(t) ==
  LET p == ProcessOf[t]
      file == cache[NameFor(t)]
      own == file.arch = Arch(host[p].machine)
  IN  /\ pc[t] = "loading"
      /\ Ended(t, IF file.whole /\ own THEN file ELSE NONE)
      /\ misled' = [misled EXCEPT ![p] = @ \/ (asked[t] = "portable" /\ ~own)]
      /\ UNCHANGED <<host, cache, tmp, want, raced, collided>>

(* The class asks again, and makes its decoder with the module's library.  *)
Construct(t) ==
  LET p == ProcessOf[t]  b == asked[t]
  IN  /\ pc[t] = "constructing"
      /\ IF lib[p][b] # NONE THEN Has(t, b) ELSE Goto(t, "raised") /\ UNCHANGED codec
      /\ UNCHANGED <<host, globals, cache, tmp, want, asked, raced, misled, collided>>

Fresh == [b \in Builds |-> NONE]

Orphaned(p, file) == IF file # NONE /\ file.by = p THEN [file EXCEPT !.by = NONE] ELSE file

\* The process is killed with its compiler, whatever it was doing, and started again.
Kill(p) ==
  LET Of(f, value) == [t \in Threads |-> IF ProcessOf[t] = p THEN value ELSE f[t]]
  IN  /\ checked' = [checked EXCEPT ![p] = [b \in Builds |-> FALSE]]
      /\ lib' = [lib EXCEPT ![p] = Fresh] /\ lock' = [lock EXCEPT ![p] = Fresh]
      /\ tmp' = [s \in Slots |-> Orphaned(p, tmp[s])]
      /\ cache' = [n \in Names |-> Orphaned(p, cache[n])]
      /\ pc' = Of(pc, "idle") /\ codec' = Of(codec, NONE)
      /\ want' = Of(want, "conv") /\ asked' = Of(asked, "portable")
      /\ raced' = Of(raced, FALSE) /\ misled' = [misled EXCEPT ![p] = FALSE]
      /\ UNCHANGED <<host, collided>>

Init ==
  /\ host \in Deployments
  /\ checked = [p \in Processes |-> [b \in Builds |-> FALSE]]
  /\ lib = [p \in Processes |-> Fresh] /\ lock = lib
  /\ cache = [n \in Names |-> NONE] /\ tmp = [s \in Slots |-> NONE]
  /\ pc = [t \in Threads |-> "idle"] /\ codec = [t \in Threads |-> NONE]
  /\ want = [t \in Threads |-> "conv"] /\ asked = [t \in Threads |-> "portable"]
  /\ raced = [t \in Threads |-> FALSE] /\ misled = [p \in Processes |-> FALSE]
  /\ collided = [n \in Names |-> FALSE]

Next ==
  \/ \E t \in Threads :
       \/ \E code \in {"conv", "rs"} : NewCodec(t, code)
       \/ Ask(t) \/ Lock(t) \/ Examine(t)
       \/ Opened(t) \/ Compiled(t) \/ CompileFails(t) \/ Replace(t) \/ Load(t)
       \/ Construct(t)
  \/ \E p \in Mortal : Kill(p)

Spec == Init /\ [][Next]_vars

-----------------------------------------------------------------------------
(* "Compiling is not free, and a missing compiler shouldn't be retried":   *)
(* once a build has been answered for, no later probe takes its library    *)
(* away.  A codec that has a backend has one its process holds loaded and  *)
(* its machine can run, and no constructor finds the library gone that it  *)
(* was just told of.                                                       *)
BackendHeld ==
  \A t \in Threads :
    LET p == ProcessOf[t]
    IN  /\ codec[t] \in Builds => /\ lib[p][codec[t]] # NONE
                                  /\ lib[p][codec[t]].arch = Arch(host[p].machine)
                                  /\ codec[t] = "sse" => host[p].machine # "x86_old"
        /\ pc[t] = "constructing" => lib[p][asked[t]] # NONE

\* What a process would rather have had than backend b, and its machine can run.
Better(b, t) ==
  LET p == ProcessOf[t]
      offered == IF want[t] = "rs" THEN {"portable"}
                 ELSE {x \in Builds : Gate(x, host[p].machine) /\ Accepts(x, p)}
  IN  {x \in offered : b = "python" \/ Preference[x] < Preference[b]}

(* A codec is for its life on a slower backend than its machine has for a  *)
(* cause only: the better build did not compile, the codec was constructed *)
(* while another thread's probe was under way, the portable library its    *)
(* process found in the shared directory was another architecture's, or    *)
(* two processes with the same pid, of two machines or containers, once    *)
(* compiled that build at the same time, under one temporary name.         *)
(* Processes that are killed half way, or that probe at the same time with *)
(* pids of their own, cost each other nothing.                             *)
SlowForCause ==
  \A t \in Threads :
    LET p == ProcessOf[t]
    IN  codec[t] # NONE /\ host[p].forced = "" /\ ~raced[t] =>
          \A b \in Better(codec[t], t) :
            \/ b \notin host[p].compiles
            \/ b = "portable" /\ misled[p]
            \/ collided[SoName(b, host[p].machine)]
=============================================================================
