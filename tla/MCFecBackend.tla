---------------------------- MODULE MCFecBackend ----------------------------
(* Two threads of one process, and one of another that shares its cache.   *)
EXTENDS FecBackend, TLC

CONSTANTS t1, t2, t3

MCProcessOf == (t1 :> 1) @@ (t2 :> 1) @@ (t3 :> 2)
Symmetry == Permutations({t1, t2})

On(machine, compiles, forced, pid) ==
  [machine |-> machine, compiles |-> compiles, forced |-> forced, pid |-> pid]

(* Like machines with one pid, one with an override; unlike ones with one  *)
(* pid; a build that one of them cannot compile, or may not use; overrides.*)
MCDeployments ==
  {<<On("x86", Builds, "", 1), On("x86", Builds, "fast", 1)>>,
   <<On("arm", Builds, "", 1), On("riscv", Builds, "", 1)>>,
   <<On("x86", Builds \ {"fast"}, "", 1), On("x86", Builds, "", 2)>>,
   <<On("x86_old", {"sse", "portable"}, "", 1), On("riscv", Builds, "", 2)>>,
   <<On("x86", Builds, "fast", 1), On("x86", {}, "python", 2)>>}
=============================================================================
