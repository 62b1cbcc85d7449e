-------------------------- MODULE ThreadAttributes --------------------------
(***************************************************************************)
(* How the component reads and sets the CPU affinity and the scheduling    *)
(* priority of its threads (AffinityUtils.h).  A mask is the set of its    *)
(* bits, which are CPU numbers; the code keeps one in WIDTH = 64 bits and  *)
(* writes it as a hexadecimal string.                                      *)
(*                                                                         *)
(* External: the kernel.  The process may use the CPUs of Allowed, and it  *)
(* needs the permission for real time to be given a priority above 0.      *)
(***************************************************************************)
EXTENDS Integers

CONSTANTS Cpus, Allowed, WIDTH,
          NoMask,           \* the empty string
          Malformed         \* a string with another character or too many digits

ASSUME CpuAssumption ==
    /\ Cpus \subseteq Nat /\ Allowed \subseteq Cpus /\ Allowed # {}
    /\ WIDTH \in Nat

ASSUME MaskAssumption ==
    /\ NoMask # Malformed
    /\ \A mask \in SUBSET Cpus : mask \notin {NoMask, Malformed}

\* 2 to the power of a CPU number beyond the width overflows to 0.
ipow(j) == IF j < WIDTH THEN {j} ELSE {}

Masks == SUBSET {j \in Cpus : j < WIDTH}

Strings == Masks \cup {NoMask, Malformed}

ConvertString(str) == [success |-> str \notin {NoMask, Malformed}, value |-> str]

\* What a thread of this affinity has afterwards.  The kernel refuses a set without
\* any CPU the process may use.
setAffinityUnchecked(current, str) ==
    IF ConvertString(str).success THEN {j \in Cpus : ipow(j) \cap str # {}} ELSE {}

setAffinity(current, str) ==
    IF ConvertString(str).success
    THEN LET cpus == {j \in Cpus : ipow(j) \cap str # {}} \cap Allowed
         IN  IF cpus = {} THEN current ELSE cpus
    ELSE current

getAffinity(current) == UNION {ipow(j) : j \in current}

\* Round robin above 0, the default policy at 0, neither below.
setPolicyAndPriority(current, priority, permitted) ==
    IF priority = 0 \/ (priority > 0 /\ permitted) THEN priority ELSE current
=============================================================================
