------------------------------ MODULE TwinOps -------------------------------
(***************************************************************************)
(* What it means for a native core c (CoreOps) and a Python state s        *)
(* (RuntimeOps) to be in agreement, and what separates them: the core      *)
(* keeps the byte counts of the wire, Python keeps them as floats.         *)
(***************************************************************************)
EXTENDS RuntimeOps

CONSTANTS
    FloatBits,   \* the precision of a float, 53
    WireBits     \* the width of a byte count on the wire, 64

ASSUME WidthsArePositive == FloatBits \in Nat \ {0} /\ WireBits \in Nat \ {0}

ASSUME SizesAreWireNumbers == Size \subseteq 0..(2^WireBits - 1)

-----------------------------------------------------------------------------
(* Sizes.                                                                  *)

\* The distance of adjacent floats around bytes, where it is more than one.
Spacing(bytes) ==
    CHOOSE u \in {2^k : k \in 1..WireBits} :
        2^(FloatBits - 1) * u <= bytes /\ bytes < 2^FloatBits * u

\* The quotient u64 / MEBIBYTE, the nearest float and of two the even one.  MEBIBYTE is
\* a power of two, so the unit is immaterial: this is the size in bytes it stands for.
AsFloat(bytes) ==
    IF bytes <= 2^FloatBits THEN bytes
    ELSE LET u == Spacing(bytes)
             below == bytes \div u
             rest == bytes % u
             up == 2 * rest > u \/ (2 * rest = u /\ below % 2 = 1)
         IN  u * (IF up THEN below + 1 ELSE below)

\* An operation as the Python handler is given it.
Decoded(op) == [op EXCEPT !.bytes = AsFloat(@)]

\* The wire has room for bytes: a size near the greatest is rounded up beyond it.
FitsField(bytes) == AsFloat(bytes) < 2^WireBits

SizesOf(c) == {c.operations[o].bytes : o \in Processed(c)}

\* Python tells the sizes of S apart, as it does all that are exactly representable.
ToldApart(S) == \A a, b \in S : AsFloat(a) = AsFloat(b) => a = b

-----------------------------------------------------------------------------
(* Agreement.                                                              *)

\* The policy names of runtime.py for the opcodes of core.cpp.
PolicyOf(opcode) ==
    CASE opcode = "keep" -> "none"
      [] opcode = "self_copy" -> "eliminate-self-copy"
      [] opcode = "collapse_alias" -> "collapse-aliased-resource-copy"
      [] opcode = "dedupe" -> "deduplicate-identical-transfer"
      [] opcode = "orphan_sync" -> "remove-orphan-sync"
      [] opcode = "empty_sync" -> "remove-empty-sync"
      [] opcode = "reuse_allocation" -> "reuse-transient-buffer"

\* Both refuse the same events,
SameAdmission(c, s, frame) ==
    /\ s.ids = Processed(c)
    /\ Known(s) = Registered(c)
    /\ frame = c.currentFrame

\* remember the same transfers and allocations, of the same resources,
SameProvenance(c, s) ==
    \A r \in Registered(c) :
        LET resource == c.resources[r]
            allocations == {s.activeBuffers[key].id : key \in BuffersOf(s, r)}
        IN  /\ (resource.copy # NoOp) <=> (r \in DOMAIN s.lastCopy)
            /\ r \in DOMAIN s.lastCopy => s.lastCopy[r].id = resource.copy
            /\ allocations = {resource.allocation} \ {NoOp}

\* and have rewritten the same dependencies.
SameReplacements(c, s) ==
    /\ DOMAIN s.replacements = {o \in Processed(c) : c.operations[o].eliminated}
    /\ \A o \in DOMAIN s.replacements :
          s.replacements[o] = c.operations[o].replacements
    /\ s.removed = {o \in Processed(c) : c.operations[o].removed}

SameState(c, s, frame) ==
    SameAdmission(c, s, frame) /\ SameProvenance(c, s) /\ SameReplacements(c, s)
=============================================================================
