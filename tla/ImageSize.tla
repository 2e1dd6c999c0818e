----------------------------- MODULE ImageSize -----------------------------
(* article-image-lifecycle/run.py, lines 161 to 166: the size of an image  *)
(* that fills the image file system beyond one percent of its capacity.    *)
EXTENDS Integers

CONSTANT MiB   \* units of size in a mebibyte

ASSUME SizeAssumption == MiB \in Nat \ {0}

GiB == 1024 * MiB
Grain == 64 * MiB
SizeLimit == 6 * GiB

Larger(a, b) == IF a >= b THEN a ELSE b

\* max(512 MiB, capacity // 100 - used + 256 MiB)
WantedSize(capacity, used) == Larger(512 * MiB, capacity \div 100 - used + 256 * MiB)

\* Mutant: without the 63 MiB.
RoundSizeDown(size) == (size \div Grain) * Grain

\* To a multiple of 64 MiB, up unless less than one MiB is left over.
RoundSize(size) == ((size + 63 * MiB) \div Grain) * Grain

RequiredSize(capacity, used) == RoundSize(WantedSize(capacity, used))
=============================================================================
