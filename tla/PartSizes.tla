----------------------------- MODULE PartSizes -----------------------------
(***************************************************************************)
(* The size of the parts a NAR is uploaded in (client/multipart.go,        *)
(* partSizeForNAR), with the code's constants. Parts are cut from the      *)
(* compressed stream, whose length is not known when the size is chosen.   *)
(* For the NARs considered every sum is far below 2^64 and does not wrap.  *)
(***************************************************************************)
EXTENDS Integers

MiB               == 1048576
multipartPartSize == 10 * MiB
maxPartSize       == 5 * 1024 * MiB
targetMaxParts    == 9000
step              == 16 * MiB

\* S3's limit, which RequestMorePartsHandler enforces.
PartNumberLimit   == 10000

CeilDiv(a, b) == (a + b - 1) \div b

partSizeForNAR(narSize) ==
    LET size    == CeilDiv(narSize, targetMaxParts)
        rounded == CeilDiv(size, step) * step
    IN  IF size <= multipartPartSize THEN multipartPartSize
        ELSE IF rounded > maxPartSize THEN maxPartSize ELSE rounded

\* zstd's bound on what it emits for n bytes, if they are 128 KiB or more.
Compressed(n) == n + (n \div 256)

\* The largest NAR that the part sizes are chosen for, 44 TiB.
LargestNar == targetMaxParts * maxPartSize
=============================================================================
