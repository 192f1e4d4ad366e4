--------------------------- MODULE MCChunkDigest ---------------------------
EXTENDS ChunkDigest

\* Chunks of two units. The first package is big and ends in half a chunk, so
\* that of four threads the third reads one chunk alone and the fourth none; in
\* the second every thread has one chunk; the third is small, and its
\* central directory ends in half a chunk; the fourth has more chunks than the
\* buffer may take.
Sized(c, d, e) == [contents |-> c, centralDir |-> d, eocd |-> e]

MCPackages == {Sized(9, 2, 1), Sized(8, 1, 1), Sized(4, 3, 1), Sized(12, 5, 3)}
=============================================================================
