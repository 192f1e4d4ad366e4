------------------------- MODULE ChunkDigestProofs -------------------------
(***************************************************************************)
(* The safety of ChunkDigest, for any package, chunk size and number of    *)
(* threads.                                                                *)
(*                                                                         *)
(* Each reader owns a run of slots: a thread those of its share, the       *)
(* caller the rest.  The slots that a reader has passed are filled, those  *)
(* before it are not, and its place in the source is the place of its next *)
(* slot.  The shares do not overlap and together cover the contents, so    *)
(* when all threads have succeeded the contents are done.                  *)
(*                                                                         *)
(* The sections after it are about HitlsLoader, from which these readers   *)
(* and the caller get their digest functions, and about SigningBlock, the  *)
(* search for the signature in the same source file.  The search reads one *)
(* sub-block at a time: the invariant says that the blocks read are the    *)
(* first heads of the array, that each fits, and that what was read is the *)
(* sum of what they ask for.                                               *)
(***************************************************************************)
EXTENDS ChunkDigest, HitlsLoader, SigningBlock, FiniteSetTheorems,
        WellFoundedInduction, TLAPS

Base(i) == ChunkNumToUpdate * i
EndSlot(i) == Least(ChunkNumToUpdate * (i + 1), ZipChunks)

FirstSlot == IF source = 1 THEN 0
             ELSE IF source = 2 THEN ZipChunks
             ELSE ZipChunks + Chunks(size.centralDir)

FilledFrom(a, b) == \A k \in Slots : a <= k /\ k < b => buffer[k] # Unset
EmptyFrom(a, b) == \A k \in Slots : a <= k /\ k < b => buffer[k] = Unset

Computing == pc \in {"threads", "sources", "final"}

Prepared ==
    Computing => DOMAIN buffer = Slots /\ Allowed /\ Suitable /\ eocd.patched

ThreadPlace(i) ==
    /\ thr[i] # "none"
    /\ thr[i] = "new" => pos[i] = 0 /\ EmptyFrom(Base(i), EndSlot(i))
    /\ thr[i] = "reading" =>
        /\ Base(i) <= offset[i] /\ offset[i] <= EndSlot(i)
        /\ FileBegin(i) + pos[i] = Least(CHUNK_SIZE * offset[i], FileEnd(i))
        /\ FilledFrom(Base(i), offset[i])
        /\ EmptyFrom(offset[i], EndSlot(i))
    /\ thr[i] = "ok" => FilledFrom(Base(i), EndSlot(i))
    /\ thr[i] = "failed" => faulty

ThreadsPlaced ==
    /\ pc = "threads" =>
        /\ EmptyFrom(ZipChunks, ChunkCount)
        /\ \A i \in Threads : ThreadPlace(i)
        /\ pos[Main] = 0
    /\ pc # "threads" => \A i \in Threads : thr[i] = "none"

CallerPlaced ==
    /\ pc = "threads" \/ (pc = "sources" /\ source < 3) => eocd.pos = 0
    /\ pc = "sources" =>
        /\ FirstSlot <= offset[Main]
        /\ offset[Main] <= FirstSlot + Chunks(SourceSize(source))
        /\ pos[Main] = Least(CHUNK_SIZE * (offset[Main] - FirstSlot), SourceSize(source))
        /\ FilledFrom(0, offset[Main])
        /\ EmptyFrom(offset[Main], ChunkCount)
    /\ pc = "final" => FilledFrom(0, ChunkCount)

CleanWithoutFault ==
    Computing /\ ~faulty => \A k \in Slots : buffer[k] # Short

DigestInv ==
    /\ TypeOK
    /\ SlotsHoldTheirChunk
    /\ Prepared
    /\ ThreadsPlaced
    /\ CallerPlaced
    /\ CleanWithoutFault
    /\ HandedOutComplete
    /\ RefusalExplained

-----------------------------------------------------------------------------
(* Arithmetic of chunks and shares.                                        *)

\* Multiplication by a positive number keeps the strict order.
LEMMA TimesOrder ==
  ASSUME NEW c \in Nat \ {0}, NEW a \in Int, NEW b \in Int
  PROVE  /\ c * a \in Int
         /\ c * a < c * b <=> a < b
         /\ c * a <= c * b <=> a <= b
         /\ c * (a + 1) = c * a + c
<1>1. a < b => c * a < c * b
  OBVIOUS
<1>2. b < a => c * b < c * a
  OBVIOUS
<1>3. c * a \in Int /\ c * b \in Int /\ c * (a + 1) = c * a + c
  OBVIOUS
<1>. QED
  BY <1>1, <1>2, <1>3

\* The quotient of Nat by a positive number.
LEMMA Quotient ==
  ASSUME NEW n \in Nat, NEW c \in Nat \ {0}
  PROVE  n \div c \in Nat /\ c * (n \div c) <= n /\ n < c * (n \div c) + c
OBVIOUS

\* Chunks counts the chunks that begin before the end.
LEMMA ChunksCover ==
  ASSUME NEW n \in Nat
  PROVE  /\ Chunks(n) \in Nat
         /\ \A k \in Nat : CHUNK_SIZE * k < n <=> k < Chunks(n)
<1>. DEFINE q == Chunks(n)
<1>1. CHUNK_SIZE \in Nat \ {0} /\ n + CHUNK_SIZE - 1 \in Nat
  BY ChunkAssumption DEF ChunkAssumption
<1>2. /\ q \in Nat
      /\ CHUNK_SIZE * q <= n + CHUNK_SIZE - 1
      /\ n + CHUNK_SIZE - 1 < CHUNK_SIZE * q + CHUNK_SIZE
  BY <1>1, Quotient DEF Chunks
<1>3. ASSUME NEW k \in Nat  PROVE CHUNK_SIZE * k < n <=> k < q
  <2>. HIDE DEF q
  <2>1. CHUNK_SIZE * k \in Int /\ CHUNK_SIZE * q \in Int
    BY <1>1, <1>2, TimesOrder
  <2>2. k < q => CHUNK_SIZE * (k + 1) <= CHUNK_SIZE * q
    BY <1>1, <1>2, TimesOrder
  <2>3. q <= k => CHUNK_SIZE * q <= CHUNK_SIZE * k
    BY <1>1, <1>2, TimesOrder
  <2>4. CHUNK_SIZE * (k + 1) = CHUNK_SIZE * k + CHUNK_SIZE
    BY <1>1, TimesOrder
  <2>. QED
    BY <1>1, <1>2, <2>1, <2>2, <2>3, <2>4
<1>. QED
  BY <1>2, <1>3

\* The sizes of the package are numbers.
LEMMA SizesAreNumbers ==
  ASSUME size \in Packages
  PROVE  /\ size.contents \in Nat /\ size.centralDir \in Nat /\ size.eocd \in Nat
         /\ ZipChunks \in Nat /\ Chunks(size.centralDir) \in Nat
         /\ Chunks(size.eocd) \in Nat /\ ChunkCount \in Nat
<1>1. size.contents \in Nat /\ size.centralDir \in Nat /\ size.eocd \in Nat
  BY ChunkAssumption DEF ChunkAssumption
<1>. QED
  BY <1>1, ChunksCover DEF ZipChunks, ChunkCount

\* The share of a thread: its slots are those of the chunks of its part of the
\* file.
LEMMA ShareFits ==
  ASSUME size \in Packages, NEW i \in Threads
  PROVE  /\ ChunkNumToUpdate \in Nat /\ Base(i) \in Nat /\ EndSlot(i) \in Nat
         /\ FileBegin(i) = CHUNK_SIZE * Base(i)
         /\ FileBegin(i) \in Nat /\ FileEnd(i) \in Nat
         /\ FileEnd(i) <= size.contents
         /\ EndSlot(i) <= ZipChunks
         /\ \A k \in Nat : CHUNK_SIZE * k < FileEnd(i) <=> k < EndSlot(i)
         /\ \/ FileEnd(i) = size.contents
            \/ \E m \in Nat : FileEnd(i) = CHUNK_SIZE * m
<1>. DEFINE N == ZIP_UPDATE_DIGEST_THREADS_NUM
            per == ChunkNumToUpdate
            top == per * (i + 1)
<1>1. CHUNK_SIZE \in Nat \ {0} /\ N \in Nat \ {0} /\ i \in Nat
  BY ChunkAssumption DEF ChunkAssumption, Threads
<1>2. ZipChunks \in Nat /\ size.contents \in Nat
  BY SizesAreNumbers
<1>3. per \in Nat
  BY <1>1, <1>2, Quotient DEF ChunkNumToUpdate
<1>4. Base(i) \in Nat /\ top \in Nat
  BY <1>1, <1>3 DEF Base
<1>5. FileBegin(i) = CHUNK_SIZE * Base(i)
  BY DEF FileBegin, Base
<1>6. FileEnd(i) = Least(CHUNK_SIZE * top, size.contents)
  BY DEF FileEnd
<1>7. EndSlot(i) = Least(top, ZipChunks)
  BY DEF EndSlot
<1>. HIDE DEF top, per
<1>8. CHUNK_SIZE * Base(i) \in Nat /\ CHUNK_SIZE * top \in Nat
  BY <1>1, <1>4
<1>9. ASSUME NEW k \in Nat  PROVE CHUNK_SIZE * k < FileEnd(i) <=> k < EndSlot(i)
  <2>1. CHUNK_SIZE * k < size.contents <=> k < ZipChunks
    BY <1>2, ChunksCover DEF ZipChunks
  <2>2. CHUNK_SIZE * k \in Int /\ (CHUNK_SIZE * k < CHUNK_SIZE * top <=> k < top)
    BY <1>1, <1>4, TimesOrder
  <2>. QED
    BY <1>2, <1>4, <1>6, <1>7, <1>8, <2>1, <2>2 DEF Least
<1>10. EndSlot(i) \in Nat /\ EndSlot(i) <= ZipChunks
  BY <1>2, <1>4, <1>7 DEF Least
<1>11. /\ FileEnd(i) \in Nat /\ FileEnd(i) <= size.contents
       /\ FileEnd(i) = size.contents \/ \E m \in Nat : FileEnd(i) = CHUNK_SIZE * m
  BY <1>2, <1>4, <1>6, <1>8 DEF Least
<1>. QED
  BY <1>3, <1>4, <1>5, <1>8, <1>9, <1>10, <1>11 DEF per

\* The shares of two threads do not overlap.
LEMMA SharesApart ==
  ASSUME size \in Packages, NEW i \in Threads, NEW j \in Threads, i # j, NEW k \in Int,
         Base(i) <= k, k < EndSlot(i)
  PROVE  ~(Base(j) <= k /\ k < EndSlot(j))
<1>. DEFINE per == ChunkNumToUpdate
<1>1. i \in Nat /\ j \in Nat /\ ZipChunks \in Nat
  BY SizesAreNumbers, ChunkAssumption DEF ChunkAssumption, Threads
<1>2. per \in Nat /\ Base(i) = per * i /\ Base(j) = per * j
  BY ShareFits DEF Base
<1>. HIDE DEF per
<1>3. per * i \in Nat /\ per * j \in Nat /\ per * (i + 1) \in Nat /\ per * (j + 1) \in Nat
  BY <1>1, <1>2
<1>4. EndSlot(i) <= per * (i + 1) /\ EndSlot(j) <= per * (j + 1)
  BY <1>1, <1>3 DEF EndSlot, Least, per
<1>5. CASE i < j
  <2>1. per * (i + 1) <= per * j
    BY <1>1, <1>2, <1>5
  <2>. QED
    BY <1>2, <1>3, <1>4, <2>1, ShareFits
<1>6. CASE j < i
  <2>1. per * (j + 1) <= per * i
    BY <1>1, <1>2, <1>6
  <2>. QED
    BY <1>2, <1>3, <1>4, <2>1, ShareFits
<1>. QED
  BY <1>1, <1>5, <1>6

\* Every chunk of the contents is in some share.
LEMMA SharesCover ==
  ASSUME size \in Packages, NEW k \in Nat, k < ZipChunks
  PROVE  \E i \in Threads : Base(i) <= k /\ k < EndSlot(i)
<1>. DEFINE N == ZIP_UPDATE_DIGEST_THREADS_NUM
            per == ChunkNumToUpdate
            i == k \div per
<1>1. N \in Nat \ {0} /\ ZipChunks \in Nat
  BY SizesAreNumbers, ChunkAssumption DEF ChunkAssumption
<1>2. per \in Nat /\ ZipChunks <= N * per
  <2>1. ZipChunks + N - 1 \in Nat
    BY <1>1
  <2>. QED
    BY <1>1, <2>1, Quotient DEF ChunkNumToUpdate
<1>. HIDE DEF N
<1>3. per # 0
  <2>. SUFFICES ASSUME per = 0  PROVE FALSE
    OBVIOUS
  <2>1. N * per = 0
    BY <1>1
  <2>. QED
    BY <1>1, <1>2, <2>1
<1>. HIDE DEF per
<1>4. i \in Nat /\ per * i <= k /\ k < per * i + per
  BY <1>2, <1>3, Quotient
<1>. HIDE DEF i
<1>5. per * (i + 1) = per * i + per /\ per * N = N * per
  BY <1>1, <1>2, <1>4
<1>6. i < N
  <2>1. per * i < per * N
    BY <1>1, <1>2, <1>4, <1>5
  <2>. QED
    BY <1>1, <1>2, <1>3, <1>4, <2>1, TimesOrder
<1>7. i \in Threads
  BY <1>1, <1>4, <1>6 DEF Threads, N
<1>8. Base(i) = per * i /\ EndSlot(i) = Least(per * (i + 1), ZipChunks)
  BY DEF Base, EndSlot, per
<1>9. k < EndSlot(i)
  BY <1>1, <1>2, <1>4, <1>5, <1>8 DEF Least
<1>. QED
  BY <1>4, <1>7, <1>8, <1>9

-----------------------------------------------------------------------------
(* A turn of a reader.                                                     *)

\* Where the slots of r's source begin, and where those of r end.
SourceBase(r) == IF r = Main THEN FirstSlot ELSE 0
OwnEnd(r) == IF r = Main THEN FirstSlot + Chunks(SourceSize(source)) ELSE EndSlot(r)

\* The reader is at a slot of its own, and that slot is the one of its place.
LEMMA ReaderPlaced ==
  ASSUME DigestInv, NEW r \in Readers, Reading(r), Remaining(r) > 0
  PROVE  /\ Prepared /\ DOMAIN buffer = Slots /\ eocd.patched
         /\ r \in Threads => pc = "threads"
         /\ r = Main => pc = "sources"
         /\ SourceBase(r) \in Nat /\ OwnEnd(r) \in Nat /\ OwnEnd(r) <= ChunkCount
         /\ offset[r] - SourceBase(r) \in Nat /\ offset[r] \in Nat
         /\ size[SourceOf(r)] \in Nat /\ End(r) \in Nat /\ End(r) <= size[SourceOf(r)]
         /\ End(r) = size[SourceOf(r)] \/ \E m \in Nat : End(r) = CHUNK_SIZE * m
         /\ Start(r) + pos[r] = CHUNK_SIZE * (offset[r] - SourceBase(r))
         /\ Start(r) + pos[r] \in Nat
         /\ Remaining(r) = End(r) - (Start(r) + pos[r])
         /\ \A k \in Nat : CHUNK_SIZE * k < End(r) <=> k + SourceBase(r) < OwnEnd(r)
         /\ EmptyFrom(offset[r], OwnEnd(r))
         /\ \A k \in Slots : SourceBase(r) <= k /\ k < OwnEnd(r) =>
                SlotChunk(k) = ChunkOf(SourceOf(r), k - SourceBase(r))
<1>0. /\ size \in Packages /\ CHUNK_SIZE \in Nat \ {0} /\ ZIP_UPDATE_DIGEST_THREADS_NUM \in Nat \ {0}
      /\ TypeOK
  BY ChunkAssumption DEF ChunkAssumption, DigestInv, TypeOK
<1>1. /\ size.contents \in Nat /\ size.centralDir \in Nat /\ size.eocd \in Nat
      /\ ZipChunks \in Nat /\ Chunks(size.centralDir) \in Nat
      /\ Chunks(size.eocd) \in Nat /\ ChunkCount \in Nat
      /\ ChunkCount = ZipChunks + Chunks(size.centralDir) + Chunks(size.eocd)
  BY <1>0, SizesAreNumbers DEF ChunkCount
<1>2. pos[r] \in Nat /\ offset[r] \in 0 .. ChunkCount
  BY <1>0 DEF TypeOK
<1>3. CASE r \in Threads
  <2>1. r # Main
    BY <1>0, <1>3 DEF Threads, Main
  <2>2. thr[r] = "reading" /\ pc = "threads"
    BY <2>1, <1>3 DEF Reading, DigestInv, ThreadsPlaced
  <2>3. /\ Base(r) <= offset[r] /\ offset[r] <= EndSlot(r)
        /\ FileBegin(r) + pos[r] = Least(CHUNK_SIZE * offset[r], FileEnd(r))
        /\ EmptyFrom(offset[r], EndSlot(r))
    BY <1>3, <2>2 DEF DigestInv, ThreadsPlaced, ThreadPlace
  <2>4. Start(r) = FileBegin(r) /\ End(r) = FileEnd(r) /\ SourceOf(r) = "contents"
        /\ SourceBase(r) = 0 /\ OwnEnd(r) = EndSlot(r)
    BY <2>1 DEF Start, End, SourceOf, SourceBase, OwnEnd
  <2>5. /\ EndSlot(r) \in Nat /\ FileBegin(r) \in Nat /\ FileEnd(r) \in Nat
        /\ FileEnd(r) <= size.contents /\ EndSlot(r) <= ZipChunks
        /\ \A k \in Nat : CHUNK_SIZE * k < FileEnd(r) <=> k < EndSlot(r)
        /\ FileEnd(r) = size.contents \/ \E m \in Nat : FileEnd(r) = CHUNK_SIZE * m
    BY <1>0, <1>3, ShareFits
  <2>6. CHUNK_SIZE * offset[r] \in Nat
    BY <1>0, <1>1, <1>2
  <2>7. Remaining(r) = FileEnd(r) - (FileBegin(r) + pos[r])
    BY <2>4 DEF Remaining
  <2>8. FileBegin(r) + pos[r] = CHUNK_SIZE * offset[r]
    BY <1>2, <2>3, <2>5, <2>6, <2>7 DEF Least
  <2>9. \A k \in Slots : k < EndSlot(r) => SlotChunk(k) = ChunkOf("contents", k - 0)
    BY <1>1, <2>5 DEF Slots, SlotChunk
  <2>10. Prepared /\ DOMAIN buffer = Slots /\ eocd.patched
    BY <2>2 DEF DigestInv, Prepared, Computing
  <2>11. offset[r] - 0 = offset[r] /\ offset[r] \in Nat
    BY <1>1, <1>2
  <2>12. \A k \in Nat : k + 0 = k
    OBVIOUS
  <2>. QED
    BY <1>1, <1>2, <2>1, <2>2, <2>3, <2>4, <2>5, <2>6, <2>7, <2>8, <2>9, <2>10, <2>11, <2>12
<1>4. CASE r = Main
  <2>1. pc = "sources" /\ source \in 1 .. 3 /\ Main \notin Threads
    BY <1>0, <1>4 DEF Reading, TypeOK, Threads, Main
  <2>2. /\ FirstSlot <= offset[r]
        /\ offset[r] <= FirstSlot + Chunks(SourceSize(source))
        /\ pos[r] = Least(CHUNK_SIZE * (offset[r] - FirstSlot), SourceSize(source))
        /\ EmptyFrom(offset[r], ChunkCount)
    BY <1>4, <2>1 DEF DigestInv, CallerPlaced
  <2>3. Start(r) = 0 /\ End(r) = SourceSize(source) /\ SourceOf(r) = Sources[source]
        /\ SourceBase(r) = FirstSlot /\ OwnEnd(r) = FirstSlot + Chunks(SourceSize(source))
        /\ size[SourceOf(r)] = SourceSize(source)
    BY <1>4 DEF Start, End, SourceOf, SourceBase, OwnEnd, SourceSize
  <2>4. /\ FirstSlot \in Nat /\ SourceSize(source) \in Nat
        /\ Chunks(SourceSize(source)) \in Nat
        /\ FirstSlot + Chunks(SourceSize(source)) <= ChunkCount
        /\ \A k \in Slots : FirstSlot <= k /\ k < FirstSlot + Chunks(SourceSize(source)) =>
             SlotChunk(k) = ChunkOf(Sources[source], k - FirstSlot)
    <3>1. CASE source = 1
      BY <1>1, <3>1 DEF FirstSlot, SourceSize, Sources, ZipChunks, Slots, SlotChunk
    <3>2. CASE source = 2
      BY <1>1, <3>2 DEF FirstSlot, SourceSize, Sources, Slots, SlotChunk
    <3>3. CASE source = 3
      BY <1>1, <3>3 DEF FirstSlot, SourceSize, Sources, Slots, SlotChunk
    <3>. QED
      BY <2>1, <3>1, <3>2, <3>3
  <2>5. offset[r] - FirstSlot \in Nat /\ CHUNK_SIZE * (offset[r] - FirstSlot) \in Nat
    BY <1>0, <1>1, <1>2, <2>2, <2>4
  <2>6. Remaining(r) = SourceSize(source) - (0 + pos[r])
    BY <2>3 DEF Remaining
  <2>7. 0 + pos[r] = CHUNK_SIZE * (offset[r] - FirstSlot)
    BY <1>2, <2>2, <2>4, <2>5, <2>6 DEF Least
  <2>8. ASSUME NEW k \in Nat
        PROVE  CHUNK_SIZE * k < SourceSize(source)
                 <=> k + FirstSlot < FirstSlot + Chunks(SourceSize(source))
    <3>1. CHUNK_SIZE * k < SourceSize(source) <=> k < Chunks(SourceSize(source))
      BY <2>4, ChunksCover
    <3>. QED
      BY <2>4, <3>1
  <2>9. EmptyFrom(offset[r], FirstSlot + Chunks(SourceSize(source)))
    BY <1>1, <2>2, <2>4 DEF EmptyFrom, Slots
  <2>10. Prepared /\ DOMAIN buffer = Slots /\ eocd.patched
    BY <2>1 DEF DigestInv, Prepared, Computing
  <2>. QED
    BY <1>1, <1>2, <1>4, <2>1, <2>2, <2>3, <2>4, <2>5, <2>6, <2>7, <2>8, <2>9, <2>10
<1>. QED
  BY <1>3, <1>4 DEF Readers

\* A turn is over slots of the reader's own, all empty, and what is read for
\* each of them is its chunk.
LEMMA TurnFits ==
  ASSUME DigestInv, NEW r \in Readers, Reading(r), Remaining(r) > 0
  PROVE  /\ Width(r) \in {1, 2} /\ ChunkSize(r) \in Nat
         /\ Turned(r) \subseteq Slots
         /\ offset[r] + Width(r) <= OwnEnd(r)
         /\ Start(r) + pos[r] + Width(r) * ChunkSize(r)
              = Least(CHUNK_SIZE * (offset[r] + Width(r) - SourceBase(r)), End(r))
         /\ \A k \in Turned(r) :
              /\ SourceBase(r) <= k /\ k < OwnEnd(r)
              /\ buffer[k] = Unset
              /\ Read(r, k - offset[r]) = SlotChunk(k)
<1>. DEFINE n == offset[r] - SourceBase(r)
            w == Width(r)
            sz == size[SourceOf(r)]
<1>1. CHUNK_SIZE \in Nat \ {0} /\ ChunkCount \in Nat
  BY SizesAreNumbers, ChunkAssumption DEF ChunkAssumption, DigestInv, TypeOK
<1>2. /\ n \in Nat /\ sz \in Nat /\ End(r) \in Nat /\ End(r) <= sz
      /\ End(r) = sz \/ \E m \in Nat : End(r) = CHUNK_SIZE * m
      /\ Start(r) + pos[r] = CHUNK_SIZE * n
      /\ Start(r) + pos[r] \in Nat
      /\ Remaining(r) = End(r) - CHUNK_SIZE * n
      /\ offset[r] \in Nat /\ SourceBase(r) \in Nat /\ OwnEnd(r) \in Nat
      /\ OwnEnd(r) <= ChunkCount
  BY ReaderPlaced
<1>3. w \in {1, 2} /\ ChunkSize(r) = Least(End(r) - CHUNK_SIZE * n, CHUNK_SIZE)
  BY <1>2 DEF Width, ChunkSize
<1>4. w = 2 => Remaining(r) - ChunkSize(r) >= ChunkSize(r)
  BY DEF Width, UseDualBuffer
<1>5. CHUNK_SIZE * n < End(r)
  BY <1>2
<1>. HIDE DEF n, w, sz
<1>. DEFINE end == End(r)
            c == ChunkSize(r)
<1>6a. /\ end \in Nat /\ end <= sz /\ CHUNK_SIZE * n < end
       /\ end = sz \/ \E m \in Nat : end = CHUNK_SIZE * m
       /\ c = Least(end - CHUNK_SIZE * n, CHUNK_SIZE)
       /\ w = 2 => end - CHUNK_SIZE * n - c >= c
       /\ n \in Nat /\ sz \in Nat /\ w \in {1, 2}
  BY <1>2, <1>3, <1>4, <1>5
<1>. HIDE DEF end, c
<1>6. /\ c \in Nat
      /\ CHUNK_SIZE * n + w * c = Least(CHUNK_SIZE * (n + w), end)
      /\ \A k \in 0 .. w - 1 :
           /\ CHUNK_SIZE * (n + k) < end
           /\ CHUNK_SIZE * n + k * c = CHUNK_SIZE * (n + k)
           /\ c = Least(CHUNK_SIZE, sz - CHUNK_SIZE * (n + k))
  <2>. DEFINE p == CHUNK_SIZE * n
  <2>. USE <1>6a
  <2>1. CHUNK_SIZE \in Nat \ {0}
    BY ChunkAssumption DEF ChunkAssumption
  <2>2. p \in Nat /\ CHUNK_SIZE * (n + 1) = p + CHUNK_SIZE /\ CHUNK_SIZE * (n + 2) = p + 2 * CHUNK_SIZE
    BY <2>1
  <2>3. CHUNK_SIZE * (n + 0) = p
    BY <2>1
  <2>4. end # sz => p + CHUNK_SIZE <= end
    <3>. SUFFICES ASSUME NEW m \in Nat, end = CHUNK_SIZE * m  PROVE p + CHUNK_SIZE <= end
      OBVIOUS
    <3>1. n < m
      BY <2>1, TimesOrder
    <3>2. CHUNK_SIZE * (n + 1) <= CHUNK_SIZE * m
      BY <2>1, <3>1, TimesOrder
    <3>. QED
      BY <2>2, <3>2
  <2>6. w = 2 => p + 2 * CHUNK_SIZE <= end /\ c = CHUNK_SIZE
    <3>. SUFFICES ASSUME w = 2  PROVE p + 2 * CHUNK_SIZE <= end /\ c = CHUNK_SIZE
      OBVIOUS
    <3>1. end - p - c >= c /\ p < end
      OBVIOUS
    <3>. QED
      BY <2>1, <2>2, <3>1 DEF Least
  <2>7. c \in Nat /\ p < end
    BY <2>1, <2>2 DEF Least
  <2>8. p + w * c = Least(CHUNK_SIZE * (n + w), end)
    <3>1. CASE w = 1
      BY <2>1, <2>2, <2>7, <3>1 DEF Least
    <3>2. CASE w = 2
      BY <2>1, <2>2, <2>6, <2>7, <3>2 DEF Least
    <3>. QED
      BY <3>1, <3>2
  <2>9. ASSUME NEW k \in 0 .. w - 1
        PROVE  /\ CHUNK_SIZE * (n + k) < end
               /\ p + k * c = CHUNK_SIZE * (n + k)
               /\ c = Least(CHUNK_SIZE, sz - CHUNK_SIZE * (n + k))
    <3>1. CASE k = 0
      <4>1. p + k * c = p /\ CHUNK_SIZE * (n + k) = p
        BY <2>2, <2>3, <2>7, <3>1
      <4>. QED
        BY <2>1, <2>2, <2>4, <2>7, <4>1 DEF Least
    <3>2. CASE k = 1
      <4>1. w = 2
        BY <3>2
      <4>2. p + k * c = p + c /\ CHUNK_SIZE * (n + k) = p + CHUNK_SIZE
        BY <2>2, <2>7, <3>2
      <4>. QED
        BY <2>1, <2>2, <2>6, <2>7, <4>1, <4>2 DEF Least
    <3>. QED
      BY <3>1, <3>2
  <2>. QED
    BY <2>7, <2>8, <2>9
<1>. USE DEF end, c
<1>7. /\ offset[r] = n + SourceBase(r) /\ offset[r] \in Nat /\ SourceBase(r) \in Nat
      /\ n \in Nat /\ w \in {1, 2}
  BY <1>2, <1>3 DEF n
<1>8. ASSUME NEW k \in offset[r] .. offset[r] + w - 1
      PROVE  /\ k \in Slots
             /\ SourceBase(r) <= k /\ k < OwnEnd(r)
             /\ buffer[k] = Unset
             /\ Read(r, k - offset[r]) = SlotChunk(k)
  <2>. DEFINE j == k - offset[r]
  <2>1. j \in 0 .. w - 1 /\ n + j = k - SourceBase(r) /\ n + j \in Nat /\ k \in Nat
    BY <1>7
  <2>2. CHUNK_SIZE * (n + j) < End(r)
    BY <1>6, <2>1
  <2>3. n + j + SourceBase(r) < OwnEnd(r)
    BY <2>1, <2>2, ReaderPlaced
  <2>4. SourceBase(r) <= k /\ k < OwnEnd(r)
    BY <1>2, <1>7, <2>1, <2>3
  <2>5. k \in Slots
    BY <1>1, <1>2, <2>1, <2>4 DEF Slots
  <2>6. buffer[k] = Unset
    <3>1. EmptyFrom(offset[r], OwnEnd(r)) /\ offset[r] <= k
      BY <1>2, <1>3, ReaderPlaced
    <3>. QED
      BY <2>4, <2>5, <3>1 DEF EmptyFrom
  <2>7. SlotChunk(k) = ChunkOf(SourceOf(r), k - SourceBase(r))
    BY <2>4, <2>5, ReaderPlaced
  <2>8. Read(r, j) = Piece(SourceOf(r), CHUNK_SIZE * n + j * ChunkSize(r), ChunkSize(r))
    BY <1>2, ReaderPlaced DEF Read
  <2>9. ChunkOf(SourceOf(r), k - SourceBase(r))
          = Piece(SourceOf(r), CHUNK_SIZE * (n + j), Least(CHUNK_SIZE, sz - CHUNK_SIZE * (n + j)))
    BY <2>1 DEF ChunkOf, sz
  <2>10. Read(r, j) = SlotChunk(k)
    BY <1>6, <2>1, <2>7, <2>8, <2>9
  <2>. QED
    BY <2>4, <2>5, <2>6, <2>10
<1>9. offset[r] + w <= OwnEnd(r)
  <2>1. offset[r] + w - 1 \in offset[r] .. offset[r] + w - 1
    BY <1>2, <1>3
  <2>2. offset[r] + w - 1 < OwnEnd(r)
    BY <1>8, <2>1
  <2>. QED
    BY <1>2, <1>3, <2>2
<1>10. offset[r] + w - SourceBase(r) = n + w
  BY <1>2, <1>3, <1>7
<1>. QED
  BY <1>2, <1>3, <1>6, <1>8, <1>9, <1>10 DEF Turned, w

\* The digest of a chunk is neither missing nor short.
LEMMA SlotChunkIsReal ==
  ASSUME NEW k \in Slots
  PROVE  SlotChunk(k) # Unset /\ SlotChunk(k) # Short
BY DEF SlotChunk, ChunkOf, Piece, Unset, Short

\* Its place and its length are numbers.
LEMMA SlotChunkIsDigest ==
  ASSUME size \in Packages, NEW k \in Slots
  PROVE  SlotChunk(k) \in Digests
<1>1. /\ size.contents \in Nat /\ size.centralDir \in Nat /\ size.eocd \in Nat
      /\ ZipChunks \in Nat /\ Chunks(size.centralDir) \in Nat
      /\ Chunks(size.eocd) \in Nat
      /\ ChunkCount = ZipChunks + Chunks(size.centralDir) + Chunks(size.eocd)
  BY SizesAreNumbers DEF ChunkCount
<1>2. CHUNK_SIZE \in Nat \ {0}
  BY ChunkAssumption DEF ChunkAssumption
<1>3. ASSUME NEW s \in {"contents", "centralDir", "eocd"}, NEW n \in Nat, n < Chunks(size[s]),
             size[s] \in Nat
      PROVE  ChunkOf(s, n) \in Digests
  <2>1. CHUNK_SIZE * n < size[s] /\ CHUNK_SIZE * n \in Nat
    BY <1>2, <1>3, ChunksCover
  <2>2. Least(CHUNK_SIZE, size[s] - CHUNK_SIZE * n) \in Nat
    BY <1>2, <1>3, <2>1 DEF Least
  <2>. QED
    BY <2>1, <2>2 DEF ChunkOf, Piece, Digests
<1>4. CASE k < ZipChunks
  <2>1. k \in Nat /\ SlotChunk(k) = ChunkOf("contents", k) /\ k < Chunks(size["contents"])
    BY <1>1, <1>4 DEF Slots, SlotChunk, ZipChunks
  <2>. QED
    BY <1>1, <1>3, <2>1
<1>5. CASE ZipChunks <= k /\ k < ZipChunks + Chunks(size.centralDir)
  <2>1. k - ZipChunks \in Nat /\ SlotChunk(k) = ChunkOf("centralDir", k - ZipChunks)
        /\ k - ZipChunks < Chunks(size["centralDir"])
    BY <1>1, <1>5 DEF Slots, SlotChunk
  <2>. QED
    BY <1>1, <1>3, <2>1
<1>6. CASE ZipChunks + Chunks(size.centralDir) <= k
  <2>. DEFINE n == k - (ZipChunks + Chunks(size.centralDir))
  <2>1. n \in Nat /\ SlotChunk(k) = ChunkOf("eocd", n) /\ n < Chunks(size["eocd"])
    BY <1>1, <1>6 DEF Slots, SlotChunk
  <2>. QED
    BY <1>1, <1>3, <2>1
<1>. QED
  BY <1>1, <1>4, <1>5, <1>6 DEF Slots

-----------------------------------------------------------------------------
(* What the steps keep.                                                    *)

\* The package never changes, nor do the slots.
LEMMA PackageKept ==
  ASSUME UNCHANGED package
  PROVE  /\ size' = size /\ given' = given
         /\ ZipChunks' = ZipChunks /\ ChunkCount' = ChunkCount /\ Slots' = Slots
         /\ Allowed' = Allowed
         /\ \A n : Chunks(n)' = Chunks(n)
         /\ \A k : SlotChunk(k)' = SlotChunk(k)
         /\ \A i : Base(i)' = Base(i) /\ EndSlot(i)' = EndSlot(i)
         /\ \A i : FileBegin(i)' = FileBegin(i) /\ FileEnd(i)' = FileEnd(i)
<1>1. size' = size /\ given' = given
  BY DEF package
<1>2. \A n : Chunks(n)' = Chunks(n)
  BY DEF Chunks
<1>3. ZipChunks' = ZipChunks /\ ChunkCount' = ChunkCount
  BY <1>1 DEF ZipChunks, ChunkCount, Chunks
<1>4. Slots' = Slots /\ Allowed' = Allowed /\ ChunkNumToUpdate' = ChunkNumToUpdate
  BY <1>3 DEF Slots, Allowed, ChunkNumToUpdate
<1>5. \A k : SlotChunk(k)' = SlotChunk(k)
  BY <1>1, <1>3 DEF SlotChunk, ChunkOf, Chunks
<1>6. \A i : Base(i)' = Base(i) /\ EndSlot(i)' = EndSlot(i)
  BY <1>3, <1>4 DEF Base, EndSlot
<1>7. \A i : FileBegin(i)' = FileBegin(i) /\ FileEnd(i)' = FileEnd(i)
  BY <1>1, <1>4 DEF FileBegin, FileEnd
<1>. QED
  BY <1>1, <1>2, <1>3, <1>4, <1>5, <1>6, <1>7

\* What a turn may do to the buffer and to the history.
Wrote(r) ==
    /\ buffer' \in [Slots -> Digests]
    /\ \A k \in Slots : IF k \in Turned(r)
                        THEN buffer'[k] \in {Short, SlotChunk(k)}
                        ELSE buffer'[k] = buffer[k]
    /\ faulty' \in BOOLEAN /\ (faulty => faulty')
    /\ ~faulty' => \A k \in Turned(r) : buffer'[k] # Short
    /\ faults' \in 0 .. MaxFaults

\* Chunks read whole.
LEMMA ReadChunksWrites ==
  ASSUME DigestInv, NEW r \in Readers, ReadChunks(r)
  PROVE  Turn(r) /\ Wrote(r)
<1>1. Turn(r) /\ Whole(r) /\ faults' = faults /\ faulty' = faulty
  BY DEF ReadChunks
<1>2. Reading(r) /\ Remaining(r) > 0
  BY <1>1 DEF Turn
<1>3. buffer \in [Slots -> Digests] /\ DOMAIN buffer = Slots
  <2>1. DOMAIN buffer = Slots
    BY <1>2, ReaderPlaced
  <2>. QED
    BY <2>1 DEF DigestInv, TypeOK
<1>4. buffer' = [k \in Slots |-> IF k \in Turned(r) THEN Read(r, k - offset[r]) ELSE buffer[k]]
  BY <1>1, <1>3 DEF Whole, Put
<1>5. \A k \in Turned(r) : k \in Slots /\ Read(r, k - offset[r]) = SlotChunk(k)
  BY <1>2, TurnFits
<1>6. \A k \in Slots : buffer'[k] = IF k \in Turned(r) THEN SlotChunk(k) ELSE buffer[k]
  BY <1>4, <1>5
<1>7. \A k \in Slots : SlotChunk(k) \in Digests
  BY SlotChunkIsDigest DEF DigestInv, TypeOK
<1>8. buffer' \in [Slots -> Digests]
  BY <1>3, <1>4, <1>5, <1>7
<1>9. \A k \in Turned(r) : buffer'[k] # Short
  BY <1>5, <1>6, SlotChunkIsReal
<1>10. faulty' \in BOOLEAN /\ faults' \in 0 .. MaxFaults
  BY <1>1 DEF DigestInv, TypeOK
<1>. QED
  BY <1>1, <1>6, <1>8, <1>9, <1>10 DEF Wrote

\* A fault stays within its bound.
LEMMA FaultCounted ==
  ASSUME TypeOK, Fault
  PROVE  faulty' = TRUE /\ faults' \in 0 .. MaxFaults
BY ChunkAssumption DEF ChunkAssumption, TypeOK, Fault

\* A short read.
LEMMA ReadShortWrites ==
  ASSUME DigestInv, NEW r \in Readers, ReadShort(r)
  PROVE  Turn(r) /\ Wrote(r)
<1>1. Turn(r) /\ Fault /\ Put(r, [k \in Turned(r) |-> Short])
  BY DEF ReadShort
<1>2. Reading(r) /\ Remaining(r) > 0
  BY <1>1 DEF Turn
<1>3. buffer \in [Slots -> Digests] /\ DOMAIN buffer = Slots
  <2>1. DOMAIN buffer = Slots
    BY <1>2, ReaderPlaced
  <2>. QED
    BY <2>1 DEF DigestInv, TypeOK
<1>4. buffer' = [k \in Slots |-> IF k \in Turned(r) THEN Short ELSE buffer[k]]
  BY <1>1, <1>3 DEF Put
<1>5. buffer' \in [Slots -> Digests]
  BY <1>3, <1>4 DEF Digests
<1>6. faulty' = TRUE /\ faults' \in 0 .. MaxFaults
  BY <1>1, FaultCounted DEF DigestInv
<1>. QED
  BY <1>1, <1>4, <1>5, <1>6 DEF Wrote

\* A turn keeps the invariant: the slots that it fills are the reader's next
\* ones, and nobody else's.
LEMMA TurnKeeps ==
  ASSUME DigestInv, NEW r \in Readers, Turn(r), Wrote(r)
  PROVE  DigestInv'
<1>1. /\ Reading(r) /\ Remaining(r) > 0
      /\ pos' = [pos EXCEPT ![r] = @ + Width(r) * ChunkSize(r)]
      /\ offset' = [offset EXCEPT ![r] = @ + Width(r)]
      /\ eocd' = IF SourceOf(r) = "eocd" THEN [eocd EXCEPT !.pos = pos'[r]] ELSE eocd
      /\ UNCHANGED <<package, pc, goal, engine, source, thr, verdict, out, calls>>
  BY DEF Turn, Advanced
<1>2. /\ Width(r) \in {1, 2} /\ ChunkSize(r) \in Nat
      /\ Turned(r) \subseteq Slots
      /\ offset[r] + Width(r) <= OwnEnd(r)
      /\ Start(r) + pos[r] + Width(r) * ChunkSize(r)
           = Least(CHUNK_SIZE * (offset[r] + Width(r) - SourceBase(r)), End(r))
      /\ \A k \in Turned(r) : SourceBase(r) <= k /\ k < OwnEnd(r) /\ buffer[k] = Unset
  BY <1>1, TurnFits
<1>3. /\ DOMAIN buffer = Slots /\ Prepared
      /\ SourceBase(r) \in Nat /\ OwnEnd(r) \in Nat /\ OwnEnd(r) <= ChunkCount
      /\ offset[r] - SourceBase(r) \in Nat /\ offset[r] \in Nat
      /\ EmptyFrom(offset[r], OwnEnd(r))
      /\ r \in Threads => pc = "threads"
      /\ r = Main => pc = "sources"
  BY <1>1, ReaderPlaced
<1>4. /\ TypeOK /\ size \in Packages /\ ZIP_UPDATE_DIGEST_THREADS_NUM \in Nat \ {0}
      /\ ChunkCount \in Nat /\ ZipChunks \in Nat /\ CHUNK_SIZE \in Nat \ {0}
  BY ChunkAssumption, SizesAreNumbers DEF ChunkAssumption, DigestInv, TypeOK
<1>5. Main \notin Threads /\ Main \in Readers /\ \A i \in Threads : i \in Readers /\ i \in Nat
  BY <1>4 DEF Threads, Main, Readers
<1>6. /\ size' = size /\ given' = given /\ ZipChunks' = ZipChunks
      /\ ChunkCount' = ChunkCount /\ Slots' = Slots /\ Allowed' = Allowed
  BY <1>1, PackageKept
<1>7. /\ \A n : Chunks(n)' = Chunks(n)
      /\ \A k : SlotChunk(k)' = SlotChunk(k)
      /\ \A i : Base(i)' = Base(i) /\ EndSlot(i)' = EndSlot(i)
      /\ \A i : FileBegin(i)' = FileBegin(i) /\ FileEnd(i)' = FileEnd(i)
  BY <1>1, PackageKept
<1>8. /\ buffer' \in [Slots -> Digests] /\ DOMAIN buffer' = Slots
      /\ \A k \in Turned(r) : buffer'[k] \in {Short, SlotChunk(k)} /\ buffer'[k] # Unset
      /\ \A k \in Slots : k \notin Turned(r) => buffer'[k] = buffer[k]
  <2>1. Short # Unset
    BY DEF Short, Unset, Piece
  <2>. QED
    BY <1>2, <2>1, SlotChunkIsReal DEF Wrote
<1>9. pos[r] \in Nat /\ pos'[r] = pos[r] + Width(r) * ChunkSize(r)
      /\ offset'[r] = offset[r] + Width(r)
      /\ Turned(r) = offset[r] .. offset[r] + Width(r) - 1
  BY <1>1, <1>4 DEF TypeOK, Turned
<1>9a. /\ offset[r] \in Nat /\ Width(r) \in {1, 2} /\ ChunkCount \in Nat
       /\ offset[r] + Width(r) <= ChunkCount
  <2>1. offset[r] + Width(r) <= OwnEnd(r) /\ OwnEnd(r) <= ChunkCount
    BY <1>2, <1>3
  <2>2. offset[r] \in Nat /\ Width(r) \in {1, 2} /\ OwnEnd(r) \in Nat /\ ChunkCount \in Nat
    BY <1>2, <1>3, <1>4
  <2>. QED
    BY <2>1, <2>2
<1>10. pos'[r] \in Nat /\ offset'[r] \in 0 .. ChunkCount
  <2>1. Width(r) * ChunkSize(r) \in Nat
    BY <1>2
  <2>2. pos'[r] \in Nat
    BY <1>9, <2>1
  <2>3. offset'[r] \in Nat /\ offset'[r] <= ChunkCount
    BY <1>9, <1>9a
  <2>. QED
    BY <1>9a, <2>2, <2>3
<1>11. /\ \A k \in Slots : k < offset'[r] /\ offset[r] <= k <=> k \in Turned(r)
       /\ \A k \in Slots : k < offset'[r] /\ k \notin Turned(r) => k < offset[r]
       /\ \A k \in Slots : offset'[r] <= k =>
            k \notin Turned(r) /\ offset[r] <= k
       /\ \A k \in Slots : 0 <= k /\ k < ChunkCount
  BY <1>9, <1>9a DEF Slots
<1>12. TypeOK'
  <2>1. pos' \in [Readers -> Nat] /\ offset' \in [Readers -> 0 .. ChunkCount]
    BY <1>1, <1>4, <1>10 DEF TypeOK
  <2>2. eocd' \in [pos : Nat, patched : BOOLEAN]
    BY <1>1, <1>4, <1>10 DEF TypeOK
  <2>3. faulty' \in BOOLEAN /\ faults' \in 0 .. MaxFaults
    BY DEF Wrote
  <2>. QED
    BY <1>1, <1>4, <1>6, <1>8, <2>1, <2>2, <2>3 DEF TypeOK
<1>13. SlotsHoldTheirChunk'
  BY <1>2, <1>3, <1>7, <1>8 DEF SlotsHoldTheirChunk, DigestInv
<1>14. Prepared'
  <2>1. eocd'.patched = eocd.patched
    BY <1>1, <1>4 DEF TypeOK
  <2>2. Suitable' = Suitable
    BY <1>1, <1>6 DEF Suitable
  <2>. QED
    BY <1>1, <1>3, <1>6, <1>8, <2>1, <2>2 DEF Prepared, Computing
<1>15. CleanWithoutFault'
  <2>1. \A k \in Turned(r) : ~faulty' => buffer'[k] # Short
    BY DEF Wrote
  <2>2. faulty => faulty'
    BY DEF Wrote
  <2>. QED
    BY <1>1, <1>6, <1>8, <2>1, <2>2 DEF DigestInv, CleanWithoutFault, Computing
<1>16. HandedOutComplete'
  BY <1>1, <1>6 DEF DigestInv, HandedOutComplete
<1>17. RefusalExplained'
  BY <1>1, <1>3, <1>5 DEF RefusalExplained, Readers, Main
<1>18. ThreadsPlaced' /\ CallerPlaced'
  <2>1. CASE r = Main
    <3>1. pc = "sources" /\ pc' = "sources" /\ thr' = thr /\ source' = source
      BY <1>1, <1>3, <2>1
    <3>2. ThreadsPlaced'
      BY <3>1 DEF DigestInv, ThreadsPlaced
    <3>3. /\ FirstSlot' = FirstSlot /\ Start(r) = 0 /\ SourceBase(r) = FirstSlot
          /\ SourceSize(source)' = SourceSize(source) /\ End(r) = SourceSize(source)
          /\ OwnEnd(r) = FirstSlot + Chunks(SourceSize(source))
      BY <1>6, <1>7, <2>1, <3>1 DEF FirstSlot, Start, End, SourceBase, OwnEnd, SourceSize
    <3>4. FirstSlot <= offset'[r] /\ offset'[r] <= FirstSlot + Chunks(SourceSize(source))
      BY <1>2, <1>3, <1>9, <3>3
    <3>5. pos'[r] = Least(CHUNK_SIZE * (offset'[r] - FirstSlot), SourceSize(source))
      BY <1>2, <1>3, <1>9, <3>3
    <3>6. FilledFrom(0, offset[r]) /\ EmptyFrom(offset[r], ChunkCount)
      BY <2>1, <3>1 DEF DigestInv, CallerPlaced
    <3>7. \A k \in Slots : k < offset'[r] => buffer'[k] # Unset
      BY <1>8, <1>11, <3>6 DEF FilledFrom
    <3>8. \A k \in Slots : offset'[r] <= k => buffer'[k] = Unset
      BY <1>8, <1>11, <3>6 DEF EmptyFrom
    <3>9. source < 3 => eocd'.pos = 0
      <4>1. source < 3 => SourceOf(r) # "eocd"
        BY <1>4, <2>1 DEF SourceOf, Sources, TypeOK
      <4>. QED
        BY <1>1, <3>1, <4>1 DEF DigestInv, CallerPlaced
    <3>10. Chunks(SourceSize(source))' = Chunks(SourceSize(source))
      BY <3>3 DEF Chunks
    <3>11. CallerPlaced'
      BY <2>1, <3>1, <3>3, <3>4, <3>5, <3>7, <3>8, <3>9, <3>10, <1>6
         DEF CallerPlaced, FilledFrom, EmptyFrom
    <3>. QED
      BY <3>2, <3>11
  <2>2. CASE r \in Threads
    <3>1. pc = "threads" /\ pc' = "threads" /\ thr' = thr /\ thr[r] = "reading"
      BY <1>1, <1>3, <1>5, <2>2 DEF Reading
    <3>2. /\ Start(r) = FileBegin(r) /\ End(r) = FileEnd(r) /\ SourceOf(r) = "contents"
          /\ SourceBase(r) = 0 /\ OwnEnd(r) = EndSlot(r)
      BY <1>5, <2>2 DEF Start, End, SourceOf, SourceBase, OwnEnd
    <3>3. CallerPlaced'
      BY <1>1, <3>1, <3>2 DEF DigestInv, CallerPlaced
    <3>4. /\ EmptyFrom(ZipChunks, ChunkCount) /\ pos[Main] = 0
          /\ \A i \in Threads : ThreadPlace(i)
      BY <3>1 DEF DigestInv, ThreadsPlaced
    <3>5. EndSlot(r) <= ZipChunks /\ Base(r) \in Nat
      BY <1>4, <2>2, ShareFits
    <3>6. \A k \in Slots : ZipChunks <= k /\ k < ChunkCount => buffer'[k] = Unset
      <4>1. ASSUME NEW k \in Slots, ZipChunks <= k  PROVE k \notin Turned(r)
        <5>1. k \in Int /\ EndSlot(r) \in Int
          BY <1>4, <2>2, ShareFits DEF Slots
        <5>. QED
          BY <1>2, <1>4, <3>2, <3>5, <4>1, <5>1
      <4>. QED
        BY <1>8, <3>4, <4>1 DEF EmptyFrom
    <3>7. pos'[Main] = 0
      BY <1>1, <1>4, <1>5, <2>2, <3>4 DEF TypeOK
    <3>8. ThreadPlace(r)'
      <4>1. Base(r) <= offset[r] /\ FilledFrom(Base(r), offset[r])
            /\ EmptyFrom(offset[r], EndSlot(r))
        BY <2>2, <3>1, <3>4 DEF ThreadPlace
      <4>2. Base(r) <= offset'[r] /\ offset'[r] <= EndSlot(r)
        BY <1>2, <1>3, <1>9, <3>2, <3>5, <4>1
      <4>3. FileBegin(r) + pos'[r] = Least(CHUNK_SIZE * offset'[r], FileEnd(r))
        <5>1. FileBegin(r) \in Nat
          BY <1>4, <2>2, ShareFits
        <5>2. FileBegin(r) + pos'[r] = Start(r) + pos[r] + Width(r) * ChunkSize(r)
          BY <1>2, <1>9, <3>2, <5>1
        <5>3. offset[r] + Width(r) - SourceBase(r) = offset'[r]
          BY <1>2, <1>3, <1>9, <3>2
        <5>. QED
          BY <1>2, <3>2, <5>2, <5>3
      <4>4. \A k \in Slots : Base(r) <= k /\ k < offset'[r] => buffer'[k] # Unset
        BY <1>8, <1>11, <4>1 DEF FilledFrom
      <4>5. \A k \in Slots : offset'[r] <= k /\ k < EndSlot(r) => buffer'[k] = Unset
        BY <1>8, <1>11, <4>1 DEF EmptyFrom
      <4>. QED
        BY <1>6, <1>7, <3>1, <4>2, <4>3, <4>4, <4>5 DEF ThreadPlace, FilledFrom, EmptyFrom
    <3>9. ASSUME NEW i \in Threads, i # r  PROVE ThreadPlace(i)'
      <4>1. pos'[i] = pos[i] /\ offset'[i] = offset[i] /\ thr'[i] = thr[i]
        BY <1>1, <1>4, <1>5, <3>1, <3>9 DEF TypeOK
      <4>2. \A k \in Slots : Base(i) <= k /\ k < EndSlot(i) => buffer'[k] = buffer[k]
        <5>1. ASSUME NEW k \in Slots, Base(i) <= k, k < EndSlot(i)  PROVE k \notin Turned(r)
          <6>1. k \in Int
            BY <1>4 DEF Slots
          <6>2. ~(Base(r) <= k /\ k < EndSlot(r))
            BY <1>4, <2>2, <3>9, <5>1, <6>1, SharesApart
          <6>3. Base(r) <= offset[r]
            BY <2>2, <3>1, <3>4 DEF ThreadPlace
          <6>. QED
            BY <1>2, <1>3, <1>9, <3>2, <3>5, <6>1, <6>2, <6>3
        <5>. QED
          BY <1>8, <5>1
      <4>3. ThreadPlace(i)
        BY <3>4
      <4>4. EmptyFrom(Base(i), EndSlot(i)) => EmptyFrom(Base(i), EndSlot(i))'
        BY <1>6, <1>7, <4>2 DEF EmptyFrom
      <4>5. FilledFrom(Base(i), EndSlot(i)) => FilledFrom(Base(i), EndSlot(i))'
        BY <1>6, <1>7, <4>2 DEF FilledFrom
      <4>6. Base(i) \in Nat /\ EndSlot(i) \in Nat /\ offset[i] \in Nat
        BY <1>4, <1>5, ShareFits DEF TypeOK
      <4>7. CASE thr[i] = "reading"
        <5>1. /\ Base(i) <= offset[i] /\ offset[i] <= EndSlot(i)
              /\ FilledFrom(Base(i), offset[i]) /\ EmptyFrom(offset[i], EndSlot(i))
              /\ FileBegin(i) + pos[i] = Least(CHUNK_SIZE * offset[i], FileEnd(i))
          BY <4>3, <4>7 DEF ThreadPlace
        <5>2. FilledFrom(Base(i), offset[i])' /\ EmptyFrom(offset[i], EndSlot(i))'
          BY <1>4, <1>6, <1>7, <4>1, <4>2, <4>6, <5>1 DEF FilledFrom, EmptyFrom, Slots
        <5>. QED
          BY <1>7, <4>1, <4>7, <5>1, <5>2 DEF ThreadPlace
      <4>8. faulty => faulty'
        BY DEF Wrote
      <4>9. CASE thr[i] # "reading"
        BY <1>7, <4>1, <4>3, <4>4, <4>5, <4>8, <4>9 DEF ThreadPlace
      <4>. QED
        BY <4>7, <4>9
    <3>10. ThreadsPlaced'
      BY <1>6, <3>1, <3>6, <3>7, <3>8, <3>9 DEF ThreadsPlaced, EmptyFrom
    <3>. QED
      BY <3>3, <3>10
  <2>. QED
    BY <2>1, <2>2 DEF Readers
<1>. QED
  BY <1>12, <1>13, <1>14, <1>15, <1>16, <1>17, <1>18 DEF DigestInv

\* The invariant holds before the first call.
LEMMA InitHolds == Init => DigestInv
<1>. SUFFICES ASSUME Init  PROVE DigestInv
  OBVIOUS
<1>1. ZIP_UPDATE_DIGEST_THREADS_NUM \in Nat \ {0} /\ ChunkCount \in Nat
  BY SizesAreNumbers, ChunkAssumption DEF ChunkAssumption, Init
<1>2. TypeOK
  <2>1. buffer \in [{} -> Digests] /\ out \in [{} -> Digests]
    BY DEF Init
  <2>2. pos \in [Readers -> Nat] /\ offset \in [Readers -> 0 .. ChunkCount]
    BY <1>1 DEF Init
  <2>3. calls \in 0 .. MaxCalls /\ faults \in 0 .. MaxFaults
    BY ChunkAssumption DEF Init, ChunkAssumption
  <2>4. /\ size \in Packages /\ given \subseteq Facts
        /\ eocd \in [pos : Nat, patched : BOOLEAN] /\ faulty \in BOOLEAN
        /\ thr \in [Threads -> {"none", "new", "reading", "ok", "failed"}]
    BY DEF Init
  <2>5. /\ pc = "idle" /\ goal = "verify" /\ engine = "openssl" /\ source = 1
        /\ verdict = "none"
    BY DEF Init
  <2>. QED
    BY <2>1, <2>2, <2>3, <2>4, <2>5 DEF TypeOK
<1>3. pc = "idle" /\ verdict = "none" /\ \A i \in Threads : thr[i] = "none"
  BY DEF Init
<1>4. SlotsHoldTheirChunk
  BY DEF Init, SlotsHoldTheirChunk
<1>. QED
  BY <1>2, <1>3, <1>4 DEF DigestInv, Prepared, Computing, ThreadsPlaced, CallerPlaced,
     CleanWithoutFault, HandedOutComplete, RefusalExplained

\* What a step outside the reading leaves alone.
StillBuffer == UNCHANGED <<package, buffer>>

\* The type invariant of a step that leaves the buffer alone.
LEMMA TypesKept ==
  ASSUME TypeOK, StillBuffer,
         pc' \in {"idle", "prepare", "threads", "sources", "final", "failed"},
         goal' \in {"verify", "compute"}, engine' \in {"hitls", "openssl"},
         eocd' \in [pos : Nat, patched : BOOLEAN], source' \in 1 .. 3,
         pos' \in [Readers -> Nat], offset' \in [Readers -> 0 .. ChunkCount],
         thr' \in [Threads -> {"none", "new", "reading", "ok", "failed"}],
         verdict' \in {"none", "yes", "no"},
         out' = out \/ out' = buffer,
         calls' \in 0 .. MaxCalls, faults' \in 0 .. MaxFaults, faulty' \in BOOLEAN
  PROVE  TypeOK' /\ (SlotsHoldTheirChunk => SlotsHoldTheirChunk')
<1>1. size' = size /\ given' = given /\ ChunkCount' = ChunkCount /\ Slots' = Slots
      /\ buffer' = buffer
  BY PackageKept DEF StillBuffer
<1>2. \A k : SlotChunk(k)' = SlotChunk(k)
  BY PackageKept DEF StillBuffer
<1>. QED
  BY <1>1, <1>2 DEF TypeOK, SlotsHoldTheirChunk

\* When no digest is being computed, only the answers matter.
LEMMA IdleKeeps ==
  ASSUME TypeOK', SlotsHoldTheirChunk', ~Computing', HandedOutComplete', RefusalExplained',
         \A i \in Threads : thr'[i] = "none"
  PROVE  DigestInv'
BY DEF DigestInv, Computing, Prepared, ThreadsPlaced, CallerPlaced, CleanWithoutFault

\* A call begins.
LEMMA CallKeeps ==
  ASSUME DigestInv, NEW g \in {"verify", "compute"}, NEW e \in {"hitls", "openssl"}, Call(g, e)
  PROVE  DigestInv'
<1>1. TypeOK' /\ SlotsHoldTheirChunk'
  <2>1. calls' \in 0 .. MaxCalls
    BY ChunkAssumption DEF ChunkAssumption, Call, DigestInv, TypeOK
  <2>. QED
    BY <2>1, TypesKept DEF Call, DigestInv, TypeOK, StillBuffer
<1>2. pc' = "prepare" /\ verdict' = "none" /\ \A i \in Threads : thr'[i] = "none"
  BY DEF Call, DigestInv, ThreadsPlaced
<1>. QED
  BY <1>1, <1>2, IdleKeeps DEF Computing, HandedOutComplete, RefusalExplained

\* The steps that end an attempt or go from one to the next.
LEMMA EndKeeps ==
  ASSUME DigestInv, FallBack \/ Refuse
  PROVE  DigestInv'
<1>1. /\ pc = "failed" /\ pc' \in {"prepare", "idle"} /\ UNCHANGED <<package, buffer, thr, out>>
      /\ verdict' \in {verdict, "no"}
  BY DEF FallBack, Refuse
<1>2. TypeOK' /\ SlotsHoldTheirChunk'
  BY <1>1, TypesKept DEF FallBack, Refuse, DigestInv, TypeOK, StillBuffer
<1>3. \A i \in Threads : thr'[i] = "none"
  BY <1>1 DEF DigestInv, ThreadsPlaced
<1>4. HandedOutComplete'
  <2>1. Slots' = Slots
    BY <1>1, PackageKept
  <2>. QED
    BY <1>1, <2>1 DEF DigestInv, HandedOutComplete
<1>. QED
  BY <1>1, <1>2, <1>3, <1>4, IdleKeeps DEF Computing, RefusalExplained

\* The buffer is compared, or handed out.
LEMMA FinalKeeps ==
  ASSUME DigestInv, Succeed \/ Mismatch
  PROVE  DigestInv'
<1>1. /\ pc = "final" /\ pc' \in {"idle", "failed"}
      /\ UNCHANGED <<package, goal, engine, buffer, thr, faulty>>
  BY DEF Succeed, Mismatch
<1>2. TypeOK' /\ SlotsHoldTheirChunk'
  BY <1>1, TypesKept DEF Succeed, Mismatch, DigestInv, TypeOK, StillBuffer
<1>3. \A i \in Threads : thr'[i] = "none"
  BY <1>1 DEF DigestInv, ThreadsPlaced
<1>4. /\ buffer \in [Slots -> Digests] /\ DOMAIN buffer = Slots
      /\ \A k \in Slots : buffer[k] \in {Short, SlotChunk(k)}
  <2>1. FilledFrom(0, ChunkCount) /\ DOMAIN buffer = Slots
    BY <1>1 DEF DigestInv, CallerPlaced, Prepared, Computing
  <2>2. \A k \in Slots : 0 <= k /\ k < ChunkCount
    BY SizesAreNumbers DEF DigestInv, TypeOK, Slots
  <2>3. \A k \in Slots : buffer[k] \in {Unset, Short, SlotChunk(k)} /\ buffer[k] # Unset
    BY <2>1, <2>2 DEF DigestInv, SlotsHoldTheirChunk, FilledFrom
  <2>4. buffer \in [Slots -> Digests]
    BY <2>1 DEF DigestInv, TypeOK
  <2>. QED
    BY <2>1, <2>3, <2>4
<1>5. Slots' = Slots
  BY <1>1, PackageKept
<1>6. HandedOutComplete'
  <2>1. CASE Succeed
    <3>1. out' = buffer
      BY <2>1 DEF Succeed
    <3>2. \A k \in Slots : buffer[k] # Unset
      <4>1. Short # Unset
        BY DEF Short, Unset, Piece
      <4>. QED
        BY <1>4, <4>1, SlotChunkIsReal
    <3>. QED
      BY <1>4, <1>5, <3>1, <3>2 DEF HandedOutComplete
  <2>2. CASE Mismatch
    BY <1>5, <2>2 DEF Mismatch, DigestInv, HandedOutComplete
  <2>. QED
    BY <2>1, <2>2
<1>7. RefusalExplained'
  <2>1. CASE Succeed
    BY <2>1 DEF Succeed, RefusalExplained
  <2>2. CASE Mismatch
    <3>1. ~Accepts
      BY <2>2 DEF Mismatch
    <3>2. ~faulty => \A k \in Slots : buffer[k] = SlotChunk(k)
      BY <1>1, <1>4 DEF DigestInv, CleanWithoutFault, Computing
    <3>3. ~faulty => buffer = SignedDigest
      BY <1>4, <3>2 DEF SignedDigest
    <3>4. ~faulty => goal = "verify" /\ "signed" \notin given
      BY <3>1, <3>3 DEF Accepts, DigestInv, TypeOK
    <3>5. given' = given
      BY <1>1, PackageKept
    <3>. QED
      BY <1>1, <3>4, <3>5 DEF RefusalExplained
  <2>. QED
    BY <2>1, <2>2
<1>. QED
  BY <1>1, <1>2, <1>3, <1>6, <1>7, IdleKeeps DEF Computing

\* The caller's own work fails.
LEMMA CallerFailsKeeps ==
  ASSUME DigestInv, CallerFails
  PROVE  DigestInv'
<1>1. /\ pc \in {"sources", "final"} /\ pc' = "failed" /\ Fault
      /\ UNCHANGED <<package, buffer, thr, out, verdict>>
  BY DEF CallerFails
<1>2. faulty' = TRUE /\ faults' \in 0 .. MaxFaults
  BY <1>1, FaultCounted DEF DigestInv
<1>3. TypeOK' /\ SlotsHoldTheirChunk'
  BY <1>1, <1>2, TypesKept DEF CallerFails, DigestInv, TypeOK, StillBuffer
<1>4. \A i \in Threads : thr'[i] = "none"
  BY <1>1 DEF DigestInv, ThreadsPlaced
<1>5. HandedOutComplete'
  <2>1. Slots' = Slots
    BY <1>1, PackageKept
  <2>. QED
    BY <1>1, <2>1 DEF DigestInv, HandedOutComplete
<1>. QED
  BY <1>1, <1>2, <1>3, <1>4, <1>5, IdleKeeps DEF Computing, RefusalExplained

\* A call is prepared: every slot is empty, every source at its start.
LEMMA PrepareKeeps ==
  ASSUME DigestInv, Prepare
  PROVE  DigestInv'
<1>1. /\ pc = "prepare" /\ eocd'.patched = TRUE /\ faulty' = FALSE
      /\ UNCHANGED <<package, goal, engine, verdict, out, calls, faults>>
      /\ Suitable => eocd'.pos = 0
      /\ eocd' \in [pos : Nat, patched : BOOLEAN]
  BY DEF Prepare, ResetSources, DigestInv, TypeOK
<1>2. /\ size' = size /\ given' = given /\ ChunkCount' = ChunkCount
      /\ ZipChunks' = ZipChunks /\ Slots' = Slots /\ Allowed' = Allowed
      /\ Suitable' = Suitable
  BY <1>1, PackageKept DEF Suitable
<1>3. \A k : SlotChunk(k)' = SlotChunk(k)
  BY <1>1, PackageKept
<1>4. HandedOutComplete'
  BY <1>1, <1>2 DEF DigestInv, HandedOutComplete
<1>5. CASE ~(Suitable /\ Allowed)
  <2>1. pc' = "failed" /\ UNCHANGED <<buffer, source, pos, offset, thr>>
    BY <1>5 DEF Prepare
  <2>2. TypeOK' /\ SlotsHoldTheirChunk'
    BY <1>1, <2>1, TypesKept DEF DigestInv, TypeOK, StillBuffer
  <2>3. RefusalExplained'
    BY <1>2, <1>5 DEF RefusalExplained
  <2>4. \A i \in Threads : thr'[i] = "none"
    BY <1>1, <2>1 DEF DigestInv, ThreadsPlaced
  <2>. QED
    BY <1>4, <2>1, <2>2, <2>3, <2>4, IdleKeeps DEF Computing
<1>6. CASE Suitable /\ Allowed
  <2>1. /\ buffer' = [k \in Slots |-> Unset]
        /\ source' = 1
        /\ pos' = [r \in Readers |-> 0]
        /\ offset' = [r \in Readers |-> 0]
        /\ pc' = IF InParallel THEN "threads" ELSE "sources"
        /\ thr' = [i \in Threads |-> IF InParallel THEN "new" ELSE "none"]
    BY <1>6 DEF Prepare
  <2>2. /\ size.contents \in Nat /\ ZipChunks \in Nat /\ ChunkCount \in Nat
        /\ CHUNK_SIZE \in Nat \ {0} /\ ZIP_UPDATE_DIGEST_THREADS_NUM \in Nat \ {0}
    BY SizesAreNumbers, ChunkAssumption DEF ChunkAssumption, DigestInv, TypeOK
  <2>3. Main \in Readers /\ \A i \in Threads : i \in Readers
    BY DEF Readers
  <2>4. TypeOK'
    <3>1. buffer' \in [Slots -> Digests]
      BY <2>1 DEF Digests
    <3>2. pos' \in [Readers -> Nat] /\ offset' \in [Readers -> 0 .. ChunkCount]
      BY <2>1, <2>2
    <3>3. thr' \in [Threads -> {"none", "new", "reading", "ok", "failed"}]
      BY <2>1
    <3>4. /\ size' \in Packages /\ given' \subseteq Facts
          /\ pc' \in {"threads", "sources"} /\ source' = 1 /\ faulty' \in BOOLEAN
          /\ goal' \in {"verify", "compute"} /\ engine' \in {"hitls", "openssl"}
          /\ verdict' \in {"none", "yes", "no"}
          /\ calls' \in 0 .. MaxCalls /\ faults' \in 0 .. MaxFaults
      BY <1>1, <1>2, <2>1 DEF DigestInv, TypeOK
    <3>5. out' \in ([{} -> Digests] \union [Slots -> Digests])
      BY <1>1 DEF DigestInv, TypeOK
    <3>. QED
      BY <1>1, <1>2, <3>1, <3>2, <3>3, <3>4, <3>5 DEF TypeOK
  <2>5. SlotsHoldTheirChunk'
    BY <2>1 DEF SlotsHoldTheirChunk
  <2>6. Prepared'
    BY <1>1, <1>2, <1>6, <2>1 DEF Prepared
  <2>7. \A k \in Slots : buffer'[k] = Unset
    BY <2>1
  <2>8. ThreadsPlaced'
    <3>1. CASE InParallel
      BY <1>2, <2>1, <2>3, <2>7, <3>1 DEF ThreadsPlaced, ThreadPlace, EmptyFrom
    <3>2. CASE ~InParallel
      BY <2>1, <3>2 DEF ThreadsPlaced
    <3>. QED
      BY <3>1, <3>2
  <2>9. CallerPlaced'
    <3>1. eocd'.pos = 0 /\ pc' # "final" /\ source' = 1
      BY <1>1, <1>6, <2>1
    <3>2. FirstSlot' = 0 /\ offset'[Main] = 0 /\ pos'[Main] = 0
      BY <2>1, <2>3 DEF FirstSlot
    <3>3. SourceSize(source)' = size.contents /\ Chunks(SourceSize(source))' = ZipChunks
      BY <1>2, <3>1 DEF SourceSize, Sources, ZipChunks, Chunks
    <3>4. Least(CHUNK_SIZE * (0 - 0), size.contents) = 0
      BY <2>2 DEF Least
    <3>5. (FilledFrom(0, offset[Main]) /\ EmptyFrom(offset[Main], ChunkCount))'
      <4>1. \A k \in Slots : ~(0 <= k /\ k < 0)
        BY <2>2 DEF Slots
      <4>. QED
        BY <1>2, <2>7, <3>2, <4>1 DEF FilledFrom, EmptyFrom
    <3>. QED
      BY <2>2, <3>1, <3>2, <3>3, <3>4, <3>5 DEF CallerPlaced
  <2>10. CleanWithoutFault'
    <3>1. Short # Unset
      BY DEF Short, Unset, Piece
    <3>. QED
      BY <1>2, <2>7, <3>1 DEF CleanWithoutFault
  <2>11. RefusalExplained'
    BY <2>1 DEF RefusalExplained
  <2>. QED
    BY <1>4, <2>4, <2>5, <2>6, <2>8, <2>9, <2>10, <2>11 DEF DigestInv
<1>. QED
  BY <1>5, <1>6

\* A step of one thread that writes nothing: only its own place is in question.
LEMMA ThreadKeeps ==
  ASSUME DigestInv, NEW i \in Threads, pc = "threads", TypeOK', ThreadPlace(i)',
         UNCHANGED <<package, pc, goal, engine, eocd, buffer, source, pos, verdict, out>>,
         faulty => faulty',
         \A j \in Readers : j # i => offset'[j] = offset[j],
         \A j \in Threads : j # i => thr'[j] = thr[j]
  PROVE  DigestInv'
<1>1. /\ size' = size /\ given' = given /\ ChunkCount' = ChunkCount
      /\ ZipChunks' = ZipChunks /\ Slots' = Slots /\ Allowed' = Allowed
      /\ Suitable' = Suitable
  BY PackageKept DEF Suitable
<1>2. /\ \A k : SlotChunk(k)' = SlotChunk(k)
      /\ \A j : Base(j)' = Base(j) /\ EndSlot(j)' = EndSlot(j)
      /\ \A j : FileBegin(j)' = FileBegin(j) /\ FileEnd(j)' = FileEnd(j)
  BY PackageKept
<1>3. SlotsHoldTheirChunk' /\ Prepared' /\ HandedOutComplete' /\ RefusalExplained'
  BY <1>1, <1>2 DEF DigestInv, SlotsHoldTheirChunk, Prepared, Computing, HandedOutComplete,
     RefusalExplained
<1>4. CleanWithoutFault'
  BY <1>1 DEF DigestInv, CleanWithoutFault, Computing
<1>5. CallerPlaced'
  BY DEF DigestInv, CallerPlaced
<1>6. ASSUME NEW j \in Threads  PROVE ThreadPlace(j)'
  <2>1. CASE j = i
    BY <2>1
  <2>2. CASE j # i
    <3>1. thr'[j] = thr[j] /\ offset'[j] = offset[j] /\ pos'[j] = pos[j] /\ buffer' = buffer
      BY <2>2 DEF Readers
    <3>2. ThreadPlace(j)
      BY DEF DigestInv, ThreadsPlaced
    <3>. QED
      BY <1>1, <1>2, <3>1, <3>2 DEF ThreadPlace, FilledFrom, EmptyFrom
  <2>. QED
    BY <2>1, <2>2
<1>7. ThreadsPlaced'
  BY <1>1, <1>6 DEF DigestInv, ThreadsPlaced, EmptyFrom
<1>. QED
  BY <1>3, <1>4, <1>5, <1>7 DEF DigestInv

\* A thread begins its share.
LEMMA ThreadBeginsKeeps ==
  ASSUME DigestInv, NEW i \in Threads, ThreadBegins(i)
  PROVE  DigestInv'
<1>1. /\ thr[i] = "new"
      /\ UNCHANGED <<package, pc, goal, engine, eocd, buffer, source, pos, verdict,
                     out, calls, faults, faulty>>
  BY DEF ThreadBegins
<1>2. pc = "threads" /\ ThreadPlace(i)
  BY <1>1 DEF DigestInv, ThreadsPlaced
<1>3. pos[i] = 0 /\ EmptyFrom(Base(i), EndSlot(i))
  BY <1>1, <1>2 DEF ThreadPlace
<1>4. /\ ChunkNumToUpdate * i = Base(i) /\ Base(i) \in Nat /\ EndSlot(i) \in Nat
      /\ FileBegin(i) = CHUNK_SIZE * Base(i)
      /\ FileBegin(i) \in Nat /\ FileEnd(i) \in Nat
      /\ EndSlot(i) <= ZipChunks
      /\ CHUNK_SIZE * Base(i) < FileEnd(i) <=> Base(i) < EndSlot(i)
  BY ShareFits DEF DigestInv, TypeOK, Base
<1>5. ZipChunks \in Nat /\ ChunkCount \in Nat /\ ZipChunks <= ChunkCount
  BY SizesAreNumbers DEF DigestInv, TypeOK, ChunkCount
<1>6. i \in Readers /\ \A j \in Threads : j \in Readers
  BY DEF Readers
<1>7. /\ \A j : Base(j)' = Base(j) /\ EndSlot(j)' = EndSlot(j)
      /\ \A j : FileBegin(j)' = FileBegin(j) /\ FileEnd(j)' = FileEnd(j)
      /\ Slots' = Slots /\ buffer' = buffer /\ pos' = pos /\ faulty' = faulty
  BY <1>1, PackageKept
<1>8. \A k \in Slots : k \in Int
  BY <1>5 DEF Slots
<1>9. CASE FileEnd(i) <= FileBegin(i)
  <2>1. thr' = [thr EXCEPT ![i] = "ok"] /\ offset' = offset
    BY <1>9 DEF ThreadBegins
  <2>2. TypeOK'
    BY <1>1, <2>1, TypesKept DEF DigestInv, TypeOK, StillBuffer
  <2>3. FilledFrom(Base(i), EndSlot(i))'
    BY <1>4, <1>7, <1>8, <1>9 DEF FilledFrom
  <2>4. thr'[i] = "ok" /\ \A j \in Threads : j # i => thr'[j] = thr[j]
    BY <2>1 DEF DigestInv, TypeOK
  <2>5. ThreadPlace(i)'
    BY <2>3, <2>4 DEF ThreadPlace
  <2>. QED
    BY <1>1, <1>2, <2>1, <2>2, <2>4, <2>5, ThreadKeeps
<1>10. CASE ~(FileEnd(i) <= FileBegin(i))
  <2>1. thr' = [thr EXCEPT ![i] = "reading"] /\ offset' = [offset EXCEPT ![i] = Base(i)]
    BY <1>4, <1>10 DEF ThreadBegins
  <2>2. Base(i) < EndSlot(i)
    BY <1>4, <1>10
  <2>3. offset' \in [Readers -> 0 .. ChunkCount]
    <3>1. Base(i) \in 0 .. ChunkCount
      BY <1>4, <1>5, <2>2
    <3>. QED
      BY <2>1, <3>1 DEF DigestInv, TypeOK
  <2>4. TypeOK'
    BY <1>1, <2>1, <2>3, TypesKept DEF DigestInv, TypeOK, StillBuffer
  <2>5. /\ thr'[i] = "reading" /\ offset'[i] = Base(i)
        /\ \A j \in Threads : j # i => thr'[j] = thr[j]
        /\ \A j \in Readers : j # i => offset'[j] = offset[j]
    BY <1>6, <2>1 DEF DigestInv, TypeOK
  <2>6. FileBegin(i) + 0 = Least(CHUNK_SIZE * Base(i), FileEnd(i))
    BY <1>4, <1>10 DEF Least
  <2>7. \A k \in Slots : ~(Base(i) <= k /\ k < Base(i))
    BY <1>4, <1>8
  <2>8. ThreadPlace(i)'
    BY <1>3, <1>4, <1>7, <2>2, <2>5, <2>6, <2>7 DEF ThreadPlace, FilledFrom, EmptyFrom
  <2>. QED
    BY <1>1, <1>2, <2>4, <2>5, <2>8, ThreadKeeps
<1>. QED
  BY <1>9, <1>10

\* A thread at the end of its share has filled it.
LEMMA ThreadEndsKeeps ==
  ASSUME DigestInv, NEW i \in Threads, ThreadEnds(i)
  PROVE  DigestInv'
<1>1. /\ thr[i] = "reading" /\ Remaining(i) <= 0 /\ thr' = [thr EXCEPT ![i] = "ok"]
      /\ UNCHANGED <<package, pc, goal, engine, eocd, buffer, source, pos, offset, verdict,
                     out, calls, faults, faulty>>
  BY DEF ThreadEnds
<1>2. pc = "threads" /\ ThreadPlace(i)
  BY <1>1 DEF DigestInv, ThreadsPlaced
<1>3. TypeOK'
  BY <1>1, TypesKept DEF DigestInv, TypeOK, StillBuffer
<1>4. /\ EndSlot(i) \in Nat /\ FileBegin(i) \in Nat /\ FileEnd(i) \in Nat
      /\ \A k \in Nat : CHUNK_SIZE * k < FileEnd(i) <=> k < EndSlot(i)
  BY ShareFits DEF DigestInv, TypeOK
<1>5. /\ FilledFrom(Base(i), offset[i])
      /\ FileBegin(i) + pos[i] = Least(CHUNK_SIZE * offset[i], FileEnd(i))
  BY <1>1, <1>2 DEF ThreadPlace
<1>6. Remaining(i) = FileEnd(i) - (FileBegin(i) + pos[i])
  <2>1. i # Main
    BY ChunkAssumption DEF ChunkAssumption, Threads, Main
  <2>. QED
    BY <2>1 DEF Remaining, End, Start
<1>7. offset[i] \in Nat /\ pos[i] \in Nat /\ CHUNK_SIZE * offset[i] \in Nat
  <2>1. offset[i] \in 0 .. ChunkCount /\ pos[i] \in Nat /\ ChunkCount \in Nat
    BY SizesAreNumbers DEF DigestInv, TypeOK, Readers
  <2>. QED
    BY <2>1, ChunkAssumption DEF ChunkAssumption
<1>8. EndSlot(i) <= offset[i]
  <2>1. ~(CHUNK_SIZE * offset[i] < FileEnd(i))
    BY <1>1, <1>4, <1>5, <1>6, <1>7 DEF Least
  <2>. QED
    BY <1>4, <1>7, <2>1
<1>9. \A k \in Slots : k \in Int
  BY SizesAreNumbers DEF DigestInv, TypeOK, Slots
<1>10. FilledFrom(Base(i), EndSlot(i))
  BY <1>4, <1>5, <1>7, <1>8, <1>9 DEF FilledFrom
<1>11. FilledFrom(Base(i), EndSlot(i))'
  BY <1>1, <1>10, PackageKept DEF FilledFrom
<1>12. thr'[i] = "ok" /\ \A j \in Threads : j # i => thr'[j] = thr[j]
  BY <1>1 DEF DigestInv, TypeOK
<1>13. ThreadPlace(i)'
  BY <1>11, <1>12 DEF ThreadPlace
<1>. QED
  BY <1>1, <1>2, <1>3, <1>12, <1>13, ThreadKeeps

\* A thread fails, and that is remembered.
LEMMA ThreadFailsKeeps ==
  ASSUME DigestInv, NEW i \in Threads, ThreadFails(i)
  PROVE  DigestInv'
<1>1. /\ thr[i] = "reading" /\ thr' = [thr EXCEPT ![i] = "failed"] /\ Fault
      /\ UNCHANGED <<package, pc, goal, engine, eocd, buffer, source, pos, offset, verdict,
                     out, calls>>
  BY DEF ThreadFails
<1>2. pc = "threads"
  BY <1>1 DEF DigestInv, ThreadsPlaced
<1>3. faulty' = TRUE /\ faults' \in 0 .. MaxFaults
  BY <1>1, FaultCounted DEF DigestInv
<1>4. TypeOK'
  BY <1>1, <1>3, TypesKept DEF DigestInv, TypeOK, StillBuffer
<1>5. thr'[i] = "failed" /\ \A j \in Threads : j # i => thr'[j] = thr[j]
  BY <1>1 DEF DigestInv, TypeOK
<1>6. ThreadPlace(i)'
  BY <1>3, <1>5 DEF ThreadPlace
<1>. QED
  BY <1>1, <1>2, <1>3, <1>4, <1>5, <1>6, ThreadKeeps

\* The caller goes on when every thread has filled its share, which is all of
\* the contents, or gives up after a fault.
LEMMA JoinKeeps ==
  ASSUME DigestInv, Join
  PROVE  DigestInv'
<1>1. /\ pc = "threads" /\ Joined /\ thr' = [i \in Threads |-> "none"]
      /\ pc' = IF AllSucceeded THEN "sources" ELSE "failed"
      /\ source' = 2 /\ offset' = [offset EXCEPT ![Main] = ZipChunks]
      /\ UNCHANGED <<package, goal, engine, eocd, buffer, pos, verdict, out, calls,
                     faults, faulty>>
  BY DEF Join
<1>2. /\ size.centralDir \in Nat /\ ZipChunks \in Nat /\ Chunks(size.centralDir) \in Nat
      /\ Chunks(size.eocd) \in Nat /\ ChunkCount \in Nat
      /\ ChunkCount = ZipChunks + Chunks(size.centralDir) + Chunks(size.eocd)
      /\ CHUNK_SIZE \in Nat \ {0}
  BY SizesAreNumbers, ChunkAssumption DEF ChunkAssumption, ChunkCount, DigestInv, TypeOK
<1>3. /\ size' = size /\ ZipChunks' = ZipChunks /\ ChunkCount' = ChunkCount
      /\ Slots' = Slots /\ Allowed' = Allowed /\ Suitable' = Suitable
      /\ \A n : Chunks(n)' = Chunks(n)
  BY <1>1, PackageKept DEF Suitable
<1>4. TypeOK' /\ SlotsHoldTheirChunk'
  <2>1. offset' \in [Readers -> 0 .. ChunkCount]
    <3>1. ZipChunks \in 0 .. ChunkCount
      BY <1>2
    <3>. QED
      BY <1>1, <3>1 DEF DigestInv, TypeOK
  <2>2. pc' \in {"sources", "failed"}
    BY <1>1
  <2>3. thr' \in [Threads -> {"none", "new", "reading", "ok", "failed"}]
    BY <1>1
  <2>. QED
    BY <1>1, <2>1, <2>2, <2>3, TypesKept DEF DigestInv, TypeOK, StillBuffer
<1>5. \A i \in Threads : thr'[i] = "none"
  BY <1>1
<1>6. HandedOutComplete'
  BY <1>1, <1>3 DEF DigestInv, HandedOutComplete
<1>7. \A i \in Threads : ThreadPlace(i)
  BY <1>1 DEF DigestInv, ThreadsPlaced
<1>8. CASE ~AllSucceeded
  <2>1. \E i \in Threads : thr[i] = "failed"
    BY <1>1, <1>8 DEF AllSucceeded, Joined
  <2>2. faulty
    BY <1>7, <2>1 DEF ThreadPlace
  <2>. QED
    BY <1>1, <1>4, <1>5, <1>6, <1>8, <2>2, IdleKeeps DEF Computing, RefusalExplained
<1>9. CASE AllSucceeded
  <2>1. pc' = "sources"
    BY <1>1, <1>9
  <2>2. Prepared' /\ CleanWithoutFault' /\ RefusalExplained'
    BY <1>1, <1>3, <2>1 DEF DigestInv, Prepared, CleanWithoutFault, Computing, RefusalExplained
  <2>3. FilledFrom(0, ZipChunks)
    <3>1. ASSUME NEW k \in Slots, k < ZipChunks  PROVE buffer[k] # Unset
      <4>1. k \in Nat
        BY <1>2 DEF Slots
      <4>2. PICK i \in Threads : Base(i) <= k /\ k < EndSlot(i)
        BY <3>1, <4>1, SharesCover DEF DigestInv, TypeOK
      <4>3. FilledFrom(Base(i), EndSlot(i))
        BY <1>7, <1>9 DEF AllSucceeded, ThreadPlace
      <4>. QED
        BY <4>2, <4>3 DEF FilledFrom
    <3>. QED
      BY <3>1 DEF FilledFrom
  <2>4. EmptyFrom(ZipChunks, ChunkCount) /\ pos[Main] = 0 /\ eocd.pos = 0
    BY <1>1 DEF DigestInv, ThreadsPlaced, CallerPlaced
  <2>5. offset'[Main] = ZipChunks /\ pos'[Main] = 0 /\ eocd'.pos = 0
    BY <1>1, <2>4 DEF DigestInv, TypeOK, Readers
  <2>6. FirstSlot' = ZipChunks /\ SourceSize(source)' = size.centralDir
        /\ Chunks(SourceSize(source))' = Chunks(size.centralDir)
    BY <1>1, <1>3 DEF FirstSlot, SourceSize, Sources, Chunks
  <2>7. Least(CHUNK_SIZE * (ZipChunks - ZipChunks), size.centralDir) = 0
    BY <1>2 DEF Least
  <2>8. (FilledFrom(0, offset[Main]) /\ EmptyFrom(offset[Main], ChunkCount))'
    BY <1>1, <1>3, <2>3, <2>4, <2>5 DEF FilledFrom, EmptyFrom
  <2>9. CallerPlaced'
    BY <1>2, <2>1, <2>5, <2>6, <2>7, <2>8 DEF CallerPlaced
  <2>10. ThreadsPlaced'
    BY <1>5, <2>1 DEF ThreadsPlaced
  <2>. QED
    BY <1>4, <1>6, <2>2, <2>9, <2>10 DEF DigestInv
<1>. QED
  BY <1>8, <1>9

\* The caller is at the end of a source, so every slot before the next one is
\* filled.
LEMMA NextSourceKeeps ==
  ASSUME DigestInv, NextSource
  PROVE  DigestInv'
<1>1. /\ pc = "sources" /\ Remaining(Main) <= 0
      /\ UNCHANGED <<package, goal, engine, buffer, offset, thr, verdict, out,
                     calls, faults, faulty>>
  BY DEF NextSource
<1>2. /\ size.contents \in Nat /\ size.centralDir \in Nat /\ size.eocd \in Nat
      /\ ZipChunks \in Nat /\ Chunks(size.centralDir) \in Nat
      /\ Chunks(size.eocd) \in Nat /\ ChunkCount \in Nat
      /\ ChunkCount = ZipChunks + Chunks(size.centralDir) + Chunks(size.eocd)
      /\ CHUNK_SIZE \in Nat \ {0}
  BY SizesAreNumbers, ChunkAssumption DEF ChunkAssumption, ChunkCount, DigestInv, TypeOK
<1>3. /\ size' = size /\ ZipChunks' = ZipChunks /\ ChunkCount' = ChunkCount
      /\ Slots' = Slots /\ Allowed' = Allowed /\ Suitable' = Suitable
      /\ \A n : Chunks(n)' = Chunks(n)
  BY <1>1, PackageKept DEF Suitable
<1>4. /\ source \in 1 .. 3 /\ Main \in Readers /\ pos[Main] \in Nat
      /\ offset[Main] \in 0 .. ChunkCount /\ eocd.pos \in Nat
      /\ eocd \in [pos : Nat, patched : BOOLEAN]
  BY DEF DigestInv, TypeOK, Readers
<1>5. /\ FirstSlot <= offset[Main]
      /\ offset[Main] <= FirstSlot + Chunks(SourceSize(source))
      /\ pos[Main] = Least(CHUNK_SIZE * (offset[Main] - FirstSlot), SourceSize(source))
      /\ FilledFrom(0, offset[Main])
      /\ EmptyFrom(offset[Main], ChunkCount)
      /\ source < 3 => eocd.pos = 0
  BY <1>1 DEF DigestInv, CallerPlaced
<1>6. FirstSlot \in Nat /\ SourceSize(source) \in Nat /\ Chunks(SourceSize(source)) \in Nat
  <2>1. CASE source = 1
    BY <1>2, <2>1 DEF FirstSlot, SourceSize, Sources, ZipChunks
  <2>2. CASE source = 2
    BY <1>2, <2>2 DEF FirstSlot, SourceSize, Sources
  <2>3. CASE source = 3
    BY <1>2, <2>3 DEF FirstSlot, SourceSize, Sources
  <2>. QED
    BY <1>4, <2>1, <2>2, <2>3
<1>7. offset[Main] = FirstSlot + Chunks(SourceSize(source))
  <2>. DEFINE n == offset[Main] - FirstSlot
  <2>1. n \in Nat /\ CHUNK_SIZE * n \in Nat
    BY <1>2, <1>4, <1>5, <1>6
  <2>2. pos[Main] = Least(CHUNK_SIZE * n, SourceSize(source))
    BY <1>5
  <2>3. SourceSize(source) <= pos[Main]
    BY <1>1, <1>4, <1>6 DEF Remaining, Start, End
  <2>4. CHUNK_SIZE * n < SourceSize(source) <=> n < Chunks(SourceSize(source))
    BY <1>6, <2>1, ChunksCover
  <2>5. ~(CHUNK_SIZE * n < SourceSize(source))
    <3>. HIDE DEF n
    <3>. QED
      BY <1>6, <2>1, <2>2, <2>3 DEF Least
  <2>. QED
    BY <1>4, <1>5, <1>6, <2>4, <2>5
<1>8. HandedOutComplete'
  BY <1>1, <1>3 DEF DigestInv, HandedOutComplete
<1>9. \A i \in Threads : thr'[i] = "none"
  BY <1>1 DEF DigestInv, ThreadsPlaced
<1>10. CASE source < 3
  <2>1. /\ source' = source + 1 /\ pc' = "sources"
        /\ pos' = [pos EXCEPT ![Main] = IF source = 2 /\ engine = "openssl" THEN eocd.pos ELSE 0]
        /\ eocd' = [eocd EXCEPT !.pos = IF source = 2 THEN pos'[Main] ELSE @]
    BY <1>1, <1>10 DEF NextSource
  <2>2. eocd.pos = 0
    BY <1>5, <1>10
  <2>3. pos' = [pos EXCEPT ![Main] = 0] /\ pos'[Main] = 0 /\ pos' \in [Readers -> Nat]
    BY <1>4, <2>1, <2>2 DEF DigestInv, TypeOK
  <2>4. eocd' \in [pos : Nat, patched : BOOLEAN] /\ eocd'.pos = 0
        /\ eocd'.patched = eocd.patched
    BY <1>4, <2>1, <2>2, <2>3
  <2>5. source' \in 1 .. 3
    BY <1>4, <1>10, <2>1
  <2>6. TypeOK' /\ SlotsHoldTheirChunk'
    BY <1>1, <2>1, <2>3, <2>4, <2>5, TypesKept DEF DigestInv, TypeOK, StillBuffer
  <2>7. Prepared' /\ CleanWithoutFault' /\ RefusalExplained'
    BY <1>1, <1>3, <2>1, <2>4
    DEF DigestInv, Prepared, CleanWithoutFault, Computing, RefusalExplained
  <2>8. ThreadsPlaced'
    BY <1>9, <2>1 DEF ThreadsPlaced
  <2>9. /\ FirstSlot' = offset[Main] /\ SourceSize(source)' \in Nat
        /\ Chunks(SourceSize(source))' \in Nat
    <3>1. CASE source = 1
      <4>1. SourceSize(source)' = size.centralDir
        BY <1>3, <2>1, <3>1 DEF SourceSize, Sources
      <4>2. FirstSlot' = ZipChunks /\ FirstSlot = 0 /\ Chunks(SourceSize(source)) = ZipChunks
        BY <1>3, <2>1, <3>1 DEF FirstSlot, SourceSize, Sources, ZipChunks
      <4>. QED
        BY <1>2, <1>7, <4>1, <4>2 DEF Chunks
    <3>2. CASE source = 2
      <4>1. SourceSize(source)' = size.eocd
        BY <1>3, <2>1, <3>2 DEF SourceSize, Sources
      <4>2. FirstSlot' = ZipChunks + Chunks(size.centralDir) /\ FirstSlot = ZipChunks
            /\ Chunks(SourceSize(source)) = Chunks(size.centralDir)
        BY <1>3, <2>1, <3>2 DEF FirstSlot, SourceSize, Sources
      <4>. QED
        BY <1>2, <1>7, <4>1, <4>2 DEF Chunks
    <3>. QED
      BY <1>4, <1>10, <3>1, <3>2
  <2>10. (FilledFrom(0, offset[Main]) /\ EmptyFrom(offset[Main], ChunkCount))'
    BY <1>1, <1>3, <1>5 DEF FilledFrom, EmptyFrom
  <2>11. offset'[Main] = offset[Main]
    BY <1>1
  <2>12. Least(CHUNK_SIZE * (offset[Main] - offset[Main]), SourceSize(source)') = 0
    <3>1. CHUNK_SIZE * (offset[Main] - offset[Main]) = 0
      BY <1>2, <1>4
    <3>. QED
      BY <2>9, <3>1 DEF Least
  <2>13. CallerPlaced'
    <3>1. /\ FirstSlot' <= offset'[Main]
          /\ offset'[Main] <= FirstSlot' + Chunks(SourceSize(source))'
      BY <1>4, <1>2, <2>9, <2>11
    <3>2. pos'[Main] = Least(CHUNK_SIZE * (offset'[Main] - FirstSlot'), SourceSize(source)')
      BY <2>3, <2>9, <2>11, <2>12
    <3>3. (pos[Main] = Least(CHUNK_SIZE * (offset[Main] - FirstSlot), SourceSize(source)))'
      BY <3>2 DEF Least
    <3>. QED
      BY <2>1, <2>4, <2>10, <3>1, <3>3 DEF CallerPlaced
  <2>. QED
    BY <1>8, <2>6, <2>7, <2>8, <2>13 DEF DigestInv
<1>11. CASE ~(source < 3)
  <2>1. pc' = "final" /\ UNCHANGED <<source, pos, eocd>>
    BY <1>1, <1>11 DEF NextSource
  <2>2. TypeOK' /\ SlotsHoldTheirChunk'
    BY <1>1, <2>1, TypesKept DEF DigestInv, TypeOK, StillBuffer
  <2>3. Prepared' /\ CleanWithoutFault' /\ RefusalExplained'
    BY <1>1, <1>3, <2>1
    DEF DigestInv, Prepared, CleanWithoutFault, Computing, RefusalExplained
  <2>4. ThreadsPlaced'
    BY <1>9, <2>1 DEF ThreadsPlaced
  <2>5. offset[Main] = ChunkCount
    <3>1. source = 3
      BY <1>4, <1>11
    <3>. QED
      BY <1>2, <1>7, <3>1 DEF FirstSlot, SourceSize, Sources
  <2>6. FilledFrom(0, ChunkCount)'
    BY <1>1, <1>3, <1>5, <2>5 DEF FilledFrom
  <2>7. CallerPlaced'
    BY <2>1, <2>6 DEF CallerPlaced
  <2>. QED
    BY <1>8, <2>2, <2>3, <2>4, <2>7 DEF DigestInv
<1>. QED
  BY <1>10, <1>11

\* Nothing happens.
LEMMA StutterKeeps ==
  ASSUME DigestInv, UNCHANGED vars
  PROVE  DigestInv'
<1>1. /\ UNCHANGED package
      /\ pc' = pc /\ goal' = goal /\ engine' = engine /\ eocd' = eocd
      /\ buffer' = buffer /\ source' = source /\ pos' = pos /\ offset' = offset
      /\ thr' = thr /\ verdict' = verdict /\ out' = out
      /\ calls' = calls /\ faults' = faults /\ faulty' = faulty
  BY DEF vars, package
<1>2. /\ size' = size /\ given' = given /\ ZipChunks' = ZipChunks /\ Slots' = Slots
      /\ ChunkCount' = ChunkCount /\ Allowed' = Allowed /\ Suitable' = Suitable
  BY <1>1, PackageKept DEF Suitable
<1>3. /\ \A j : Base(j)' = Base(j) /\ EndSlot(j)' = EndSlot(j)
      /\ \A j : FileBegin(j)' = FileBegin(j) /\ FileEnd(j)' = FileEnd(j)
      /\ \A n : Chunks(n)' = Chunks(n)
  BY <1>1, PackageKept
<1>4. TypeOK' /\ SlotsHoldTheirChunk'
  BY <1>1, TypesKept DEF DigestInv, TypeOK, StillBuffer
<1>5. Prepared' /\ CleanWithoutFault' /\ HandedOutComplete' /\ RefusalExplained'
  BY <1>1, <1>2 DEF DigestInv, Prepared, CleanWithoutFault, Computing, HandedOutComplete,
     RefusalExplained
<1>6. ThreadsPlaced'
  BY <1>1, <1>2, <1>3 DEF DigestInv, ThreadsPlaced, ThreadPlace, FilledFrom, EmptyFrom
<1>7. CallerPlaced'
  <2>1. FirstSlot' = FirstSlot /\ SourceSize(source)' = SourceSize(source)
        /\ Chunks(SourceSize(source))' = Chunks(SourceSize(source))
    BY <1>1, <1>2 DEF FirstSlot, SourceSize, Sources, Chunks, ZipChunks
  <2>. QED
    BY <1>1, <1>2, <2>1 DEF DigestInv, CallerPlaced, FilledFrom, EmptyFrom, Least
<1>. QED
  BY <1>4, <1>5, <1>6, <1>7 DEF DigestInv

\* Every step keeps the invariant.
LEMMA NextKeeps == DigestInv /\ [Next]_vars => DigestInv'
<1>. SUFFICES ASSUME DigestInv, [Next]_vars  PROVE DigestInv'
  OBVIOUS
<1>1. ASSUME NEW g \in {"verify", "compute"}, NEW e \in {"hitls", "openssl"}, Call(g, e)
      PROVE  DigestInv'
  BY <1>1, CallKeeps
<1>2. CASE CallerStep
  BY <1>2, PrepareKeeps, JoinKeeps, NextSourceKeeps, FinalKeeps, EndKeeps DEF CallerStep
<1>3. CASE CallerFails
  BY <1>3, CallerFailsKeeps
<1>4. ASSUME NEW r \in Readers, ReadChunks(r) \/ ReadShort(r)  PROVE DigestInv'
  <2>1. Turn(r) /\ Wrote(r)
    BY <1>4, ReadChunksWrites, ReadShortWrites
  <2>. QED
    BY <2>1, TurnKeeps
<1>5. ASSUME NEW i \in Threads, ThreadBegins(i) \/ ThreadEnds(i) \/ ThreadFails(i)
      PROVE  DigestInv'
  BY <1>5, ThreadBeginsKeeps, ThreadEndsKeeps, ThreadFailsKeeps
<1>6. CASE UNCHANGED vars
  BY <1>6, StutterKeeps
<1>. QED
  BY <1>1, <1>2, <1>3, <1>4, <1>5, <1>6 DEF Next

-----------------------------------------------------------------------------
(* The theorems.                                                           *)

\* The invariant holds of every package, chunk size and number of threads.
THEOREM Invariance == Spec => []DigestInv
BY InitHolds, NextKeeps, PTL DEF Spec

\* Every variable keeps its type: no offset leaves the buffer.
THEOREM TypeCorrect == Spec => []TypeOK
<1>1. DigestInv => TypeOK
  BY DEF DigestInv
<1>. QED
  BY <1>1, Invariance, PTL

\* Whatever the interleaving, a slot holds no other chunk's digest
\* (ComputeDigestsForContentsZip, ComputeDigestsForDataSource).
THEOREM ChunksInPlace == Spec => []SlotsHoldTheirChunk
<1>1. DigestInv => SlotsHoldTheirChunk
  BY DEF DigestInv
<1>. QED
  BY <1>1, Invariance, PTL

\* What is handed out has no empty slot (VerifyHapIntegrity, ComputeChunkDigest).
THEOREM HandedOutWhole == Spec => []HandedOutComplete
<1>1. DigestInv => HandedOutComplete
  BY DEF DigestInv
<1>. QED
  BY <1>1, Invariance, PTL

\* An attempt that nothing disturbs fails only for what the package or the
\* signature is (VerifyHapIntegrity after VerifyHapIntegrityWithHitls).
THEOREM RefusalsExplained == Spec => []RefusalExplained
<1>1. DigestInv => RefusalExplained
  BY DEF DigestInv
<1>. QED
  BY <1>1, Invariance, PTL

\* A step of an attempt leaves every slot that is filled as it is.
LEMMA FilledStay ==
  ASSUME DigestInv, [Next]_vars, pc # "prepare", NEW k \in DOMAIN buffer, buffer[k] # Unset
  PROVE  buffer'[k] = buffer[k]
<1>1. ASSUME NEW r \in Readers, ReadChunks(r) \/ ReadShort(r)  PROVE buffer'[k] = buffer[k]
  <2>1. Turn(r) /\ Wrote(r)
    BY <1>1, ReadChunksWrites, ReadShortWrites
  <2>2. Reading(r) /\ Remaining(r) > 0
    BY <2>1 DEF Turn
  <2>3. k \notin Turned(r)
    BY <2>2, TurnFits
  <2>4. k \in Slots
    BY <2>2, ReaderPlaced
  <2>. QED
    BY <2>1, <2>3, <2>4 DEF Wrote
<1>2. ASSUME NEW g \in {"verify", "compute"}, NEW e \in {"hitls", "openssl"}, Call(g, e)
      PROVE  buffer'[k] = buffer[k]
  BY <1>2 DEF Call
<1>3. ~Prepare
  BY DEF Prepare
<1>4. CASE CallerStep \/ CallerFails
  BY <1>3, <1>4
  DEF CallerStep, Join, NextSource, Succeed, Mismatch, FallBack, Refuse, CallerFails
<1>5. ASSUME NEW i \in Threads, ThreadBegins(i) \/ ThreadEnds(i) \/ ThreadFails(i)
      PROVE  buffer'[k] = buffer[k]
  BY <1>5 DEF ThreadBegins, ThreadEnds, ThreadFails
<1>6. CASE UNCHANGED vars
  BY <1>6 DEF vars
<1>. QED
  BY <1>1, <1>2, <1>4, <1>5, <1>6 DEF Next

\* No slot is written twice in an attempt: the shares do not overlap
\* (ComputeDigestsForContentsZip).
THEOREM WrittenOnce == Spec => NoSlotTwice
<1>1. DigestInv /\ [Next]_vars =>
        [pc # "prepare" => \A k \in DOMAIN buffer :
            buffer[k] # Unset => buffer'[k] = buffer[k]]_vars
  BY FilledStay
<1>. QED
  BY <1>1, Invariance, PTL DEF Spec, NoSlotTwice

-----------------------------------------------------------------------------
(***************************************************************************)
(* The safety of HitlsLoader, for any number of threads and any delay.     *)
(*                                                                         *)
(* The worker looks at closeScheduled_ before it closes, and what makes    *)
(* this enough is Scheduling: a close is scheduled only while nobody holds *)
(* the library, and then the time unused and the time left add up to the   *)
(* delay, however often the deadline has moved.                            *)
(***************************************************************************)
Counted == holds = Cardinality(Holders)

HeldLoaded == Holders # {} => loaded

Scheduling == scheduled => loaded /\ Holders = {} /\ unused + left = Delay

LoaderInv == LoaderTypeOK /\ Counted /\ HeldLoaded /\ Scheduling

-----------------------------------------------------------------------------
\* The holders are finitely many, so holds is 0 exactly when there are none.
LEMMA HoldersFinite ==
    /\ IsFiniteSet(Holders)
    /\ Cardinality(Holders) \in Nat
    /\ Cardinality(Holders) = 0 <=> Holders = {}
<1>1. IsFiniteSet(Holders)
  <2>1. Holders \subseteq Users
    BY DEF Holders
  <2>. QED
    BY <2>1, HitlsAssumption, FS_Subset DEF HitlsAssumption
<1>. QED
  BY <1>1, FS_CardinalityType, FS_EmptySet

\* A step that leaves users alone leaves the holders alone.
LEMMA HoldersKept ==
  ASSUME UNCHANGED users
  PROVE  Holders' = Holders
BY DEF Holders

\* Acquire adds one holder, and counts it.
LEMMA AcquireCounts ==
  ASSUME LoaderTypeOK, Counted, NEW t \in Users,
         users[t] = "idle", users' = [users EXCEPT ![t] = "acquired"], holds' = holds + 1
  PROVE  Holders' = Holders \union {t} /\ Counted'
<1>1. Holders' = Holders \union {t}
  BY DEF LoaderTypeOK, Holders
<1>2. t \notin Holders
  BY DEF Holders
<1>3. Cardinality(Holders \union {t}) = Cardinality(Holders) + 1
  BY <1>2, HoldersFinite, FS_AddElement
<1>. QED
  BY <1>1, <1>3 DEF Counted

\* Release removes one, and counts that.
LEMMA ReleaseCounts ==
  ASSUME LoaderTypeOK, Counted, NEW t \in Users,
         users[t] = "using", users' = [users EXCEPT ![t] = "released"], holds' = holds - 1
  PROVE  /\ Holders' = Holders \ {t} /\ t \in Holders /\ Counted'
         /\ holds' = 0 <=> Holders' = {}
<1>1. Holders' = Holders \ {t}
  BY DEF LoaderTypeOK, Holders
<1>2. t \in Holders
  BY DEF Holders
<1>3. Cardinality(Holders \ {t}) = Cardinality(Holders) - 1
  BY <1>2, HoldersFinite, FS_RemoveElement
<1>4. Cardinality(Holders \ {t}) = 0 <=> Holders \ {t} = {}
  BY HoldersFinite, FS_RemoveElement, FS_EmptySet
<1>. QED
  BY <1>1, <1>2, <1>3, <1>4 DEF Counted

-----------------------------------------------------------------------------
LEMMA LoaderTypeStep ==
  ASSUME LoaderTypeOK, [LoaderNext]_loaderVars
  PROVE  LoaderTypeOK'
<1>. USE HitlsAssumption DEF LoaderTypeOK, HitlsAssumption
<1>1. CASE UNCHANGED loaderVars
  BY <1>1 DEF loaderVars
<1>2. ASSUME NEW t \in Users, UseStep(t)
      PROVE  LoaderTypeOK'
  <2>1. ASSUME NEW found \in BOOLEAN, Acquire(t, found)
        PROVE  LoaderTypeOK'
    <3>1. loaded' \in BOOLEAN /\ scheduled' \in BOOLEAN
      BY <2>1, Zenon DEF Acquire
    <3>3. holds' \in Nat
      BY <2>1 DEF Acquire, Held
    <3>2. users' \in [Users -> {"idle", "acquired", "using", "released"}]
      BY <2>1 DEF Acquire
    <3>. QED
      BY <2>1, <3>1, <3>2, <3>3 DEF Acquire
  <2>2. CASE AcquireNotifies(t)
    BY <2>2 DEF AcquireNotifies, NotifyOne
  <2>3. CASE Release(t)
    <3>1. left' \in 0..Delay
      BY <2>3 DEF Release, LastRelease, Deadline
    <3>2. scheduled' \in BOOLEAN
      BY <2>3 DEF Release, LastRelease
    <3>3. holds' \in Nat /\ unused' \in 0..Delay
      BY <2>3 DEF Release
    <3>4. users' \in [Users -> {"idle", "acquired", "using", "released"}]
      BY <2>3 DEF Release
    <3>. QED
      BY <2>3, <3>1, <3>2, <3>3, <3>4 DEF Release
  <2>4. CASE ReleaseNotifies(t)
    BY <2>4 DEF ReleaseNotifies, NotifyOne
  <2>. QED
    BY <1>2, <2>1, <2>2, <2>3, <2>4 DEF UseStep
<1>3. CASE WorkerStep
  BY <1>3 DEF WorkerStep, WorkerLeaves, WorkerWaits, WorkerCloses,
              WorkerWaitsUntil, WorkerTimesOut
<1>4. CASE SpuriousWakeup
  BY <1>4 DEF SpuriousWakeup
<1>5. CASE Tick
  BY <1>5 DEF Tick, Down
<1>6. CASE EndStep
  BY <1>6 DEF EndStep, StopWorker, StopNotifies, WakesOnStop, NotifyOne,
              JoinWorker, Ended, loaderVars
<1>. QED
  BY <1>1, <1>2, <1>3, <1>4, <1>5, <1>6 DEF LoaderNext

\* The steps of the worker, of time and of the destructor leave the holds alone.
LEMMA OthersKeepHolds ==
  ASSUME LoaderTypeOK, UNCHANGED loaderVars \/ WorkerStep \/ SpuriousWakeup \/ Tick \/ EndStep
  PROVE  UNCHANGED <<users, holds>>
BY DEF loaderVars, WorkerStep, WorkerLeaves, WorkerWaits, WorkerCloses,
       WorkerWaitsUntil, WorkerTimesOut, SpuriousWakeup, Tick,
       EndStep, StopWorker, StopNotifies, JoinWorker, Ended

\* A notification changes neither the holders nor what they hold.
LEMMA NotifiesKeep ==
  ASSUME LoaderTypeOK, NEW t \in Users, AcquireNotifies(t) \/ ReleaseNotifies(t)
  PROVE  /\ Holders' = Holders
         /\ UNCHANGED <<loaded, holds, scheduled, left, unused>>
BY DEF LoaderTypeOK, Holders, AcquireNotifies, ReleaseNotifies

LEMMA CountedStep ==
  ASSUME LoaderInv, [LoaderNext]_loaderVars
  PROVE  Counted'
<1>. USE DEF LoaderInv
<1>1. CASE UNCHANGED loaderVars \/ WorkerStep \/ SpuriousWakeup \/ Tick \/ EndStep
  BY <1>1, OthersKeepHolds, HoldersKept DEF Counted
<1>2. ASSUME NEW t \in Users, UseStep(t)
      PROVE  Counted'
  <2>1. ASSUME NEW found \in BOOLEAN, Acquire(t, found)
        PROVE  Counted'
    BY <2>1, AcquireCounts DEF Acquire, Held
  <2>2. CASE Release(t)
    BY <2>2, ReleaseCounts DEF Release
  <2>3. CASE AcquireNotifies(t) \/ ReleaseNotifies(t)
    BY <2>3, NotifiesKeep DEF Counted
  <2>. QED
    BY <1>2, <2>1, <2>2, <2>3 DEF UseStep
<1>. QED
  BY <1>1, <1>2 DEF LoaderNext

LEMMA HeldLoadedStep ==
  ASSUME LoaderInv, [LoaderNext]_loaderVars
  PROVE  HeldLoaded'
<1>. USE DEF LoaderInv
<1>1. CASE WorkerCloses
  <2>1. Holders = {}
    BY <1>1, HoldersFinite DEF WorkerCloses, MayClose, Counted
  <2>2. UNCHANGED users
    BY <1>1 DEF WorkerCloses
  <2>. QED
    BY <2>1, <2>2, HoldersKept DEF HeldLoaded
<1>2. CASE (WorkerStep /\ ~WorkerCloses) \/ UNCHANGED loaderVars \/ SpuriousWakeup
               \/ Tick \/ EndStep
  <2>1. UNCHANGED loaded
    BY <1>2 DEF WorkerStep, WorkerLeaves, WorkerWaits, WorkerWaitsUntil,
                WorkerTimesOut, loaderVars, SpuriousWakeup, Tick, EndStep,
                StopWorker, StopNotifies, JoinWorker, Ended
  <2>. QED
    BY <1>2, <2>1, OthersKeepHolds, HoldersKept DEF HeldLoaded
<1>3. ASSUME NEW t \in Users, UseStep(t)
      PROVE  HeldLoaded'
  <2>1. ASSUME NEW found \in BOOLEAN, Acquire(t, found)
        PROVE  HeldLoaded'
    BY <2>1 DEF Acquire, HeldLoaded
  <2>2. CASE Release(t)
    BY <2>2, ReleaseCounts DEF Release, HeldLoaded
  <2>3. CASE AcquireNotifies(t) \/ ReleaseNotifies(t)
    BY <2>3, NotifiesKeep DEF HeldLoaded
  <2>. QED
    BY <1>3, <2>1, <2>2, <2>3 DEF UseStep
<1>. QED
  BY <1>1, <1>2, <1>3 DEF LoaderNext

LEMMA SchedulingStep ==
  ASSUME LoaderInv, [LoaderNext]_loaderVars
  PROVE  Scheduling'
<1>. USE DEF LoaderInv
<1>1. CASE Tick
  <2>1. scheduled => unused' + left' = Delay
    BY <1>1, HitlsAssumption DEF HitlsAssumption, Tick, Down, Scheduling, LoaderTypeOK
  <2>2. UNCHANGED <<loaded, scheduled, users>>
    BY <1>1 DEF Tick
  <2>. QED
    BY <2>1, <2>2, HoldersKept DEF Scheduling
<1>2. CASE UNCHANGED loaderVars \/ WorkerStep \/ SpuriousWakeup \/ EndStep
  <2>1. Holders' = Holders
    BY <1>2, OthersKeepHolds, HoldersKept
  <2>2. \/ UNCHANGED <<loaded, scheduled, left, unused>>
        \/ ~scheduled'
    BY <1>2 DEF WorkerStep, WorkerLeaves, WorkerWaits, WorkerCloses,
                WorkerWaitsUntil, WorkerTimesOut, loaderVars, SpuriousWakeup,
                EndStep, StopWorker, StopNotifies, JoinWorker, Ended
  <2>. QED
    BY <2>1, <2>2 DEF Scheduling
<1>3. ASSUME NEW t \in Users, UseStep(t)
      PROVE  Scheduling'
  <2>1. ASSUME NEW found \in BOOLEAN, Acquire(t, found)
        PROVE  Scheduling'
    BY <2>1 DEF Acquire, Scheduling
  <2>2. CASE Release(t)
    <3>1. t \in Holders /\ (holds' = 0 <=> Holders' = {})
      BY <2>2, ReleaseCounts DEF Release
    <3>2. loaded /\ ~scheduled
      BY <3>1 DEF HeldLoaded, Scheduling
    <3>3. CASE holds = 1
      <4>1. scheduled' = TRUE /\ left' = Delay /\ unused' = 0 /\ loaded' = loaded
        BY <2>2, <3>3 DEF Release, LastRelease, Deadline
      <4>2. holds' = 0
        BY <2>2, <3>3 DEF Release
      <4>. QED
        BY <3>1, <3>2, <4>1, <4>2, HitlsAssumption DEF Scheduling, HitlsAssumption
    <3>4. CASE holds # 1
      BY <2>2, <3>2, <3>4 DEF Release, LastRelease, Scheduling
    <3>. QED
      BY <3>3, <3>4
  <2>3. CASE AcquireNotifies(t) \/ ReleaseNotifies(t)
    BY <2>3, NotifiesKeep DEF Scheduling
  <2>. QED
    BY <1>3, <2>1, <2>2, <2>3 DEF UseStep
<1>. QED
  BY <1>1, <1>2, <1>3 DEF LoaderNext

LEMMA LoaderInvariance == LoaderSpec => []LoaderInv
<1>1. LoaderInit => LoaderInv
  <2>. SUFFICES ASSUME LoaderInit PROVE LoaderInv
    OBVIOUS
  <2>1. LoaderTypeOK
    <3>1. 0 \in 0..Delay /\ 0 \in Nat
      BY HitlsAssumption DEF HitlsAssumption
    <3>2. loaded \in BOOLEAN /\ scheduled \in BOOLEAN /\ stop \in BOOLEAN
      BY DEF LoaderInit
    <3>3. users \in [Users -> {"idle", "acquired", "using", "released"}]
      BY DEF LoaderInit
    <3>. QED
      BY <3>1, <3>2, <3>3 DEF LoaderInit, LoaderTypeOK
  <2>2. Holders = {}
    BY DEF LoaderInit, Holders
  <2>3. Counted
    BY <2>2, FS_EmptySet DEF LoaderInit, Counted
  <2>. QED
    BY <2>1, <2>2, <2>3 DEF LoaderInit, LoaderInv, HeldLoaded, Scheduling
<1>2. LoaderInv /\ [LoaderNext]_loaderVars => LoaderInv'
  BY LoaderTypeStep, CountedStep, HeldLoadedStep, SchedulingStep DEF LoaderInv
<1>. QED
  BY <1>1, <1>2, PTL DEF LoaderSpec

-----------------------------------------------------------------------------
\* The types, with every timer within the delay.
THEOREM LoaderTypeCorrect == LoaderSpec => []LoaderTypeOK
<1>1. LoaderInv => LoaderTypeOK
  BY DEF LoaderInv
<1>. QED
  BY <1>1, LoaderInvariance, PTL

\* The library is never closed under a holder, however many threads hold it and
\* whatever wakes the worker (Acquire, Release, CloseWorkerLoop, IsReady).
THEOREM ReadyUnderHold == LoaderSpec => []HoldersAreReady
<1>1. LoaderInv => HoldersAreReady
  <2>. SUFFICES ASSUME LoaderInv, Holders # {} PROVE loaded /\ holds > 0
    BY DEF HoldersAreReady
  <2>1. Cardinality(Holders) \in Nat /\ Cardinality(Holders) # 0
    BY HoldersFinite
  <2>. QED
    BY <2>1 DEF LoaderInv, HeldLoaded, Counted
<1>. QED
  BY <1>1, LoaderInvariance, PTL

\* activeHolds_ is the number of holders, and only an unheld library is due to
\* be closed.
THEOREM HoldsExact == LoaderSpec => []HoldsAreCounted
<1>1. LoaderInv => HoldsAreCounted
  BY DEF LoaderInv, HoldsAreCounted, Counted, Scheduling
<1>. QED
  BY <1>1, LoaderInvariance, PTL

\* No step closes the library before it has been unused for the whole delay.
THEOREM DelayKept == LoaderSpec => ClosedAfterDelay
<1>1. LoaderInv /\ [LoaderNext]_loaderVars => [loaded /\ ~loaded' => unused = Delay]_loaderVars
  <2>. SUFFICES ASSUME LoaderInv, LoaderNext, loaded, ~loaded' PROVE unused = Delay
    BY DEF loaderVars
  <2>1. WorkerCloses
    <3>1. ASSUME NEW t \in Users, UseStep(t)
          PROVE  FALSE
      BY <3>1 DEF UseStep, Acquire, AcquireNotifies, Release, ReleaseNotifies
    <3>2. CASE SpuriousWakeup \/ Tick \/ EndStep
      BY <3>2 DEF SpuriousWakeup, Tick, EndStep, StopWorker, StopNotifies,
                  JoinWorker, Ended, loaderVars
    <3>3. CASE WorkerStep
      BY <3>3 DEF WorkerStep, WorkerLeaves, WorkerWaits, WorkerWaitsUntil,
                  WorkerTimesOut
    <3>. QED
      BY <3>1, <3>2, <3>3 DEF LoaderNext
  <2>. QED
    BY <2>1 DEF WorkerCloses, MayClose, Due, LoaderInv, Scheduling, LoaderTypeOK
<1>. QED
  BY <1>1, LoaderInvariance, PTL DEF LoaderSpec, ClosedAfterDelay

-----------------------------------------------------------------------------
(* SigningBlock: sums of lengths.                                          *)

\* The least counterexample.
LEMMA FirstOfNumbers ==
    ASSUME NEW T, T \subseteq Nat, T # {}
    PROVE  \E m \in T : \A k \in T : m <= k
<1>1. PICK m \in T : \A k \in T : ~(<<k, m>> \in OpToRel(<, Nat))
  BY WFMin, NatLessThanWellFounded
<1>2. \A k \in T : ~(k < m)
  BY <1>1 DEF OpToRel
<1>. QED
  BY <1>2

\* g gives the sum of len over each subset of 1..n.
Adds(g, len, n) ==
    /\ g \in [SUBSET (1..n) -> Int]
    /\ g[{}] = 0
    /\ \A s \in SUBSET (1..n) : \A x \in s : g[s] = len[x] + g[s \ {x}]

\* There is such a g, by the least n without one.
LEMMA SumsExist ==
    ASSUME NEW n \in Nat, NEW len, \A i \in 1..n : len[i] \in Int
    PROVE  \E g : Adds(g, len, n)
<1>. DEFINE T == {m \in 0..n : ~\E g : Adds(g, len, m)}
<1>. SUFFICES ASSUME T # {} PROVE FALSE
  <2>1. n \in 0..n
    OBVIOUS
  <2>. QED
    BY <2>1
<1>0. T \subseteq Nat
  OBVIOUS
<1>1. PICK m \in T : \A k \in T : m <= k
  <2>. HIDE DEF T
  <2>. QED
    BY <1>0, FirstOfNumbers
<1>2. m # 0
  <2>1. SUBSET (1..0) = {{}}
    OBVIOUS
  <2>2. Adds([s \in SUBSET (1..0) |-> 0], len, 0)
    BY <2>1 DEF Adds
  <2>. QED
    BY <1>1, <2>2
<1>3. m \in 1..n /\ m - 1 \in 0..n /\ m - 1 \notin T
  BY <1>1, <1>2
<1>4. PICK g : Adds(g, len, m - 1)
  BY <1>3
<1>. DEFINE h == [s \in SUBSET (1..m) |-> IF m \in s THEN len[m] + g[s \ {m}] ELSE g[s]]
<1>5. \A s \in SUBSET (1..m) : m \notin s => s \in SUBSET (1..(m - 1))
  BY <1>3
<1>6. \A s \in SUBSET (1..m) : s \ {m} \in SUBSET (1..(m - 1))
  BY <1>3
<1>7. h \in [SUBSET (1..m) -> Int] /\ h[{}] = 0
  <2>1. len[m] \in Int
    BY <1>3
  <2>2. \A s \in SUBSET (1..(m - 1)) : g[s] \in Int
    BY <1>4 DEF Adds
  <2>3. \A s \in SUBSET (1..m) : h[s] \in Int
    BY <1>5, <1>6, <2>1, <2>2
  <2>4. h[{}] = 0
    BY <1>4 DEF Adds
  <2>. QED
    BY <2>3, <2>4
<1>8. ASSUME NEW s \in SUBSET (1..m), NEW x \in s
      PROVE  h[s] = len[x] + h[s \ {x}]
  <2>0. s \ {x} \in SUBSET (1..m)
    OBVIOUS
  <2>1. CASE x = m
    BY <2>0, <2>1
  <2>2. CASE x # m /\ m \notin s
    BY <1>4, <1>5, <1>8, <2>0, <2>2 DEF Adds
  <2>3. CASE x # m /\ m \in s
    <3>1. h[s] = len[m] + g[s \ {m}] /\ h[s \ {x}] = len[m] + g[(s \ {x}) \ {m}]
      BY <2>0, <2>3
    <3>2. (s \ {x}) \ {m} = (s \ {m}) \ {x}
      OBVIOUS
    <3>3. g[s \ {m}] = len[x] + g[(s \ {m}) \ {x}]
      BY <1>4, <1>6, <2>3 DEF Adds
    <3>4. g[(s \ {m}) \ {x}] \in Int /\ len[m] \in Int /\ len[x] \in Int
      <4>1. (s \ {m}) \ {x} \in SUBSET (1..(m - 1))
        BY <1>6
      <4>. QED
        BY <1>3, <1>4, <4>1 DEF Adds
    <3>. HIDE DEF h
    <3>. QED
      BY <3>1, <3>2, <3>3, <3>4
  <2>. QED
    BY <2>1, <2>2, <2>3
<1>9. Adds(h, len, m)
  BY <1>7, <1>8 DEF Adds
<1>. QED
  BY <1>1, <1>9

\* What the fold of the community module computes of the lengths.
Folded(f, subs, S) ==
    f = [s \in SUBSET S |-> IF s = {} THEN 0
                            ELSE subs[CHOOSE x \in s : TRUE].length
                                     + f[s \ {CHOOSE x \in s : TRUE}]]

\* The sum of a prefix, whatever the order in which its elements are taken.
LEMMA DataLengthIs ==
    ASSUME NEW n \in Nat, NEW len, NEW g, Adds(g, len, n),
           NEW subs, NEW k \in 0..n, DOMAIN subs = 1..k,
           \A i \in 1..k : subs[i].length = len[i]
    PROVE  DataLength(subs) = g[1..k]
<1>. DEFINE S == 1..k
           first(s) == CHOOSE x \in s : TRUE
           h == [s \in SUBSET S |-> g[s]]
           iter == CHOOSE f : Folded(f, subs, S)
<1>1. S \subseteq 1..n /\ \A s \in SUBSET S : s \in SUBSET (1..n)
  OBVIOUS
<1>2. \A s \in SUBSET S : s # {} => first(s) \in s /\ s \ {first(s)} \in SUBSET S
  OBVIOUS
<1>3. Folded(h, subs, S)
  <2>1. ASSUME NEW s \in SUBSET S
        PROVE  h[s] = IF s = {} THEN 0
                      ELSE subs[first(s)].length + h[s \ {first(s)}]
    <3>1. CASE s = {}
      BY <3>1 DEF Adds
    <3>2. CASE s # {}
      <4>1. first(s) \in s /\ s \ {first(s)} \in SUBSET S /\ s \in SUBSET (1..n)
        BY <1>1, <1>2, <3>2
      <4>2. g[s] = len[first(s)] + g[s \ {first(s)}]
        BY <4>1 DEF Adds
      <4>. QED
        BY <3>2, <4>1, <4>2
    <3>. QED
      BY <3>1, <3>2
  <2>. QED
    BY <2>1, Zenon DEF Folded
<1>4. Folded(iter, subs, S)
  BY <1>3, Zenon
<1>5. DataLength(subs) = iter[S]
  BY Zenon DEF DataLength, MapThenSumSet, MapThenFoldSet, Folded
<1>. DEFINE T == {c \in Nat : \E s \in SUBSET S : Cardinality(s) = c /\ iter[s] # g[s]}
<1>6. T = {}
  <2>. SUFFICES ASSUME T # {} PROVE FALSE
    OBVIOUS
  <2>1. PICK c \in T : \A d \in T : c <= d
    BY FirstOfNumbers
  <2>2. PICK s \in SUBSET S : Cardinality(s) = c /\ iter[s] # g[s]
    BY <2>1
  <2>3. iter[s] = IF s = {} THEN 0 ELSE subs[first(s)].length + iter[s \ {first(s)}]
    BY <1>4, Zenon DEF Folded
  <2>4. h[s] = IF s = {} THEN 0 ELSE subs[first(s)].length + h[s \ {first(s)}]
    BY <1>3, Zenon DEF Folded
  <2>5. s # {}
    BY <2>2, <2>3, <2>4
  <2>6. first(s) \in s /\ s \ {first(s)} \in SUBSET S
    BY <1>2, <2>5
  <2>7. iter[s \ {first(s)}] # g[s \ {first(s)}]
    BY <2>2, <2>3, <2>4, <2>5, <2>6
  <2>8. IsFiniteSet(s)
    <3>1. IsFiniteSet(S)
      BY FS_Interval
    <3>. HIDE DEF S
    <3>. QED
      BY <3>1, FS_Subset
  <2>9. Cardinality(s \ {first(s)}) = c - 1 /\ c - 1 \in Nat
    <3>1. Cardinality(s \ {first(s)}) = Cardinality(s) - 1
      BY <2>6, <2>8, FS_RemoveElement
    <3>2. Cardinality(s \ {first(s)}) \in Nat
      BY <2>8, FS_Subset, FS_CardinalityType
    <3>. QED
      BY <2>2, <3>1, <3>2
  <2>10. c - 1 \in T
    BY <2>6, <2>7, <2>9
  <2>. QED
    BY <2>1, <2>10
<1>7. Cardinality(S) \in Nat /\ S \in SUBSET S
  BY FS_Interval, FS_CardinalityType
<1>. QED
  BY <1>5, <1>6, <1>7

\* What the first heads of t ask for, by their number.
Sums(sum, t, n) ==
    /\ sum \in [0..n -> Int]
    /\ sum[0] = 0
    /\ \A k \in 1..n : sum[k] = sum[k - 1] + t[k].length
    /\ \A k \in 0..n : \A s :
          /\ DOMAIN s = 1..k
          /\ \A i \in 1..k : s[i].length = t[i].length
          => DataLength(s) = sum[k]

\* The sums of the prefixes grow by one length at a time.
LEMMA LengthsAddUp ==
    ASSUME NEW n \in Nat, NEW t, DOMAIN t = 1..n, \A i \in 1..n : t[i].length \in Nat
    PROVE  \E sum : Sums(sum, t, n)
<1>. DEFINE len == [i \in 1..n |-> t[i].length]
<1>1. \A i \in 1..n : len[i] \in Int
  OBVIOUS
<1>2. PICK g : Adds(g, len, n)
  <2>. HIDE DEF len
  <2>. QED
    BY <1>1, SumsExist
<1>. DEFINE sum == [k \in 0..n |-> g[1..k]]
<1>3. sum \in [0..n -> Int]
  <2>1. \A k \in 0..n : 1..k \in SUBSET (1..n)
    OBVIOUS
  <2>. QED
    BY <1>2, <2>1 DEF Adds
<1>4. sum[0] = 0
  BY <1>2 DEF Adds
<1>5. ASSUME NEW k \in 1..n
      PROVE  sum[k] = sum[k - 1] + t[k].length
  <2>1. 1..k \in SUBSET (1..n) /\ k \in 1..k /\ (1..k) \ {k} = 1..(k - 1)
    OBVIOUS
  <2>2. g[1..k] = len[k] + g[(1..k) \ {k}]
    BY <1>2, <2>1 DEF Adds
  <2>3. sum[k - 1] = g[1..(k - 1)] /\ sum[k] = g[1..k] /\ len[k] = t[k].length
    OBVIOUS
  <2>4. sum[k - 1] \in Int /\ t[k].length \in Int
    <3>1. k - 1 \in 0..n
      OBVIOUS
    <3>. HIDE DEF sum
    <3>. QED
      BY <1>3, <3>1
  <2>5. g[1..k] = len[k] + g[1..(k - 1)]
    BY <2>1, <2>2, Zenon
  <2>. HIDE DEF sum, len
  <2>. QED
    BY <2>3, <2>4, <2>5
<1>6. ASSUME NEW k \in 0..n, NEW s, DOMAIN s = 1..k,
             \A i \in 1..k : s[i].length = t[i].length
      PROVE  DataLength(s) = sum[k]
  <2>1. \A i \in 1..k : s[i].length = len[i]
    BY <1>6
  <2>. HIDE DEF len
  <2>2. DataLength(s) = g[1..k]
    BY <1>2, <1>6, <2>1, DataLengthIs
  <2>. QED
    BY <2>2
<1>. QED
  <2>. HIDE DEF sum
  <2>. QED
    BY <1>3, <1>4, <1>5, <1>6 DEF Sums

\* What a prefix asks for, with the next head, is within what all ask for.
LEMMA PrefixOfData ==
    ASSUME NEW n \in Nat, NEW t, DOMAIN t = 1..n, \A i \in 1..n : t[i].length \in Nat,
           NEW k \in 0..n, NEW s, DOMAIN s = 1..k,
           \A i \in 1..k : s[i].length = t[i].length
    PROVE  /\ DataLength(s) \in Nat /\ DataLength(t) \in Nat
           /\ k = 0 => DataLength(s) = 0
           /\ k = n => DataLength(t) = DataLength(s)
           /\ k < n => DataLength(s) + t[k + 1].length <= DataLength(t)
           /\ n = k + 1 => DataLength(t) = DataLength(s) + t[k + 1].length
<1>0. PICK sum : Sums(sum, t, n)
  BY LengthsAddUp
<1>1. /\ sum \in [0..n -> Int] /\ sum[0] = 0
      /\ \A j \in 1..n : sum[j] = sum[j - 1] + t[j].length
  BY <1>0 DEF Sums
<1>2. DataLength(s) = sum[k] /\ DataLength(t) = sum[n]
  <2>1. \A j \in 0..n : \A r : DOMAIN r = 1..j /\ (\A i \in 1..j : r[i].length = t[i].length)
                                => DataLength(r) = sum[j]
    BY <1>0, Zenon DEF Sums
  <2>2. n \in 0..n
    OBVIOUS
  <2>. QED
    BY <2>1, <2>2
<1>3. ASSUME NEW i \in 0..n, NEW j \in i..n
      PROVE  sum[i] <= sum[j]
  <2>. DEFINE T == {m \in i..n : ~(sum[i] <= sum[m])}
  <2>0. T \subseteq Nat
    OBVIOUS
  <2>1. T = {}
    <3>. SUFFICES ASSUME T # {} PROVE FALSE
      OBVIOUS
    <3>1. PICK m \in T : \A l \in T : m <= l
      <4>. HIDE DEF T
      <4>. QED
        BY <2>0, FirstOfNumbers
    <3>2. m \in 1..n /\ m # i /\ m - 1 \in i..n
      BY <1>1, <3>1
    <3>3. m - 1 \notin T
      BY <3>1, <3>2
    <3>4. sum[i] <= sum[m - 1]
      BY <3>2, <3>3
    <3>5. sum[m] = sum[m - 1] + t[m].length /\ t[m].length \in Nat
      BY <1>1, <3>2
    <3>6. sum[i] \in Int /\ sum[m - 1] \in Int /\ m - 1 \in 0..n
      BY <1>1, <3>2
    <3>7. sum[i] <= sum[m]
      <4>. HIDE DEF T
      <4>. QED
        BY <3>4, <3>5, <3>6
    <3>. QED
      BY <3>1, <3>7
  <2>. QED
    BY <2>1
<1>4. sum[k] \in Nat /\ sum[n] \in Nat
  <2>1. 0 \in 0..n /\ k \in 0..n /\ n \in 0..n /\ sum[k] \in Int /\ sum[n] \in Int
    BY <1>1
  <2>2. sum[0] <= sum[k] /\ sum[0] <= sum[n]
    BY <1>3, <2>1
  <2>. QED
    BY <1>1, <2>1, <2>2
<1>5. ASSUME k < n
      PROVE  /\ sum[k + 1] = sum[k] + t[k + 1].length
             /\ sum[k + 1] <= sum[n]
  <2>1. k + 1 \in 1..n /\ (k + 1) - 1 = k /\ n \in (k + 1)..n
    BY <1>5
  <2>. QED
    BY <1>1, <1>3, <2>1
<1>. QED
  BY <1>1, <1>2, <1>4, <1>5

-----------------------------------------------------------------------------
(* What the invariant of the search speaks of.                             *)

\* The head that the last end record leads to, where it says that the block
\* begins, and the heads of the sub-blocks there.
Record(f) == f.ends[Max(EndRecords(f))]
TheHead(f) == HeadAt(f, Record(f).cdOffset - HeadLen)
First(f) == Record(f).cdOffset - TheHead(f).size
Listed(f) == SubHeads(f, First(f), TheHead(f).count)

\* What the format says of the head, and of one sub-block.
HeadFits(f) ==
    /\ EndRecords(f) # {}
    /\ Record(f).cdOffset + Record(f).cdSize = Max(EndRecords(f))
    /\ TheHead(f).magic = MagicOf(TheHead(f).version)
    /\ TheHead(f).size \in HeadLen..MaxBlockSize
    /\ TheHead(f).count <= MaxBlockCount
    /\ First(f) >= 0

SubFits(sub, f, mode) ==
    /\ sub.type \in OptionalTypes \union {"sign"}
    /\ sub.length > 0
    /\ sub.offset <= TheHead(f).size - HeadLen
    /\ mode \/ First(f) + sub.offset + sub.length <= f.length

\* The sub-blocks that hold a signature.
SignBlobs(subs) == {i \in DOMAIN subs : subs[i].type = "sign"}

\* The call looks at that head, and as many rounds are left as heads.
HeadKnown ==
    /\ HeadFits(file)
    /\ start = First(file)
    /\ arrayLen = TheHead(file).size - HeadLen
    /\ todo = TheHead(file).count - Len(blocks)
    /\ Len(blocks) > 0 => todo >= 0

\* The rounds so far have read the first heads, each of which fits.
BlocksRead ==
    \A i \in DOMAIN blocks :
        LET sub == Listed(file)[i]
        IN  /\ SubFits(sub, file, readFile)
            /\ blocks[i] = [type |-> sub.type, from |-> start + sub.offset,
                            length |-> sub.length]
            /\ \A j \in DOMAIN blocks :
                  blocks[i].type = "sign" /\ blocks[j].type = "sign" => i = j

\* The inductive invariant of the search.
SearchInv ==
    /\ phase \in {"idle", "eocd", "blocks", "found", "refused"}
    /\ phase # "idle" => file \in Files /\ readFile \in BOOLEAN
    /\ blocks \in Seq(Block)
    /\ phase \in {"idle", "eocd"} => blocks = <<>> /\ readLen = 0
    /\ phase \in {"blocks", "found"} =>
          HeadKnown /\ BlocksRead
          /\ readLen = SubHeadLen * Len(blocks) + DataLength(blocks)
    /\ phase = "found" => todo <= 0 /\ readLen = arrayLen
    /\ phase = "refused" => ~WellFormed(file, readFile)

-----------------------------------------------------------------------------
(* Facts about files.                                                      *)

\* What stands in a file has the fields that the code reads.
LEMMA HapTyped ==
    ASSUME NEW f \in Files
    PROVE  /\ f.length \in Nat /\ DOMAIN f.ends \subseteq Nat
           /\ \A o \in DOMAIN f.ends : f.ends[o] \in EndRecord
           /\ \A o : SubHeadAt(f, o) \in SubHead
           /\ \A o : HeadAt(f, o) \in BlockHead
<1>1. IsHap(f)
  BY SigningBlockAssumption
<1>2. NoSubHead \in SubHead /\ NoHead \in BlockHead
  BY SigningBlockAssumption DEF NoSubHead, NoHead, SubHead, BlockHead, Words, Ints
<1>. QED
  BY <1>1, <1>2 DEF IsHap, SubHeadAt, HeadAt

\* What the constants are.
LEMMA LengthsTyped ==
    /\ EocdLen \in Nat \ {0} /\ HeadLen \in Nat \ {0} /\ SubHeadLen \in Nat \ {0}
    /\ MaxComment \in Nat /\ MaxShort \in Nat /\ MaxBlockSize \in Nat
    /\ MaxBlockCount \in Nat /\ MaxBlockNum \in Nat /\ MaxBlockCount <= MaxBlockNum
    /\ MaxInt \in Nat /\ MaxBlockSize <= MaxInt
BY SigningBlockAssumption

\* The least of some numbers.
LEMMA MinIs ==
    ASSUME NEW T, T \subseteq Nat, T # {}
    PROVE  Min(T) \in T /\ \A x \in T : Min(T) <= x
BY FirstOfNumbers, Zenon DEF Min

\* Every end record ends with the file, so there is a last one.
LEMMA RecordsOf ==
    ASSUME NEW f \in Files
    PROVE  /\ \A o \in EndRecords(f) :
                 /\ o \in Nat /\ f.ends[o] \in EndRecord
                 /\ o + EocdLen + f.ends[o].comment = f.length
           /\ EndRecords(f) # {} =>
                 /\ Max(EndRecords(f)) \in EndRecords(f)
                 /\ \A o \in EndRecords(f) : o <= Max(EndRecords(f))
           /\ Eocd(f) = IF EndRecords(f) = {} THEN None ELSE Max(EndRecords(f))
<1>1. /\ f.length \in Nat /\ DOMAIN f.ends \subseteq Nat
      /\ \A o \in DOMAIN f.ends : f.ends[o] \in EndRecord
  BY HapTyped
<1>2. \A o \in EndRecords(f) : o \in DOMAIN f.ends /\ o \in Nat /\ f.ends[o] \in EndRecord
  BY <1>1 DEF EndRecords, EndRecordsIn
<1>3. ASSUME NEW o \in EndRecords(f)
      PROVE  /\ o + EocdLen + f.ends[o].comment = f.length
             /\ f.ends[o].comment \in 0..MaxComment
             /\ f.ends[o].comment = f.length - EocdLen - o
  <2>1. f.ends[o].comment = f.length - EocdLen - o
    BY DEF EndRecords, EndRecordsIn
  <2>2. f.ends[o].comment \in 0..MaxComment
    BY <1>2 DEF EndRecord, Words
  <2>. QED
    BY <1>1, <1>2, <2>1, <2>2, LengthsTyped
<1>4. ASSUME EndRecords(f) # {}
      PROVE  /\ Max(EndRecords(f)) \in EndRecords(f)
             /\ \A o \in EndRecords(f) : o <= Max(EndRecords(f))
  <2>. DEFINE T == {f.ends[o].comment : o \in EndRecords(f)}
  <2>1. T \subseteq Nat /\ T # {}
    BY <1>3, <1>4, LengthsTyped
  <2>2. PICK c \in T : \A d \in T : c <= d
    <3>. HIDE DEF T
    <3>. QED
      BY <2>1, FirstOfNumbers
  <2>3. PICK m \in EndRecords(f) : f.ends[m].comment = c
    BY <2>2
  <2>4. \A o \in EndRecords(f) : f.ends[m].comment <= f.ends[o].comment
    BY <2>2, <2>3
  <2>5. \A o \in EndRecords(f) : m >= o
    BY <1>1, <1>2, <1>3, <2>4, LengthsTyped
  <2>6. Max(EndRecords(f)) \in EndRecords(f)
        /\ \A o \in EndRecords(f) : Max(EndRecords(f)) >= o
    BY <2>5, Zenon DEF Max
  <2>. QED
    BY <1>2, <2>6
<1>5. {o \in EndRecords(f) : f.length - EocdLen - o <= MaxComment} = EndRecords(f)
  BY <1>3, LengthsTyped
<1>6. Eocd(f) = IF EndRecords(f) = {} THEN None ELSE Max(EndRecords(f))
  BY <1>5, Zenon DEF Eocd
<1>. QED
  BY <1>2, <1>3, <1>4, <1>6

\* How many heads there are: a negative count stands for none.
Count(f) == IF TheHead(f).count < 0 THEN 0 ELSE TheHead(f).count

\* The heads listed, by their number.
LEMMA ListedIs ==
    ASSUME NEW f \in Files
    PROVE  /\ TheHead(f) \in BlockHead
           /\ Count(f) \in Nat
           /\ DOMAIN Listed(f) = 1..Count(f)
           /\ Len(Listed(f)) = Count(f)
           /\ \A i \in 1..Count(f) :
                 /\ Listed(f)[i] = SubHeadAt(f, First(f) + SubHeadLen * (i - 1))
                 /\ Listed(f)[i] \in SubHead
<1>1. TheHead(f) \in BlockHead
  BY HapTyped DEF TheHead
<1>2. TheHead(f).count \in Int
  BY <1>1 DEF BlockHead, Ints
<1>3. Count(f) \in Nat /\ 1..Count(f) = 1..TheHead(f).count
  BY <1>2 DEF Count
<1>4. Listed(f) = [i \in 1..Count(f) |-> SubHeadAt(f, First(f) + SubHeadLen * (i - 1))]
  BY <1>3 DEF Listed, SubHeads
<1>5. \A i \in 1..Count(f) : SubHeadAt(f, First(f) + SubHeadLen * (i - 1)) \in SubHead
  BY HapTyped
<1>6. Listed(f) \in [1..Count(f) -> SubHead]
  BY <1>4, <1>5
<1>7. Listed(f) \in Seq(SubHead)
  BY <1>3, <1>6
<1>8. Len(Listed(f)) = Count(f)
  BY <1>3, <1>6, <1>7
<1>. QED
  BY <1>1, <1>3, <1>4, <1>5, <1>8

\* At most one element, without a cardinality.
LEMMA AtMostOne ==
    ASSUME NEW n \in Nat, NEW T, T \subseteq 1..n
    PROVE  Cardinality(T) <= 1 <=> \A i, j \in T : i = j
<1>1. IsFiniteSet(T) /\ Cardinality(T) \in Nat
  <2>1. IsFiniteSet(1..n)
    BY FS_Interval
  <2>. QED
    BY <2>1, FS_Subset, FS_CardinalityType
<1>2. ASSUME Cardinality(T) <= 1, NEW i \in T, NEW j \in T, i # j
      PROVE  FALSE
  <2>1. /\ IsFiniteSet(T \ {i}) /\ Cardinality(T \ {i}) = Cardinality(T) - 1
    BY <1>1, <1>2, FS_RemoveElement
  <2>2. Cardinality(T \ {i}) = 0
    BY <1>1, <1>2, <2>1, FS_CardinalityType
  <2>3. T \ {i} = {}
    BY <2>1, <2>2, FS_EmptySet
  <2>. QED
    BY <1>2, <2>3
<1>3. ASSUME \A i, j \in T : i = j
      PROVE  Cardinality(T) <= 1
  <2>1. CASE T = {}
    BY <2>1, FS_EmptySet
  <2>2. CASE T # {}
    <3>1. PICK i \in T : T = {i}
      BY <1>3, <2>2
    <3>. QED
      BY <3>1, FS_Singleton
  <2>. QED
    BY <2>1, <2>2
<1>. QED
  BY <1>2, <1>3

\* The format in the terms of the invariant.
LEMMA WellFormedIs ==
    ASSUME NEW f \in Files, NEW mode \in BOOLEAN
    PROVE  WellFormed(f, mode) <=>
              /\ HeadFits(f)
              /\ HeadLen + SubHeadLen * Len(Listed(f)) + DataLength(Listed(f))
                     = TheHead(f).size
              /\ \A i \in DOMAIN Listed(f) : SubFits(Listed(f)[i], f, mode)
              /\ \A i, j \in SignBlobs(Listed(f)) : i = j
<1>1. SignBlobs(Listed(f)) \subseteq 1..Count(f) /\ Count(f) \in Nat
  BY ListedIs DEF SignBlobs
<1>2. Cardinality(SignBlobs(Listed(f))) <= 1 <=> \A i, j \in SignBlobs(Listed(f)) : i = j
  BY <1>1, AtMostOne
<1>3. WellFormed(f, mode) <=>
         /\ HeadFits(f)
         /\ HeadLen + SubHeadLen * Len(Listed(f)) + DataLength(Listed(f))
                = TheHead(f).size
         /\ \A i \in DOMAIN Listed(f) : SubFits(Listed(f)[i], f, mode)
         /\ Cardinality(SignBlobs(Listed(f))) <= 1
  BY Zenon DEF WellFormed, HeadFits, Record, TheHead, First, Listed, SubFits, SignBlobs
<1>. QED
  BY <1>2, <1>3

-----------------------------------------------------------------------------
(* The search step by step.                                                *)

\* What FindHapSigningBlock looks at is what the format says of the head.
LEMMA HeadDecides ==
    ASSUME NEW f \in Files, NEW o, o = Eocd(f)
    PROVE  /\ EndRecords(f) # {} => o = Max(EndRecords(f))
           /\ HeadFits(f) <=>
                 /\ f.length >= EocdLen
                 /\ o # None
                 /\ CentralDirFits(f.ends[o], o)
                 /\ f.ends[o].cdOffset >= HeadLen
                 /\ CheckSignBlockHead(HeadAt(f, f.ends[o].cdOffset - HeadLen))
                 /\ f.ends[o].cdOffset - HeadAt(f, f.ends[o].cdOffset - HeadLen).size >= 0
<1>1. CASE EndRecords(f) = {}
  <2>1. o = None
    BY <1>1, RecordsOf
  <2>. QED
    BY <1>1, <2>1 DEF HeadFits
<1>2. CASE EndRecords(f) # {}
  <2>1. o = Max(EndRecords(f)) /\ o \in Nat /\ f.ends[o] \in EndRecord
        /\ o + EocdLen + f.ends[o].comment = f.length
    BY <1>2, RecordsOf
  <2>2. o # None
    BY <2>1, NoneAssumption
  <2>3. Record(f) = f.ends[o] /\ TheHead(f) = HeadAt(f, f.ends[o].cdOffset - HeadLen)
        /\ First(f) = f.ends[o].cdOffset - TheHead(f).size
    BY <2>1 DEF Record, TheHead, First
  <2>4. f.ends[o].comment \in 0..MaxComment /\ f.ends[o].cdOffset \in Nat
        /\ f.ends[o].cdSize \in Nat /\ TheHead(f).size \in Int
    BY <2>1, ListedIs DEF EndRecord, BlockHead, Words, Ints
  <2>5. f.length >= EocdLen
    BY <2>1, <2>4, LengthsTyped
  <2>6. CentralDirFits(f.ends[o], o) <=> f.ends[o].cdOffset + f.ends[o].cdSize = o
    BY <2>1, <2>4 DEF CentralDirFits
  <2>7. TheHead(f).size \in HeadLen..MaxBlockSize /\ First(f) >= 0
           => f.ends[o].cdOffset >= HeadLen
    BY <2>3, <2>4, LengthsTyped
  <2>. QED
    BY <1>2, <2>1, <2>2, <2>3, <2>5, <2>6, <2>7 DEF HeadFits, CheckSignBlockHead
<1>. QED
  BY <1>1, <1>2

\* How far the heads reach.
LEMMA Multiples ==
    ASSUME NEW k \in Nat, NEW n \in Nat
    PROVE  /\ SubHeadLen * k \in Nat
           /\ SubHeadLen * (k + 1) = SubHeadLen * k + SubHeadLen
           /\ k <= n => SubHeadLen * k <= SubHeadLen * n
<1>1. SubHeadLen \in Nat
  BY LengthsTyped
<1>2. SubHeadLen * k \in Nat /\ SubHeadLen * (k + 1) = SubHeadLen * k + SubHeadLen
  BY <1>1
<1>3. ASSUME k <= n
      PROVE  SubHeadLen * k <= SubHeadLen * n
  <2>1. n - k \in Nat /\ n = k + (n - k)
    BY <1>3
  <2>2. SubHeadLen * (n - k) \in Nat
    BY <1>1, <2>1
  <2>3. SubHeadLen * n = SubHeadLen * k + SubHeadLen * (n - k)
    BY <1>1, <2>1
  <2>. QED
    BY <1>2, <2>2, <2>3
<1>. QED
  BY <1>2, <1>3

\* The block, the central directory and the end record follow each other.
LEMMA HeadTyped ==
    ASSUME NEW f \in Files, HeadFits(f)
    PROVE  /\ First(f) \in Nat
           /\ TheHead(f).size \in Int /\ TheHead(f).count \in Int
           /\ TheHead(f).size >= HeadLen
           /\ TheHead(f).count <= MaxBlockCount
           /\ First(f) + TheHead(f).size = Record(f).cdOffset
           /\ Record(f).cdOffset \in Nat /\ Record(f).cdSize \in Nat
           /\ Record(f).cdOffset + Record(f).cdSize + EocdLen <= f.length
<1>1. Max(EndRecords(f)) \in EndRecords(f)
  BY RecordsOf DEF HeadFits
<1>2. /\ Max(EndRecords(f)) \in Nat
      /\ Record(f) \in EndRecord
      /\ Max(EndRecords(f)) + EocdLen + Record(f).comment = f.length
  BY <1>1, RecordsOf DEF Record
<1>3. Record(f).cdOffset \in Nat /\ Record(f).cdSize \in Nat /\ Record(f).comment \in Nat
  BY <1>2, LengthsTyped DEF EndRecord, Words
<1>4. TheHead(f).size \in Int /\ TheHead(f).count \in Int
  BY ListedIs DEF BlockHead, Ints
<1>5. /\ First(f) = Record(f).cdOffset - TheHead(f).size /\ First(f) >= 0
      /\ TheHead(f).size \in HeadLen..MaxBlockSize /\ TheHead(f).count <= MaxBlockCount
      /\ Record(f).cdOffset + Record(f).cdSize = Max(EndRecords(f))
  BY DEF First, HeadFits
<1>. QED
  BY <1>2, <1>3, <1>4, <1>5, LengthsTyped

\* What is known before a round: the next head is one of those listed, and
\* what was read is what the heads before it ask for.
LEMMA RoundKnown ==
    ASSUME SearchInv, phase = "blocks", todo > 0
    PROVE  LET k == Len(blocks)
           IN  /\ file \in Files /\ readFile \in BOOLEAN /\ HeadFits(file)
               /\ k \in Nat /\ k + 1 \in 1..Count(file)
               /\ DOMAIN blocks = 1..k
               /\ Listed(file)[k + 1] = SubHeadAt(file, start + SubHeadLen * k)
               /\ \A i \in 1..k : blocks[i].length = Listed(file)[i].length
                                  /\ blocks[i].type = Listed(file)[i].type
               /\ start = First(file) /\ start \in Nat
               /\ arrayLen = TheHead(file).size - HeadLen /\ arrayLen \in Nat
               /\ todo = TheHead(file).count - k
<1>. DEFINE k == Len(blocks)
<1>1. /\ file \in Files /\ readFile \in BOOLEAN /\ blocks \in Seq(Block)
      /\ HeadKnown /\ BlocksRead
  BY DEF SearchInv
<1>2. HeadFits(file) /\ start = First(file) /\ arrayLen = TheHead(file).size - HeadLen
      /\ todo = TheHead(file).count - k
  BY <1>1 DEF HeadKnown
<1>3. k \in Nat /\ DOMAIN blocks = 1..k
  BY <1>1
<1>4. start \in Nat /\ arrayLen \in Nat /\ TheHead(file).count \in Int
  BY <1>1, <1>2, HeadTyped, LengthsTyped
<1>5. k + 1 \in 1..Count(file)
  BY <1>2, <1>3, <1>4 DEF Count
<1>6. (k + 1) - 1 = k
  BY <1>3
<1>7. Listed(file)[k + 1] = SubHeadAt(file, start + SubHeadLen * k)
  BY <1>1, <1>2, <1>5, <1>6, ListedIs
<1>8. \A i \in 1..k : blocks[i].length = Listed(file)[i].length
                      /\ blocks[i].type = Listed(file)[i].type
  BY <1>1, <1>3 DEF BlocksRead
<1>. QED
  BY <1>1, <1>2, <1>3, <1>4, <1>5, <1>7, <1>8

\* What ReadSubBlock asks of a round.
RoundFits ==
    LET headAt == start + SubHeadLen * Len(blocks)
        sub    == SubHeadAt(file, headAt)
    IN  /\ Readable(SubHeadLen, headAt)
        /\ headAt + SubHeadLen <= start + arrayLen
        /\ start + arrayLen - sub.offset >= start
        /\ arrayLen - sub.length >= readLen + SubHeadLen
        /\ Readable(sub.length, start + sub.offset)
        /\ Classifies(sub.type)

\* A round that fails has found a file that is not of the format: the heads
\* and data up to this one are within the array.
LEMMA RoundDecides ==
    ASSUME SearchInv, phase = "blocks", todo > 0, WellFormed(file, readFile)
    PROVE  RoundFits
<1>. DEFINE k == Len(blocks)
           n == Count(file)
           sub == Listed(file)[k + 1]
           headAt == start + SubHeadLen * k
<1>1. /\ file \in Files /\ readFile \in BOOLEAN /\ HeadFits(file)
      /\ k \in Nat /\ k + 1 \in 1..n
      /\ DOMAIN blocks = 1..k
      /\ sub = SubHeadAt(file, headAt)
      /\ \A i \in 1..k : blocks[i].length = Listed(file)[i].length
                         /\ blocks[i].type = Listed(file)[i].type
      /\ start = First(file) /\ start \in Nat
      /\ arrayLen = TheHead(file).size - HeadLen /\ arrayLen \in Nat
  BY RoundKnown
<1>2. /\ n \in Nat /\ DOMAIN Listed(file) = 1..n /\ Len(Listed(file)) = n
      /\ \A i \in 1..n : Listed(file)[i] \in SubHead
  BY <1>1, ListedIs
<1>3. /\ HeadLen + SubHeadLen * n + DataLength(Listed(file)) = TheHead(file).size
      /\ \A i \in DOMAIN Listed(file) : SubFits(Listed(file)[i], file, readFile)
      /\ \A i, j \in SignBlobs(Listed(file)) : i = j
  BY <1>1, <1>2, WellFormedIs
<1>4. sub.length \in Nat /\ sub.offset \in Nat /\ \A i \in 1..n : Listed(file)[i].length \in Nat
  BY <1>1, <1>2 DEF SubHead, Words
<1>5. /\ DataLength(blocks) \in Nat /\ DataLength(Listed(file)) \in Nat
      /\ DataLength(blocks) + sub.length <= DataLength(Listed(file))
  <2>1. k \in 0..n /\ k < n
    BY <1>1, <1>2
  <2>2. \A i \in 1..k : blocks[i].length = Listed(file)[i].length
    BY <1>1
  <2>3. n \in Nat /\ DOMAIN Listed(file) = 1..n /\ DOMAIN blocks = 1..k
        /\ \A i \in 1..n : Listed(file)[i].length \in Nat
    BY <1>1, <1>2, <1>4
  <2>. HIDE DEF k, n
  <2>. QED
    BY <2>1, <2>2, <2>3, PrefixOfData
<1>6. /\ SubHeadLen * k \in Nat /\ SubHeadLen * n \in Nat
      /\ SubHeadLen * k + SubHeadLen <= SubHeadLen * n
  <2>1. k + 1 \in Nat /\ k + 1 <= n
    BY <1>1, <1>2
  <2>. HIDE DEF k, n
  <2>. QED
    BY <1>1, <1>2, <2>1, Multiples
<1>7. readLen = SubHeadLen * k + DataLength(blocks)
  BY DEF SearchInv
<1>8. SubFits(sub, file, readFile)
  BY <1>1, <1>2, <1>3
<1>9. /\ TheHead(file).size \in Int /\ file.length \in Nat
      /\ start + TheHead(file).size <= file.length
  <2>. HIDE DEF k, n, sub, headAt
  <2>1. file \in Files /\ HeadFits(file) /\ start = First(file)
    BY <1>1
  <2>2. file.length \in Nat
    BY <2>1, HapTyped
  <2>3. /\ TheHead(file).size \in Int /\ First(file) + TheHead(file).size = Record(file).cdOffset
        /\ Record(file).cdOffset \in Nat /\ Record(file).cdSize \in Nat
        /\ Record(file).cdOffset + Record(file).cdSize + EocdLen <= file.length
    BY <2>1, HeadTyped
  <2>4. Record(file).cdOffset <= file.length
    BY <2>2, <2>3, LengthsTyped
  <2>. QED
    BY <2>1, <2>2, <2>3, <2>4
<1>10. arrayLen = SubHeadLen * n + DataLength(Listed(file))
  BY <1>1, <1>3, <1>5, <1>6, <1>9, LengthsTyped
<1>11. Classifies(sub.type)
  <2>1. CASE sub.type # "sign"
    BY <1>8, <2>1 DEF SubFits, Classifies
  <2>2. CASE sub.type = "sign"
    <3>1. ASSUME NEW i \in DOMAIN blocks, blocks[i].type = "sign"
          PROVE  FALSE
      <4>1. i \in 1..n /\ k + 1 \in 1..n /\ i # k + 1
        BY <1>1, <1>2, <3>1
      <4>2. i \in SignBlobs(Listed(file)) /\ k + 1 \in SignBlobs(Listed(file))
        BY <1>1, <1>2, <2>2, <3>1, <4>1 DEF SignBlobs
      <4>. QED
        BY <1>3, <4>1, <4>2
    <3>. QED
      BY <2>2, <3>1 DEF Classifies
  <2>. QED
    BY <2>1, <2>2
<1>12. Readable(SubHeadLen, headAt) /\ headAt + SubHeadLen <= start + arrayLen
  <2>. DEFINE a == SubHeadLen * k
             b == SubHeadLen * n
  <2>1. a \in Nat /\ b \in Nat /\ a + SubHeadLen <= b /\ headAt = start + a
        /\ arrayLen = b + DataLength(Listed(file))
        /\ start \in Nat /\ arrayLen = TheHead(file).size - HeadLen
    BY <1>1, <1>6, <1>10
  <2>. HIDE DEF k, n, a, b, sub, headAt
  <2>2. headAt \in Nat /\ headAt + SubHeadLen <= start + arrayLen
    BY <1>5, <2>1, LengthsTyped
  <2>3. start + arrayLen <= file.length
    BY <1>9, <2>1, LengthsTyped
  <2>4. headAt + SubHeadLen <= file.length
    BY <1>9, <2>1, <2>2, <2>3, LengthsTyped
  <2>. QED
    BY <2>2, <2>4, LengthsTyped DEF Readable
<1>13. start + arrayLen - sub.offset >= start /\ Readable(sub.length, start + sub.offset)
  <2>. HIDE DEF sub
  <2>. QED
    BY <1>1, <1>4, <1>8 DEF SubFits, Readable
<1>14. arrayLen - sub.length >= readLen + SubHeadLen
  <2>. DEFINE a == SubHeadLen * k
             b == SubHeadLen * n
  <2>1. a \in Nat /\ b \in Nat /\ a + SubHeadLen <= b /\ readLen = a + DataLength(blocks)
        /\ arrayLen = b + DataLength(Listed(file))
    BY <1>6, <1>7, <1>10
  <2>. HIDE DEF k, n, a, b, sub
  <2>. QED
    BY <1>4, <1>5, <2>1, LengthsTyped
<1>. QED
  BY <1>1, <1>11, <1>12, <1>13, <1>14 DEF RoundFits

\* A round that goes on has read the next head, which fits.
LEMMA RoundReads ==
    ASSUME SearchInv, phase = "blocks", todo > 0, RoundFits,
           NEW sub, sub = SubHeadAt(file, start + SubHeadLen * Len(blocks))
    PROVE  /\ sub = Listed(file)[Len(blocks) + 1]
           /\ sub \in SubHead
           /\ SubFits(sub, file, readFile)
           /\ sub.type = "sign" => \A i \in DOMAIN blocks : blocks[i].type # "sign"
<1>1. /\ file \in Files /\ readFile \in BOOLEAN
      /\ Listed(file)[Len(blocks) + 1] = sub
      /\ start = First(file) /\ start \in Nat
      /\ arrayLen = TheHead(file).size - HeadLen /\ arrayLen \in Nat
  BY RoundKnown
<1>2. sub \in SubHead /\ sub.offset \in Nat /\ sub.length \in Nat
  BY <1>1, HapTyped DEF SubHead, Words
<1>3. /\ start + arrayLen - sub.offset >= start
      /\ Readable(sub.length, start + sub.offset)
      /\ Classifies(sub.type)
  BY DEF RoundFits
<1>4. sub.offset <= arrayLen
  BY <1>1, <1>2, <1>3
<1>5. SubFits(sub, file, readFile)
  BY <1>1, <1>3, <1>4 DEF SubFits, Readable, Classifies
<1>6. sub.type = "sign" => \A i \in DOMAIN blocks : blocks[i].type # "sign"
  BY <1>3 DEF Classifies, OptionalTypes
<1>. QED
  BY <1>1, <1>2, <1>5, <1>6

\* When no round is left, the blocks are the heads listed, and the file is of
\* the format if what was read fills the array.
LEMMA AllRead ==
    ASSUME SearchInv, phase \in {"blocks", "found"}, todo <= 0
    PROVE  /\ file \in Files /\ readFile \in BOOLEAN /\ HeadKnown
           /\ DOMAIN blocks = 1..Count(file)
           /\ \A i \in 1..Count(file) :
                 blocks[i] = [type |-> Listed(file)[i].type,
                              from |-> start + Listed(file)[i].offset,
                              length |-> Listed(file)[i].length]
           /\ WellFormed(file, readFile) <=> readLen = arrayLen
<1>. DEFINE k == Len(blocks)
           n == Count(file)
<1>1. /\ file \in Files /\ readFile \in BOOLEAN /\ blocks \in Seq(Block)
      /\ HeadKnown /\ BlocksRead
      /\ readLen = SubHeadLen * k + DataLength(blocks)
  BY DEF SearchInv
<1>2. k \in Nat /\ DOMAIN blocks = 1..k
  BY <1>1
<1>3. /\ HeadFits(file) /\ arrayLen = TheHead(file).size - HeadLen
      /\ todo = TheHead(file).count - k /\ (k > 0 => todo >= 0)
  BY <1>1 DEF HeadKnown
<1>4. TheHead(file).count \in Int /\ TheHead(file).size \in Int
  BY <1>1, <1>3, HeadTyped
<1>5. k = n
  BY <1>2, <1>3, <1>4 DEF Count
<1>6. /\ n \in Nat /\ DOMAIN Listed(file) = 1..n /\ Len(Listed(file)) = n
      /\ \A i \in 1..n : Listed(file)[i].length \in Nat
  BY <1>1, ListedIs DEF SubHead, Words
<1>7. \A i \in 1..n :
         /\ SubFits(Listed(file)[i], file, readFile)
         /\ blocks[i] = [type |-> Listed(file)[i].type,
                         from |-> start + Listed(file)[i].offset,
                         length |-> Listed(file)[i].length]
  BY <1>1, <1>2, <1>5 DEF BlocksRead
<1>8. DataLength(Listed(file)) = DataLength(blocks) /\ DataLength(blocks) \in Nat
  <2>. DEFINE t == Listed(file)
  <2>1. /\ n \in Nat /\ n \in 0..n
        /\ DOMAIN t = 1..n /\ \A i \in 1..n : t[i].length \in Nat
        /\ DOMAIN blocks = 1..n
        /\ \A i \in 1..n : blocks[i].length = t[i].length
    BY <1>2, <1>5, <1>6, <1>7
  <2>2. DataLength(t) = DataLength(blocks) /\ DataLength(blocks) \in Nat
    <3>. HIDE DEF k, n, t
    <3>. QED
      BY <2>1, PrefixOfData
  <2>. QED
    BY <2>2
<1>9. \A i, j \in SignBlobs(Listed(file)) : i = j
  <2>1. ASSUME NEW i \in SignBlobs(Listed(file)), NEW j \in SignBlobs(Listed(file))
        PROVE  i = j
    <3>1. i \in 1..n /\ j \in 1..n /\ Listed(file)[i].type = "sign"
          /\ Listed(file)[j].type = "sign"
      BY <1>6 DEF SignBlobs
    <3>2. blocks[i].type = Listed(file)[i].type /\ blocks[j].type = Listed(file)[j].type
      <4>1. ASSUME NEW m \in 1..n
            PROVE  blocks[m].type = Listed(file)[m].type
        <5>1. blocks[m] = [type |-> Listed(file)[m].type,
                           from |-> start + Listed(file)[m].offset,
                           length |-> Listed(file)[m].length]
          BY <1>7
        <5>. QED
          BY <5>1
      <4>. QED
        BY <3>1, <4>1
    <3>. QED
      BY <1>1, <1>2, <1>5, <3>1, <3>2, Zenon DEF BlocksRead
  <2>. QED
    BY <2>1
<1>10. WellFormed(file, readFile) <=>
          HeadLen + SubHeadLen * n + DataLength(blocks) = TheHead(file).size
  BY <1>1, <1>3, <1>6, <1>7, <1>8, <1>9, WellFormedIs
<1>11. SubHeadLen * n \in Nat
  BY <1>6, LengthsTyped
<1>12. WellFormed(file, readFile) <=> readLen = arrayLen
  <2>. DEFINE a == SubHeadLen * n
  <2>1. readLen = a + DataLength(blocks) /\ a \in Nat
    BY <1>1, <1>5, <1>11
  <2>2. WellFormed(file, readFile) <=>
           HeadLen + a + DataLength(blocks) = TheHead(file).size
    BY <1>10
  <2>. HIDE DEF a, k, n
  <2>. QED
    BY <1>3, <1>4, <1>8, <2>1, <2>2, LengthsTyped
<1>. QED
  BY <1>1, <1>2, <1>5, <1>7, <1>12

\* FindHapSigningBlock refuses files that are not of the format, and goes on
\* with the head that the format names.
LEMMA HeadStep == SearchInv /\ FindHapSigningBlock => SearchInv'
<1>. SUFFICES ASSUME SearchInv, FindHapSigningBlock PROVE SearchInv'
  OBVIOUS
<1>1. /\ file \in Files /\ readFile \in BOOLEAN /\ blocks = <<>> /\ readLen = 0
      /\ file' = file /\ readFile' = readFile /\ blocks' = <<>> /\ readLen' = 0
  BY DEF SearchInv, FindHapSigningBlock
<1>2. /\ phase' = IF HeadFits(file) THEN "blocks" ELSE "refused"
      /\ HeadFits(file) => /\ start' = First(file)
                           /\ arrayLen' = TheHead(file).size - HeadLen
                           /\ todo' = TheHead(file).count
  <2>. DEFINE o  == Eocd(file)
             cd == file.ends[o].cdOffset
             h  == HeadAt(file, cd - HeadLen)
  <2>1. EndRecords(file) # {} => o = Max(EndRecords(file))
    BY <1>1, HeadDecides
  <2>2. HeadFits(file) => /\ TheHead(file) = h
                          /\ First(file) = cd - h.size
    BY <2>1 DEF HeadFits, TheHead, First, Record
  <2>3. HeadFits(file) <=>
           /\ file.length >= EocdLen
           /\ o # None
           /\ CentralDirFits(file.ends[o], o)
           /\ cd >= HeadLen
           /\ CheckSignBlockHead(h)
           /\ cd - h.size >= 0
    BY <1>1, HeadDecides
  <2>4. /\ phase' = IF HeadFits(file) THEN "blocks" ELSE "refused"
        /\ start' = IF HeadFits(file) THEN cd - h.size ELSE 0
        /\ arrayLen' = IF HeadFits(file) THEN h.size - HeadLen ELSE 0
        /\ todo' = IF HeadFits(file) THEN h.count ELSE 0
    BY <2>3 DEF FindHapSigningBlock
  <2>. QED
    BY <2>2, <2>4
<1>3. CASE HeadFits(file)
  <2>1. phase' = "blocks" /\ start' = First(file) /\ todo' = TheHead(file).count
        /\ arrayLen' = TheHead(file).size - HeadLen
    BY <1>2, <1>3
  <2>2. DataLength(blocks') = 0 /\ SubHeadLen * Len(blocks') = 0
    <3>1. DOMAIN blocks' = 1..0 /\ Len(blocks') = 0
      BY <1>1
    <3>2. DataLength(blocks') = 0
      BY <3>1, PrefixOfData
    <3>. QED
      BY <3>1, <3>2, LengthsTyped
  <2>3. HeadKnown'
    <3>1. TheHead(file).count \in Int
      BY <1>1, <1>3, HeadTyped
    <3>. QED
      BY <1>1, <1>3, <2>1, <3>1 DEF HeadKnown
  <2>4. BlocksRead'
    BY <1>1 DEF BlocksRead
  <2>5. blocks' \in Seq(Block)
    BY <1>1
  <2>. QED
    BY <1>1, <2>1, <2>2, <2>3, <2>4, <2>5 DEF SearchInv
<1>4. CASE ~HeadFits(file)
  <2>1. phase' = "refused" /\ ~WellFormed(file', readFile')
    BY <1>1, <1>2, <1>4, WellFormedIs
  <2>2. blocks' \in Seq(Block)
    BY <1>1
  <2>. QED
    BY <1>1, <2>1, <2>2 DEF SearchInv
<1>. QED
  BY <1>3, <1>4

\* A round either reads one more of the heads listed or refuses a file that
\* is not of the format.
LEMMA RoundStep == SearchInv /\ ReadSubBlock => SearchInv'
<1>. SUFFICES ASSUME SearchInv, ReadSubBlock PROVE SearchInv'
  OBVIOUS
<1>. DEFINE k == Len(blocks)
           sub == SubHeadAt(file, start + SubHeadLen * k)
           read == [type |-> sub.type, from |-> start + sub.offset, length |-> sub.length]
<1>1. /\ phase = "blocks" /\ todo > 0 /\ todo' = todo - 1
      /\ file' = file /\ readFile' = readFile /\ start' = start /\ arrayLen' = arrayLen
      /\ phase' = IF RoundFits THEN "blocks" ELSE "refused"
      /\ RoundFits => /\ readLen' = readLen + SubHeadLen + sub.length
                      /\ blocks' = Append(blocks, read)
      /\ ~RoundFits => blocks' = blocks
  BY DEF ReadSubBlock, RoundFits
<1>2. /\ file \in Files /\ readFile \in BOOLEAN /\ blocks \in Seq(Block)
      /\ HeadKnown /\ BlocksRead
      /\ readLen = SubHeadLen * k + DataLength(blocks)
  BY <1>1 DEF SearchInv
<1>3. CASE ~RoundFits
  <2>1. ~WellFormed(file', readFile')
    BY <1>1, <1>3, RoundDecides
  <2>. QED
    BY <1>1, <1>2, <1>3, <2>1 DEF SearchInv
<1>4. CASE RoundFits
  <2>1. /\ k \in Nat /\ k + 1 \in 1..Count(file) /\ DOMAIN blocks = 1..k
        /\ start = First(file) /\ start \in Nat
        /\ todo = TheHead(file).count - k /\ HeadFits(file)
        /\ \A i \in 1..k : blocks[i].length = Listed(file)[i].length
    BY <1>1, RoundKnown
  <2>2. /\ sub = Listed(file)[k + 1] /\ sub \in SubHead /\ SubFits(sub, file, readFile)
        /\ sub.type = "sign" => \A i \in DOMAIN blocks : blocks[i].type # "sign"
    BY <1>1, <1>4, RoundReads
  <2>3. read \in Block
    <3>. HIDE DEF sub
    <3>1. /\ sub.type \in OptionalTypes \union {"sign"}
          /\ sub.offset \in Nat /\ sub.length \in Nat
      BY <2>2 DEF SubHead, SubFits, Words
    <3>. QED
      BY <2>1, <3>1 DEF Block
  <2>4. /\ blocks' \in Seq(Block) /\ Len(blocks') = k + 1 /\ DOMAIN blocks' = 1..(k + 1)
        /\ blocks'[k + 1] = read
        /\ \A i \in 1..k : blocks'[i] = blocks[i]
    <3>. HIDE DEF read
    <3>. QED
      BY <1>1, <1>2, <1>4, <2>1, <2>3
  <2>5. HeadKnown'
    <3>1. TheHead(file).count \in Int
      BY <1>2, <2>1, HeadTyped
    <3>2. todo' = TheHead(file).count - Len(blocks') /\ todo' >= 0
      BY <1>1, <2>1, <2>4, <3>1
    <3>. QED
      BY <1>1, <1>2, <2>4, <3>2 DEF HeadKnown
  <2>6. BlocksRead'
    <3>1. ASSUME NEW i \in 1..(k + 1)
          PROVE  /\ SubFits(Listed(file)[i], file, readFile)
                 /\ blocks'[i] = [type |-> Listed(file)[i].type,
                                  from |-> start + Listed(file)[i].offset,
                                  length |-> Listed(file)[i].length]
      <4>1. CASE i = k + 1
        BY <2>2, <2>4, <4>1
      <4>2. CASE i \in 1..k
        BY <1>2, <2>1, <2>4, <4>2 DEF BlocksRead
      <4>. QED
        BY <2>1, <4>1, <4>2
    <3>2. ASSUME NEW i \in 1..(k + 1), NEW j \in 1..(k + 1),
                 blocks'[i].type = "sign", blocks'[j].type = "sign"
          PROVE  i = j
      <4>1. CASE i \in 1..k /\ j \in 1..k
        BY <1>2, <2>1, <2>4, <3>2, <4>1 DEF BlocksRead
      <4>2. CASE i = k + 1 \/ j = k + 1
        <5>1. sub.type = "sign"
          BY <2>4, <3>2, <4>2
        <5>2. \A l \in 1..k : blocks'[l].type # "sign"
          BY <2>1, <2>2, <2>4, <5>1
        <5>. QED
          BY <2>1, <3>2, <4>2, <5>2
      <4>. QED
        BY <2>1, <4>1, <4>2
    <3>. QED
      BY <1>1, <2>4, <3>1, <3>2 DEF BlocksRead
  <2>7. readLen' = SubHeadLen * Len(blocks') + DataLength(blocks')
    <3>1. /\ DataLength(blocks) \in Nat
          /\ DataLength(blocks') = DataLength(blocks) + sub.length
      <4>1. \A i \in 1..(k + 1) : blocks'[i].length \in Nat
        <5>1. \A i \in 1..(k + 1) : blocks'[i] \in Block
          BY <2>4
        <5>. QED
          BY <5>1 DEF Block
      <4>2. \A i \in 1..k : blocks[i].length = blocks'[i].length
        BY <2>4
      <4>. DEFINE n == k + 1
      <4>3. n \in Nat /\ k \in 0..n /\ DOMAIN blocks' = 1..n /\ DOMAIN blocks = 1..k
            /\ \A i \in 1..n : blocks'[i].length \in Nat
        BY <2>1, <2>4, <4>1
      <4>4. n = k + 1 /\ blocks'[k + 1].length = sub.length
        BY <2>4
      <4>. HIDE DEF k, n, sub, read
      <4>5. /\ DataLength(blocks) \in Nat
            /\ n = k + 1 => DataLength(blocks') = DataLength(blocks) + blocks'[k + 1].length
        BY <4>2, <4>3, PrefixOfData
      <4>. QED
        BY <4>4, <4>5
    <3>2. SubHeadLen * (k + 1) = SubHeadLen * k + SubHeadLen /\ SubHeadLen * k \in Nat
      BY <2>1, Multiples
    <3>3. sub.length \in Nat
      BY <2>2 DEF SubHead, Words
    <3>. DEFINE a == SubHeadLen * k
    <3>4. readLen' = a + DataLength(blocks) + SubHeadLen + sub.length /\ a \in Nat
          /\ SubHeadLen * Len(blocks') = a + SubHeadLen
      BY <1>1, <1>2, <1>4, <2>4, <3>2
    <3>. HIDE DEF a, k, sub, read
    <3>. QED
      BY <3>1, <3>3, <3>4, LengthsTyped
  <2>. QED
    BY <1>1, <1>2, <1>4, <2>4, <2>5, <2>6, <2>7 DEF SearchInv
<1>. QED
  BY <1>3, <1>4

\* After the last round the file is of the format if the array is filled.
LEMMA EndStepOfSearch == SearchInv /\ EndOfBlocks => SearchInv'
<1>. SUFFICES ASSUME SearchInv, EndOfBlocks PROVE SearchInv'
  OBVIOUS
<1>1. /\ phase = "blocks" /\ todo <= 0
      /\ phase' = IF readLen = arrayLen THEN "found" ELSE "refused"
      /\ UNCHANGED <<file, readFile, start, arrayLen, todo, readLen, blocks>>
  BY DEF EndOfBlocks, FillsArray
<1>2. WellFormed(file, readFile) <=> readLen = arrayLen
  BY <1>1, AllRead
<1>3. HeadKnown /\ BlocksRead /\ (HeadKnown /\ BlocksRead => HeadKnown' /\ BlocksRead')
  BY <1>1 DEF SearchInv, HeadKnown, BlocksRead
<1>4. CASE readLen = arrayLen
  BY <1>1, <1>3, <1>4 DEF SearchInv
<1>5. CASE readLen # arrayLen
  BY <1>1, <1>2, <1>5 DEF SearchInv
<1>. QED
  BY <1>4, <1>5

\* The invariant of the search.
THEOREM SearchInvariance == SearchSpec => []SearchInv
<1>1. SearchInit => SearchInv
  BY DEF SearchInit, SearchInv
<1>2. SearchInv /\ [SearchNext]_searchVars => SearchInv'
  <2>. SUFFICES ASSUME SearchInv, [SearchNext]_searchVars PROVE SearchInv'
    OBVIOUS
  <2>1. CASE phase = "idle" /\ \E f \in Files, mode \in BOOLEAN : FindHapSignature(f, mode)
    BY <2>1 DEF FindHapSignature, SearchInv
  <2>2. CASE Return
    BY <2>2 DEF Return, SearchInv
  <2>3. CASE UNCHANGED searchVars
    BY <2>3 DEF searchVars, SearchInv, HeadKnown, BlocksRead
  <2>. QED
    BY <2>1, <2>2, <2>3, HeadStep, RoundStep, EndStepOfSearch DEF SearchNext
<1>. QED
  BY <1>1, <1>2, PTL DEF SearchSpec

\* FindHapSignature finds a signature exactly in the files of the format,
\* whatever the lengths in the file and in whichever of the two ways it is
\* read: the comparisons of running sums lose no file and let none through.
THEOREM AcceptsTheFormat == SearchSpec => []AcceptedIffFits
<1>1. SearchInv => AcceptedIffFits
  <2>. SUFFICES ASSUME SearchInv, phase \in {"found", "refused"}
               PROVE  phase = "found" <=> WellFormed(file, readFile)
    BY DEF AcceptedIffFits
  <2>1. CASE phase = "found"
    <3>1. todo <= 0 /\ readLen = arrayLen
      BY <2>1 DEF SearchInv
    <3>. QED
      BY <2>1, <3>1, AllRead
  <2>2. CASE phase = "refused"
    BY <2>2 DEF SearchInv
  <2>. QED
    BY <2>1, <2>2
<1>. QED
  BY <1>1, SearchInvariance, PTL

-----------------------------------------------------------------------------
(* The lite search.                                                        *)

\* What is left of a number in 32 bits, with and without a sign.
LEMMA Conversions ==
    ASSUME NEW n \in Nat, n \in Words
    PROVE  /\ ToWord(n) = n
           /\ n <= MaxInt => ToInt(n) = n
           /\ n > MaxInt => ToInt(n) \in Int /\ ToInt(n) < 0
<1>1. MaxInt \in Nat
  BY LengthsTyped
<1>2. ToWord(n) = n
  BY <1>1 DEF ToWord, Words
<1>. QED
  BY <1>1, <1>2 DEF ToInt, Words

\* A file with one end record: the two searches for it differ in what they
\* see, and not in what they find, as long as the length is a 32-bit number.
LEMMA LiteRecord ==
    ASSUME NEW f \in Files, f.length \in Words, Cardinality(EndRecords(f)) = 1
    PROVE  /\ EndRecords(f) = {Max(EndRecords(f))}
           /\ LiteEocd(f) # None => f.length <= MaxInt /\ LiteEocd(f) = Max(EndRecords(f))
           /\ /\ f.length > EocdLen /\ f.length <= MaxInt
              /\ Record(f).comment <= MaxShort
              => LiteEocd(f) = Max(EndRecords(f))
<1>1. f.length \in Nat
  BY HapTyped
<1>2. \A o \in EndRecords(f) :
         /\ o \in Nat /\ f.ends[o].comment \in Nat
         /\ o + EocdLen + f.ends[o].comment = f.length
  BY RecordsOf, LengthsTyped DEF EndRecord, Words
<1>3. IsFiniteSet(EndRecords(f))
  <2>1. EndRecords(f) \subseteq 0..f.length
    BY <1>1, <1>2, LengthsTyped
  <2>2. IsFiniteSet(0..f.length)
    BY FS_Interval, <1>1
  <2>. QED
    BY <2>1, <2>2, FS_Subset
<1>4. PICK o \in EndRecords(f) : EndRecords(f) = {o}
  BY <1>3, FS_Singleton
<1>5. Max(EndRecords(f)) = o
  BY <1>4, RecordsOf
<1>. DEFINE last == {e \in EndRecords(f) : f.ends[e].comment = 0}
           found == {e \in EndRecords(f) : f.ends[e].comment <= MaxShort}
<1>6. last # {} => f.length - EocdLen = o
  <2>1. last # {} => f.ends[o].comment = 0
    BY <1>4
  <2>. QED
    BY <1>1, <1>2, <1>4, <2>1, LengthsTyped
<1>7. found # {} => Min(found) = o
  <2>1. found # {} => found = {o} /\ found \subseteq Nat
    BY <1>2, <1>4
  <2>. HIDE DEF found
  <2>. QED
    BY <2>1, MinIs
<1>8. Record(f).comment <= MaxShort => found # {}
  BY <1>4, <1>5 DEF Record
<1>9. EocdLen \in Nat /\ MaxInt \in Nat
  BY LengthsTyped
<1>10. ASSUME f.length <= MaxInt
       PROVE  LiteEocd(f) = CASE f.length <= EocdLen -> None
                              [] f.length > EocdLen /\ last # {} -> f.length - EocdLen
                              [] OTHER -> IF found = {} THEN None ELSE Min(found)
  <2>1. ToInt(f.length) = f.length
    BY <1>1, <1>10, Conversions
  <2>2. EndRecordsIn(f, f.length) = EndRecords(f)
    BY DEF EndRecords
  <2>. QED
    BY <2>1, <2>2 DEF LiteEocd
<1>11. ASSUME f.length > MaxInt
       PROVE  LiteEocd(f) = None
  <2>1. ToInt(f.length) \in Int /\ ToInt(f.length) < 0
    BY <1>1, <1>11, Conversions
  <2>2. ToInt(f.length) <= EocdLen /\ ~(ToInt(f.length) > EocdLen)
    BY <1>9, <2>1
  <2>. QED
    BY <2>2 DEF LiteEocd
<1>12. /\ LiteEocd(f) # None => f.length <= MaxInt /\ LiteEocd(f) = o
       /\ /\ f.length > EocdLen /\ f.length <= MaxInt
          /\ Record(f).comment <= MaxShort
          => LiteEocd(f) = o
  <2>. HIDE DEF last, found
  <2>. SUFFICES ASSUME f.length <= MaxInt
               PROVE  /\ LiteEocd(f) # None => LiteEocd(f) = o
                      /\ f.length > EocdLen /\ Record(f).comment <= MaxShort
                             => LiteEocd(f) = o
    BY <1>1, <1>9, <1>11
  <2>1. CASE f.length <= EocdLen
    <3>1. LiteEocd(f) = None
      BY <1>1, <1>9, <1>10, <2>1
    <3>. QED
      BY <1>1, <1>9, <2>1, <3>1
  <2>2. CASE f.length > EocdLen /\ last # {}
    BY <1>1, <1>6, <1>9, <1>10, <2>2
  <2>3. CASE f.length > EocdLen /\ last = {}
    BY <1>1, <1>7, <1>8, <1>9, <1>10, <2>3
  <2>. QED
    BY <1>1, <1>9, <2>1, <2>2, <2>3
<1>. QED
  BY <1>4, <1>5, <1>12

\* The head that GetSignHead finds is the one of the format: what it keeps in
\* an int fits, or it finds none.
LEMMA LiteHeadIs ==
    ASSUME NEW f \in Files, f.length \in Words,
           HeadFits(f), Cardinality(EndRecords(f)) = 1,
           NEW head, head = [cd    |-> Record(f).cdOffset,
                             start |-> First(f),
                             count |-> TheHead(f).count]
    PROVE  /\ head # None
           /\ LiteHead(f) # None => f.length <= MaxInt /\ LiteHead(f) = head
           /\ /\ f.length <= MaxInt
              /\ Record(f).comment <= MaxShort /\ Record(f).cdSize > 0 /\ First(f) > 0
              /\ TheHead(f).version >= 0
              => LiteHead(f) = head
<1>. DEFINE o == Max(EndRecords(f))
<1>1. /\ First(f) \in Nat /\ TheHead(f).size \in Int /\ TheHead(f).count \in Int
      /\ TheHead(f).size >= HeadLen
      /\ First(f) + TheHead(f).size = Record(f).cdOffset
      /\ Record(f).cdOffset \in Nat /\ Record(f).cdSize \in Nat
      /\ Record(f).cdOffset + Record(f).cdSize + EocdLen <= f.length
  BY HeadTyped
<1>2. f.length \in Nat
  BY HapTyped
<1>3. head # None
  BY <1>1, NoneAssumption
<1>4. /\ o \in Nat /\ o # None
      /\ Record(f).cdOffset + Record(f).cdSize = o
      /\ TheHead(f).magic = MagicOf(TheHead(f).version)
      /\ TheHead(f).size <= MaxInt
  BY RecordsOf, NoneAssumption, LengthsTyped DEF HeadFits
<1>5. ASSUME f.length <= MaxInt
      PROVE  ToInt(Record(f).cdOffset) = Record(f).cdOffset
             /\ ToInt(TheHead(f).size) = TheHead(f).size
  <2>1. Record(f).cdOffset <= MaxInt /\ TheHead(f).size \in Nat
    BY <1>1, <1>2, <1>5, LengthsTyped
  <2>2. Record(f).cdOffset \in Words /\ TheHead(f).size \in Words
    BY <1>1, <1>4, <2>1, LengthsTyped DEF Words
  <2>. QED
    BY <1>1, <1>4, <2>1, <2>2, Conversions
<1>6. ASSUME LiteEocd(f) = o, f.length <= MaxInt
      PROVE  LiteHead(f) = IF /\ f.length >= HeadLen
                              /\ Record(f).cdOffset > 0 /\ Record(f).cdOffset < o
                              /\ Record(f).cdOffset >= HeadLen
                              /\ TheHead(f).magic = MagicOf(ToWord(TheHead(f).version))
                              /\ First(f) > 0 /\ TheHead(f).size > 0
                           THEN head ELSE None
  <2>1. /\ Record(f) = f.ends[o]
        /\ TheHead(f) = HeadAt(f, Record(f).cdOffset - HeadLen)
        /\ First(f) = Record(f).cdOffset - TheHead(f).size
    BY DEF Record, TheHead, First
  <2>. QED
    BY <1>4, <1>5, <1>6, <2>1, Zenon DEF LiteHead
<1>7. LiteHead(f) # None => LiteEocd(f) = o /\ f.length <= MaxInt
  <2>1. LiteHead(f) # None => LiteEocd(f) # None
    BY Zenon DEF LiteHead
  <2>. QED
    BY <2>1, LiteRecord
<1>8. ASSUME f.length <= MaxInt, Record(f).comment <= MaxShort, Record(f).cdSize > 0,
             First(f) > 0, TheHead(f).version >= 0
      PROVE  LiteHead(f) = head
  <2>1. f.length > EocdLen /\ f.length >= HeadLen
        /\ Record(f).cdOffset > 0 /\ Record(f).cdOffset >= HeadLen /\ TheHead(f).size > 0
    BY <1>1, <1>2, <1>8, LengthsTyped
  <2>2. LiteEocd(f) = o
    BY <1>8, <2>1, LiteRecord
  <2>3. Record(f).cdOffset < o
    BY <1>1, <1>4, <1>8
  <2>4. ToWord(TheHead(f).version) = TheHead(f).version
    <3>1. TheHead(f).version \in Nat /\ TheHead(f).version \in Words
      BY <1>8, ListedIs, LengthsTyped DEF BlockHead, Ints, Words
    <3>. QED
      BY <3>1, Conversions
  <2>. QED
    BY <1>4, <1>6, <1>8, <2>1, <2>2, <2>3, <2>4
<1>. QED
  BY <1>3, <1>6, <1>7, <1>8

\* What the search has found is the format, with the first head of a type.
LEMMA FoundIs ==
    ASSUME SearchInv, phase = "found", NEW type,
           NEW at, at = {i \in DOMAIN Listed(file) : Listed(file)[i].type = type}
    PROVE  /\ file \in Files /\ readFile \in BOOLEAN /\ HeadKnown
           /\ WellFormed(file, readFile)
           /\ DOMAIN blocks = 1..Count(file)
           /\ at = {} => BlockOf(type) = None /\ FirstOf(type, Listed(file)) = None
           /\ at # {} =>
                 LET m   == Min(at)
                     sub == Listed(file)[m]
                 IN  /\ m \in 1..Count(file) /\ sub \in SubHead /\ sub # None
                     /\ FirstOf(type, Listed(file)) = sub
                     /\ BlockOf(type) = Extent(First(file) + sub.offset, sub.length)
                     /\ blocks[m].from = First(file) + sub.offset
                     /\ blocks[m].length = sub.length
<1>1. todo <= 0 /\ readLen = arrayLen
  BY DEF SearchInv
<1>2. /\ file \in Files /\ readFile \in BOOLEAN /\ HeadKnown
      /\ DOMAIN blocks = 1..Count(file)
      /\ WellFormed(file, readFile)
      /\ \A i \in 1..Count(file) :
            blocks[i] = [type |-> Listed(file)[i].type,
                         from |-> start + Listed(file)[i].offset,
                         length |-> Listed(file)[i].length]
  BY <1>1, AllRead
<1>3. /\ DOMAIN Listed(file) = 1..Count(file) /\ Count(file) \in Nat
      /\ \A i \in 1..Count(file) : Listed(file)[i] \in SubHead
  BY <1>2, ListedIs
<1>4. start = First(file)
  BY <1>2 DEF HeadKnown
<1>5. \A i \in 1..Count(file) : /\ blocks[i].type = Listed(file)[i].type
                                /\ blocks[i].from = First(file) + Listed(file)[i].offset
                                /\ blocks[i].length = Listed(file)[i].length
  <2>. SUFFICES ASSUME NEW i \in 1..Count(file)
               PROVE  /\ blocks[i].type = Listed(file)[i].type
                      /\ blocks[i].from = First(file) + Listed(file)[i].offset
                      /\ blocks[i].length = Listed(file)[i].length
    OBVIOUS
  <2>1. blocks[i] = [type |-> Listed(file)[i].type,
                     from |-> start + Listed(file)[i].offset,
                     length |-> Listed(file)[i].length]
    BY <1>2
  <2>. QED
    BY <1>4, <2>1
<1>6. {i \in DOMAIN blocks : blocks[i].type = type} = at
  BY <1>2, <1>3, <1>5
<1>7. /\ FirstOf(type, blocks) = IF at = {} THEN None ELSE blocks[Min(at)]
      /\ FirstOf(type, Listed(file)) = IF at = {} THEN None ELSE Listed(file)[Min(at)]
  BY <1>6, Zenon DEF FirstOf
<1>8. ASSUME at # {}
      PROVE  Min(at) \in 1..Count(file)
  <2>1. at \subseteq Nat /\ at \subseteq 1..Count(file)
    BY <1>3
  <2>. QED
    BY <1>8, <2>1, MinIs
<1>9. ASSUME at # {}
      PROVE  blocks[Min(at)] # None /\ Listed(file)[Min(at)] # None
  <2>1. blocks \in Seq(Block)
    BY DEF SearchInv
  <2>2. blocks[Min(at)] \in Block /\ Listed(file)[Min(at)] \in SubHead
    BY <1>2, <1>3, <1>8, <1>9, <2>1
  <2>. QED
    BY <2>2, NoneAssumption
<1>10. at = {} => BlockOf(type) = None
  BY <1>7 DEF BlockOf
<1>11. at # {} => BlockOf(type) = Extent(blocks[Min(at)].from, blocks[Min(at)].length)
  BY <1>7, <1>9 DEF BlockOf
<1>. QED
  BY <1>2, <1>3, <1>5, <1>7, <1>8, <1>9, <1>10, <1>11

\* The data of one head is shorter than the block and begins in it, and the
\* block lies before the end record.
LEMMA OneOfMany ==
    ASSUME NEW f \in Files, NEW mode \in BOOLEAN, WellFormed(f, mode), NEW m \in 1..Count(f)
    PROVE  /\ Listed(f)[m].length \in 1..TheHead(f).size
           /\ Listed(f)[m].length + 1 < f.length
           /\ Listed(f)[m].offset \in Nat
           /\ First(f) + Listed(f)[m].offset <= f.length
<1>. DEFINE n == Count(f)
           t == Listed(f)
<1>1. /\ n \in Nat /\ DOMAIN t = 1..n /\ Len(t) = n
      /\ \A i \in 1..n : t[i].length \in Nat /\ t[i].offset \in Nat
  BY ListedIs DEF SubHead, Words
<1>2. /\ HeadFits(f)
      /\ HeadLen + SubHeadLen * n + DataLength(t) = TheHead(f).size
      /\ SubFits(t[m], f, mode)
  BY <1>1, WellFormedIs
<1>3. t[m].length \in Nat /\ t[m].length > 0
  BY <1>1, <1>2 DEF SubFits
<1>4. DataLength(t) \in Nat /\ t[m].length <= DataLength(t)
  <2>. DEFINE s == [i \in 1..(m - 1) |-> t[i]]
             k == m - 1
  <2>1. /\ n \in Nat /\ DOMAIN t = 1..n /\ \A i \in 1..n : t[i].length \in Nat
        /\ k \in 0..n /\ k < n /\ k + 1 = m /\ DOMAIN s = 1..k
        /\ \A i \in 1..k : s[i].length = t[i].length
    BY <1>1
  <2>. HIDE DEF n, t, s, k
  <2>2. /\ DataLength(s) \in Nat /\ DataLength(t) \in Nat
        /\ DataLength(s) + t[k + 1].length <= DataLength(t)
    BY <2>1, PrefixOfData
  <2>. QED
    BY <1>3, <2>1, <2>2
<1>5. SubHeadLen * n >= SubHeadLen /\ SubHeadLen * n \in Nat
  <2>1. 1 \in Nat /\ 1 <= n /\ SubHeadLen * 1 = SubHeadLen
    BY <1>1, LengthsTyped
  <2>. HIDE DEF n
  <2>. QED
    BY <1>1, <2>1, Multiples
<1>6. /\ First(f) \in Nat /\ TheHead(f).size \in Int
      /\ First(f) + TheHead(f).size = Record(f).cdOffset
      /\ Record(f).cdOffset \in Nat /\ Record(f).cdSize \in Nat
      /\ Record(f).cdOffset + Record(f).cdSize + EocdLen <= f.length
      /\ f.length \in Nat
  BY <1>2, HeadTyped, HapTyped
<1>. DEFINE b == SubHeadLen * n
           l == t[m].length
<1>7. /\ HeadLen + b + DataLength(t) = TheHead(f).size
      /\ b \in Nat /\ b >= SubHeadLen /\ l \in Nat /\ l > 0 /\ l <= DataLength(t)
  BY <1>2, <1>3, <1>4, <1>5
<1>8. l \in 1..TheHead(f).size /\ l + 1 < TheHead(f).size
  <2>. HIDE DEF n, t, b, l
  <2>. QED
    BY <1>4, <1>6, <1>7, LengthsTyped
<1>9. TheHead(f).size <= f.length
  <2>. HIDE DEF n, t, b, l
  <2>. QED
    BY <1>6, LengthsTyped
<1>10. l + 1 < f.length
  <2>. HIDE DEF n, t, b, l
  <2>. QED
    BY <1>6, <1>7, <1>8, <1>9
<1>11. First(f) + t[m].offset <= f.length
  <2>. DEFINE off == t[m].offset
  <2>1. off \in Nat /\ off <= TheHead(f).size - HeadLen
    BY <1>1, <1>2 DEF SubFits
  <2>2. First(f) + off <= f.length
    <3>. HIDE DEF n, t, off
    <3>. QED
      BY <1>6, <2>1, LengthsTyped
  <2>. QED
    BY <2>2
<1>. QED
  BY <1>1, <1>8, <1>10, <1>11

\* For a file with one end record the lite search never returns another block
\* than the standard one, as long as the length of the file is a 32-bit number,
\* and it returns the same when it can see the file.  What the two searches keep
\* in an int or a word, which checks of lengths each makes and in which order,
\* leads the lite one to no other data than the standard one.
THEOREM SearchesAgree == SearchSpec => []LiteAgrees
<1>1. SearchInv => LiteAgrees
  <2>. SUFFICES ASSUME SearchInv, phase = "found", NEW type \in {"sign", "profile"}
               PROVE  /\ /\ LiteBlock(file, type) # None
                         /\ file.length \in Words
                         /\ Cardinality(EndRecords(file)) = 1
                         => LiteBlock(file, type) = BlockOf(type)
                      /\ LiteSees => LiteBlock(file, type) = BlockOf(type)
    BY Zenon DEF LiteAgrees
  <2>. DEFINE head == [cd    |-> Record(file).cdOffset,
                      start |-> First(file),
                      count |-> TheHead(file).count]
             at == {i \in DOMAIN Listed(file) : Listed(file)[i].type = type}
             m == Min(at)
             sub == Listed(file)[m]
             here == Extent(First(file) + sub.offset, sub.length)
  <2>1. /\ file \in Files /\ readFile \in BOOLEAN /\ HeadKnown
        /\ WellFormed(file, readFile)
        /\ DOMAIN blocks = 1..Count(file)
        /\ at = {} => BlockOf(type) = None /\ FirstOf(type, Listed(file)) = None
        /\ at # {} => /\ m \in 1..Count(file) /\ sub \in SubHead /\ sub # None
                      /\ FirstOf(type, Listed(file)) = sub
                      /\ BlockOf(type) = here
                      /\ blocks[m].from = First(file) + sub.offset
                      /\ blocks[m].length = sub.length
    BY FoundIs
  <2>2. file.length \in Nat /\ (file.length <= MaxInt => file.length \in Words)
    BY <2>1, HapTyped, LengthsTyped DEF Words
  <2>. SUFFICES ASSUME Cardinality(EndRecords(file)) = 1, file.length \in Words
               PROVE  /\ LiteBlock(file, type) # None
                             => LiteBlock(file, type) = BlockOf(type)
                      /\ LiteSees => LiteBlock(file, type) = BlockOf(type)
    BY <2>2 DEF LiteSees
  <2>3. HeadFits(file) /\ start = First(file)
    BY <2>1 DEF HeadKnown
  <2>4. /\ First(file) \in Nat /\ TheHead(file).size \in Int
        /\ First(file) + TheHead(file).size = Record(file).cdOffset
        /\ ~(TheHead(file).count > MaxBlockNum)
    BY <2>1, <2>3, HeadTyped, LengthsTyped
  <2>5. /\ head # None
        /\ LiteHead(file) # None => file.length <= MaxInt /\ LiteHead(file) = head
        /\ /\ file.length <= MaxInt
           /\ Record(file).comment <= MaxShort /\ Record(file).cdSize > 0 /\ First(file) > 0
           /\ TheHead(file).version >= 0
           => LiteHead(file) = head
    BY <2>1, <2>3, LiteHeadIs
  <2>6. FindBlockHead(file, type, head) = FirstOf(type, Listed(file))
    BY <2>4 DEF FindBlockHead, Listed
  <2>7. LiteBlock(file, type) # None => LiteHead(file) # None
    BY Zenon DEF LiteBlock
  <2>8. CASE at = {}
    <3>1. LiteHead(file) = head => LiteBlock(file, type) = None
      BY <2>1, <2>6, <2>8, Zenon DEF LiteBlock
    <3>2. LiteBlock(file, type) = None
      BY <2>5, <2>7, <3>1
    <3>. QED
      BY <2>1, <2>8, <3>2
  <2>9. CASE at # {}
    <3>. DEFINE from == First(file) + sub.offset
    <3>1. /\ sub.length \in 1..TheHead(file).size /\ sub.length + 1 < file.length
          /\ sub.offset \in Nat /\ from <= file.length
      BY <2>1, <2>9, OneOfMany
    <3>2. ASSUME file.length <= MaxInt
          PROVE  ToWord(from) = from /\ ToWord(file.length) = file.length
      <4>1. from \in Nat /\ from \in Words
        BY <2>2, <2>4, <3>1, <3>2, LengthsTyped DEF Words
      <4>. QED
        BY <2>2, <4>1, Conversions
    <3>3. ASSUME LiteHead(file) = head, file.length <= MaxInt
          PROVE  LiteBlock(file, type) =
                   IF /\ sub.length \in 1..(Record(file).cdOffset - First(file))
                      /\ sub.length + 1 < file.length
                      /\ ToWord(from + sub.length) <= file.length
                      /\ from + sub.length <= file.length
                   THEN here ELSE None
      <4>1. FindBlockHead(file, type, head) = sub /\ sub # None
        BY <2>1, <2>6, <2>9
      <4>2. head.cd = Record(file).cdOffset /\ head.start = First(file)
        OBVIOUS
      <4>3. LiteBlock(file, type) =
              IF /\ sub.length \in 1..(head.cd - head.start)
                 /\ sub.length + 1 < ToWord(file.length)
                 /\ ToWord(ToWord(head.start + sub.offset) + sub.length) <= file.length
                 /\ ToWord(head.start + sub.offset) + sub.length <= file.length
              THEN Extent(ToWord(head.start + sub.offset), sub.length) ELSE None
        <5>. HIDE DEF head, sub
        <5>. QED
          BY <2>5, <3>3, <4>1, Zenon DEF LiteBlock
      <4>. HIDE DEF head, sub
      <4>. QED
        BY <3>2, <3>3, <4>2, <4>3
    <3>4. LiteBlock(file, type) # None => LiteBlock(file, type) = BlockOf(type)
      BY <2>1, <2>5, <2>7, <2>9, <3>3
    <3>5. ASSUME LiteSees
          PROVE  LiteBlock(file, type) = BlockOf(type)
      <4>1. Max(EndRecords(file)) \in EndRecords(file)
        BY <2>1, <2>3, RecordsOf DEF HeadFits
      <4>2. /\ file.length <= MaxInt
            /\ Record(file).comment <= MaxShort /\ Record(file).cdSize > 0 /\ First(file) > 0
            /\ TheHead(file).version >= 0
        BY <2>3, <3>5, <4>1 DEF LiteSees, Record, TheHead
      <4>3. LiteHead(file) = head
        BY <2>5, <4>2
      <4>4. Record(file).cdOffset - First(file) = TheHead(file).size
        BY <2>4
      <4>5. from + sub.length <= file.length
        BY <2>1, <2>9, <3>5 DEF LiteSees
      <4>6. ToWord(from + sub.length) = from + sub.length
        <5>1. from + sub.length \in Nat
          BY <2>4, <3>1
        <5>2. from + sub.length \in Words
          BY <2>2, <4>2, <4>5, <5>1, LengthsTyped DEF Words
        <5>. QED
          BY <5>1, <5>2, Conversions
      <4>. QED
        BY <2>1, <2>9, <3>1, <3>3, <4>2, <4>3, <4>4, <4>5, <4>6
    <3>. QED
      BY <3>4, <3>5
  <2>. QED
    BY <2>8, <2>9
<1>. QED
  BY <1>1, SearchInvariance, PTL

=============================================================================
