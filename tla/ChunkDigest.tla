---------------------------- MODULE ChunkDigest ----------------------------
(***************************************************************************)
(* The digest of a package: its contents, central directory and end record *)
(* are cut in chunks, the digest of every chunk goes to a slot of its own  *)
(* in one buffer, and the digest of that buffer is compared with the       *)
(* signed one.  A big package is cut among threads that fill the buffer    *)
(* together.  openHiTLS is tried first, two chunks at a time where two     *)
(* fit; OpenSSL computes everything again when it fails.                   *)
(*                                                                         *)
(* Sizes are in units of which CHUNK_SIZE make a chunk, and a digest is    *)
(* the piece of the package that it is the digest of.  One turn of a       *)
(* reading loop is one step: it touches nothing shared but its own slots.  *)
(***************************************************************************)
EXTENDS Integers

CONSTANTS
    CHUNK_SIZE, SMALL_FILE_SIZE,    \* in units
    ZIP_UPDATE_DIGEST_THREADS_NUM,
    MaxChunks,      \* (INT_MAX - prefix) / digest length
    Packages,       \* sizes: [contents, centralDir, eocd]
    MaxCalls,       \* bound: verifications of the package in a behaviour
    MaxFaults       \* bound: reads or library calls that go wrong

ASSUME ChunkAssumption ==
    /\ CHUNK_SIZE \in Nat \ {0} /\ SMALL_FILE_SIZE \in Nat
    /\ ZIP_UPDATE_DIGEST_THREADS_NUM \in Nat \ {0}
    /\ MaxChunks \in Nat /\ MaxCalls \in Nat /\ MaxFaults \in Nat
    /\ Packages \subseteq [contents : Nat, centralDir : Nat, eocd : Nat]

Threads == 0 .. ZIP_UPDATE_DIGEST_THREADS_NUM - 1
Main == ZIP_UPDATE_DIGEST_THREADS_NUM   \* the caller, when it reads itself
Readers == Threads \cup {Main}

VARIABLES
    size,       \* the package
    given,      \* facts of the package and of the process
    pc, goal, engine,   \* where the call is, what it was asked, its library
    eocd,       \* signInfo.hapEocd: its position, and whether it was patched
    buffer,     \* chunkDigest
    source,     \* which source the caller reads
    pos, offset,    \* of each reader: place in its source, slot to write next
    thr,        \* each thread: "none", "new", "reading", "ok" or "failed"
    verdict, out,   \* what the last call returned, and its chunk digest
    calls, faults,  \* spent of MaxCalls and MaxFaults
    faulty      \* history: something went wrong in this attempt

vars == <<size, given, pc, goal, engine, eocd, buffer, source, pos, offset, thr,
          verdict, out, calls, faults, faulty>>

package == <<size, given>>

\* parallel: const.appverify.hap_verify_parallel; pread: the file is read with
\* pread, always so in parallel; sha256: the digest algorithm of the signature;
\* signed: the signature is over this very package.
Facts == {"parallel", "pread", "sha256", "signed"}

Piece(s, start, len) == [of |-> s, start |-> start, len |-> len]
Unset == Piece("none", 0, 0)
Short == Piece("short", 0, 0)   \* the digest of fewer bytes than were asked for

Least(a, b) == IF a <= b THEN a ELSE b

Chunks(n) == (n + CHUNK_SIZE - 1) \div CHUNK_SIZE

Sources == <<"contents", "centralDir", "eocd">>
SourceSize(k) == size[Sources[k]]
ZipChunks == Chunks(size.contents)
ChunkCount == ZipChunks + Chunks(size.centralDir) + Chunks(size.eocd)
Slots == 0 .. ChunkCount - 1

Allowed == ChunkCount > 0 /\ ChunkCount <= MaxChunks

InParallel == "parallel" \in given /\ size.contents > SMALL_FILE_SIZE

-----------------------------------------------------------------------------
(* The share of a thread.                                                  *)

\* Chunks of a thread. The last thread that has any may have fewer.
ChunkNumToUpdate ==
    (ZipChunks + ZIP_UPDATE_DIGEST_THREADS_NUM - 1) \div ZIP_UPDATE_DIGEST_THREADS_NUM

FileBegin(i) == CHUNK_SIZE * (ChunkNumToUpdate * i)

\* A mutant of FileEnd: the thread reads on to the end of the contents.
FileEndOfContents(i) == size.contents

FileEnd(i) == Least(CHUNK_SIZE * (ChunkNumToUpdate * (i + 1)), size.contents)

Start(r) == IF r = Main THEN 0 ELSE FileBegin(r)
End(r) == IF r = Main THEN SourceSize(source) ELSE FileEnd(r)
SourceOf(r) == IF r = Main THEN Sources[source] ELSE "contents"
Remaining(r) == End(r) - (Start(r) + pos[r])

Reading(r) == IF r = Main THEN pc = "sources" ELSE thr[r] = "reading"

-----------------------------------------------------------------------------
Init ==
    /\ size \in Packages
    /\ given \in SUBSET Facts
    /\ "parallel" \in given => "pread" \in given
    /\ pc = "idle" /\ goal = "verify" /\ engine = "openssl"
    /\ eocd = [pos |-> 0, patched |-> FALSE]
    /\ buffer = [k \in {} |-> Unset]
    /\ source = 1
    /\ pos = [r \in Readers |-> 0]
    /\ offset = [r \in Readers |-> 0]
    /\ thr = [i \in Threads |-> "none"]
    /\ verdict = "none"
    /\ out = [k \in {} |-> Unset]
    /\ calls = 0 /\ faults = 0
    /\ faulty = FALSE

\* Verify asks VerifyHapIntegrityWithHitls, unless its switch is off, and
\* ComputeChunkDigest goes to OpenSSL at once.
Call(g, e) ==
    /\ pc = "idle"
    /\ calls < MaxCalls
    /\ g = "compute" => e = "openssl"
    /\ calls' = calls + 1
    /\ pc' = "prepare"
    /\ goal' = g
    /\ engine' = e
    /\ verdict' = "none"
    /\ UNCHANGED <<package, eocd, buffer, source, pos, offset, thr, out, faults, faulty>>

\* The library fits the signature: the openHiTLS path is for SHA-256 alone.
Suitable == engine = "hitls" => "sha256" \in given

\* A mutant of ResetSources: nobody moves the end record back to its start.
ResetNothing == eocd.pos

\* GetSumOfChunkDigestLen resets every source; only the end record is not new.
ResetSources == 0

Prepare ==
    /\ pc = "prepare"
    /\ eocd' = [pos |-> IF Suitable THEN ResetSources ELSE eocd.pos, patched |-> TRUE]
    /\ faulty' = FALSE
    /\ IF Suitable /\ Allowed
       THEN /\ buffer' = [k \in Slots |-> Unset]
            /\ source' = 1
            /\ pos' = [r \in Readers |-> 0]
            /\ offset' = [r \in Readers |-> 0]
            /\ pc' = IF InParallel THEN "threads" ELSE "sources"
            /\ thr' = [i \in Threads |-> IF InParallel THEN "new" ELSE "none"]
       ELSE /\ pc' = "failed"
            /\ UNCHANGED <<buffer, source, pos, offset, thr>>
    /\ UNCHANGED <<package, goal, engine, verdict, out, calls, faults>>

-----------------------------------------------------------------------------
(* Reading.                                                                *)

\* The lambda of ComputeDigestsForContentsZip starts: a thread without a share
\* has succeeded.
ThreadBegins(i) ==
    /\ thr[i] = "new"
    /\ IF FileEnd(i) <= FileBegin(i)
       THEN thr' = [thr EXCEPT ![i] = "ok"] /\ offset' = offset
       ELSE /\ thr' = [thr EXCEPT ![i] = "reading"]
            /\ offset' = [offset EXCEPT ![i] = ChunkNumToUpdate * i]
    /\ UNCHANGED <<package, pc, goal, engine, eocd, buffer, source, pos, verdict,
                   out, calls, faults, faulty>>

ChunkSize(r) == Least(Remaining(r), CHUNK_SIZE)

\* A mutant of UseDualBuffer: two chunks are read though the second one is
\* shorter.
DualWheneverMore(r) == engine = "hitls" /\ Remaining(r) > ChunkSize(r)

UseDualBuffer(r) == engine = "hitls" /\ Remaining(r) - ChunkSize(r) >= ChunkSize(r)

Width(r) == IF UseDualBuffer(r) THEN 2 ELSE 1

Advanced(r) == [pos EXCEPT ![r] = @ + Width(r) * ChunkSize(r)]

\* The bytes of the k-th chunk that r reads now. The end record is the one that
\* was signed only with its central directory offset patched.
Read(r, k) ==
    Piece(IF SourceOf(r) = "eocd" /\ ~eocd.patched THEN "rawEocd" ELSE SourceOf(r),
          Start(r) + pos[r] + k * ChunkSize(r), ChunkSize(r))

\* The slots of a turn.
Turned(r) == offset[r] .. offset[r] + Width(r) - 1

\* HapByteBuffer::PutData drops what does not fit.
Put(r, digests) ==
    buffer' = [k \in DOMAIN buffer |-> IF k \in Turned(r) THEN digests[k] ELSE buffer[k]]

Turn(r) ==
    /\ Reading(r)
    /\ Remaining(r) > 0
    /\ pos' = Advanced(r)
    /\ offset' = [offset EXCEPT ![r] = @ + Width(r)]
    /\ eocd' = IF SourceOf(r) = "eocd" THEN [eocd EXCEPT !.pos = pos'[r]] ELSE eocd
    /\ UNCHANGED <<package, pc, goal, engine, source, thr, verdict, out, calls>>

Whole(r) == Put(r, [k \in Turned(r) |-> Read(r, k - offset[r])])

ReadChunks(r) ==
    /\ Turn(r)
    /\ Whole(r)
    /\ UNCHANGED <<faults, faulty>>

Fault ==
    /\ faults < MaxFaults
    /\ faults' = faults + 1
    /\ faulty' = TRUE

\* A short pread of one chunk is not noticed; that of two chunks is, and the end
\* record is in memory.
ReadShort(r) ==
    /\ Turn(r)
    /\ SourceOf(r) # "eocd"
    /\ IF engine = "hitls" THEN ~UseDualBuffer(r) ELSE "pread" \in given
    /\ Put(r, [k \in Turned(r) |-> Short])
    /\ Fault

\* A read, an allocation or a call of the library fails in a thread.
ThreadFails(i) ==
    /\ thr[i] = "reading"
    /\ thr' = [thr EXCEPT ![i] = "failed"]
    /\ Fault
    /\ UNCHANGED <<package, pc, goal, engine, eocd, buffer, source, pos, offset,
                   verdict, out, calls>>

ThreadEnds(i) ==
    /\ thr[i] = "reading"
    /\ Remaining(i) <= 0
    /\ thr' = [thr EXCEPT ![i] = "ok"]
    /\ UNCHANGED <<package, pc, goal, engine, eocd, buffer, source, pos, offset,
                   verdict, out, calls, faults, faulty>>

\* A mutant of AllSucceeded: one thread that succeeds is enough.
SomeSucceeded == \E i \in Threads : thr[i] = "ok"

AllSucceeded == \A i \in Threads : thr[i] = "ok"

\* A mutant of Joined: only a thread that succeeds says that it is done.
JoinedIfSucceeded == \A i \in Threads : thr[i] = "ok"

Joined == \A i \in Threads : thr[i] \in {"ok", "failed"}

\* The caller has joined every thread, and goes on after the chunks of the
\* contents.
Join ==
    /\ pc = "threads"
    /\ Joined
    /\ thr' = [i \in Threads |-> "none"]
    /\ pc' = IF AllSucceeded THEN "sources" ELSE "failed"
    /\ source' = 2
    /\ offset' = [offset EXCEPT ![Main] = ZipChunks]
    /\ UNCHANGED <<package, goal, engine, eocd, buffer, pos, verdict, out, calls,
                   faults, faulty>>

\* The OpenSSL path reads a source from where it stands, the openHiTLS path
\* resets it first.
NextSource ==
    /\ pc = "sources"
    /\ Remaining(Main) <= 0
    /\ IF source < 3
       THEN /\ source' = source + 1
            /\ pos' = [pos EXCEPT ![Main] = IF source = 2 /\ engine = "openssl"
                                            THEN eocd.pos ELSE 0]
            /\ pc' = pc
            /\ eocd' = [eocd EXCEPT !.pos = IF source = 2 THEN pos'[Main] ELSE @]
       ELSE pc' = "final" /\ UNCHANGED <<source, pos, eocd>>
    /\ UNCHANGED <<package, goal, engine, buffer, offset, thr, verdict, out,
                   calls, faults, faulty>>

\* The caller's own reading, or the digest over the buffer, fails.
CallerFails ==
    /\ pc = "sources" \/ (pc = "final" /\ goal = "verify")
    /\ pc' = "failed"
    /\ Fault
    /\ UNCHANGED <<package, goal, engine, eocd, buffer, source, pos, offset, thr,
                   verdict, out, calls>>

-----------------------------------------------------------------------------
(* The verdict.                                                            *)

\* The chunk of slot k, counted over the three sources.
ChunkOf(s, n) == Piece(s, CHUNK_SIZE * n, Least(CHUNK_SIZE, size[s] - CHUNK_SIZE * n))

SlotChunk(k) ==
    LET dir == ZipChunks + Chunks(size.centralDir) IN
    IF k < ZipChunks THEN ChunkOf("contents", k)
    ELSE IF k < dir THEN ChunkOf("centralDir", k - ZipChunks)
    ELSE ChunkOf("eocd", k - dir)

\* What the developer signed: the digests of the chunks, in their order.
SignedDigest == [k \in Slots |-> SlotChunk(k)]

Accepts == goal = "compute" \/ ("signed" \in given /\ buffer = SignedDigest)

Succeed ==
    /\ pc = "final"
    /\ Accepts
    /\ pc' = "idle"
    /\ verdict' = "yes"
    /\ out' = buffer
    /\ UNCHANGED <<package, goal, engine, eocd, buffer, source, pos, offset, thr,
                   calls, faults, faulty>>

Mismatch ==
    /\ pc = "final"
    /\ ~Accepts
    /\ pc' = "failed"
    /\ UNCHANGED <<package, goal, engine, eocd, buffer, source, pos, offset, thr,
                   verdict, out, calls, faults, faulty>>

\* When openHiTLS fails, for whatever reason, OpenSSL is asked.
FallBack ==
    /\ pc = "failed"
    /\ engine = "hitls"
    /\ engine' = "openssl"
    /\ pc' = "prepare"
    /\ UNCHANGED <<package, goal, eocd, buffer, source, pos, offset, thr, verdict,
                   out, calls, faults, faulty>>

Refuse ==
    /\ pc = "failed"
    /\ engine = "openssl"
    /\ pc' = "idle"
    /\ verdict' = "no"
    /\ UNCHANGED <<package, goal, engine, eocd, buffer, source, pos, offset, thr,
                   out, calls, faults, faulty>>

CallerStep == Prepare \/ Join \/ NextSource \/ Succeed \/ Mismatch \/ FallBack \/ Refuse

ThreadStep(i) == ThreadBegins(i) \/ ThreadEnds(i) \/ ReadChunks(i)

Next ==
    \/ \E g \in {"verify", "compute"}, e \in {"hitls", "openssl"} : Call(g, e)
    \/ CallerStep \/ CallerFails
    \/ \E r \in Readers : ReadChunks(r) \/ ReadShort(r)
    \/ \E i \in Threads : ThreadBegins(i) \/ ThreadEnds(i) \/ ThreadFails(i)

\* Nothing in the call waits for anything but its own threads, which run.
Fairness ==
    /\ WF_vars(CallerStep \/ ReadChunks(Main))
    /\ \A i \in Threads : WF_vars(ThreadStep(i))

Spec == Init /\ [][Next]_vars /\ Fairness

-----------------------------------------------------------------------------
(* Properties.                                                             *)

Digests == {Unset, Short} \cup [of : {"contents", "centralDir", "eocd", "rawEocd"},
                                start : Nat, len : Nat]

TypeOK ==
    /\ size \in Packages /\ given \subseteq Facts
    /\ pc \in {"idle", "prepare", "threads", "sources", "final", "failed"}
    /\ goal \in {"verify", "compute"} /\ engine \in {"hitls", "openssl"}
    /\ eocd \in [pos : Nat, patched : BOOLEAN]
    /\ buffer \in [{} -> Digests] \cup [Slots -> Digests]
    /\ source \in 1 .. 3
    /\ pos \in [Readers -> Nat] /\ offset \in [Readers -> 0 .. ChunkCount]
    /\ thr \in [Threads -> {"none", "new", "reading", "ok", "failed"}]
    /\ verdict \in {"none", "yes", "no"}
    /\ out \in [{} -> Digests] \cup [Slots -> Digests]
    /\ calls \in 0 .. MaxCalls /\ faults \in 0 .. MaxFaults
    /\ faulty \in BOOLEAN

\* Whatever the interleaving of the threads and whichever library computes, no
\* slot ever holds the digest of another chunk than its own
\* (ComputeDigestsForContentsZip, ComputeDigestsForDataSource and their
\* openHiTLS twins).
SlotsHoldTheirChunk ==
    \A k \in DOMAIN buffer : buffer[k] \in {Unset, Short, SlotChunk(k)}

\* A chunk digest that is handed out, to be kept for the next start or to be
\* compared, has no slot that nobody filled (VerifyHapIntegrity,
\* ComputeChunkDigest).
HandedOutComplete ==
    verdict = "yes" => DOMAIN out = Slots /\ \A k \in Slots : out[k] # Unset

\* An attempt is lost only for a reason: something went wrong in it, the
\* signature is not over this package, the package is too large or the library
\* does not fit. In particular OpenSSL accepts what openHiTLS could not, from
\* the same sources.
RefusalExplained ==
    pc = "failed" =>
        \/ faulty
        \/ goal = "verify" /\ "signed" \notin given
        \/ ~Allowed
        \/ ~Suitable

\* Within an attempt no slot is written twice: the shares of the threads and the
\* rest of the caller do not overlap.
NoSlotTwice ==
    [][pc # "prepare" => \A k \in DOMAIN buffer :
            buffer[k] # Unset => buffer'[k] = buffer[k]]_vars

\* Every call returns: each thread comes to the end of its share, and the caller
\* to the end of its sources.
CallReturns == pc # "idle" ~> pc = "idle"
=============================================================================
