---------------------------- MODULE SigningBlock ----------------------------
(***************************************************************************)
(* Where the signing block of a package is and what is in it: the state    *)
(* machine follows HapSigningBlockUtils::FindHapSignature, the operators   *)
(* after it the search of the lite verifier in the same file.              *)
(*                                                                         *)
(* A file is its length and what stands at its offsets: end records, heads *)
(* of a signing block, heads of sub-blocks.  Elsewhere there is nothing    *)
(* that has the flag, the magic or the type of one.  The data of a         *)
(* sub-block is the range of the file that it is read from.                *)
(***************************************************************************)
EXTENDS Integers, Sequences, FiniteSets, FiniteSetsExt

CONSTANTS
    None,
    Files,
    EocdLen,        \* ZIP_EOCD_SEG_MIN_SIZE
    MaxComment,     \* USHRT_MAX
    HeadLen,        \* ZIP_HEAD_OF_SIGNING_BLOCK_LENGTH
    SubHeadLen,     \* sizeof(HapSubSignBlockHead)
    MaxBlockSize,   \* MAX_HAP_SIGN_BLOCK_SIZE
    MaxBlockCount,  \* MAX_BLOCK_COUNT
    NewMagic,       \* VERSION_FOR_NEW_MAGIC_NUM
    MaxShort,       \* SHRT_MAX
    MaxBlockNum,    \* MAX_BLOCK_NUM of the lite verifier
    MaxInt          \* INT32_MAX

VARIABLES
    file,           \* hapFile
    readFile,       \* readFile_: pread, where the default is mmap
    phase,          \* where the call is
    start,          \* hapSigningBlockOffset
    arrayLen,       \* blockArrayLen
    todo,           \* the sub-blocks not yet read
    readLen,        \* readLen
    blocks          \* hapSignatureBlock and optionBlocks, in the order of the heads

searchVars == <<file, readFile, phase, start, arrayLen, todo, readLen, blocks>>

OptionalTypes == {"profile", "rotation", "property", "resign", "codeResign"}

\* int32_t and uint32_t, and what is left of a number in each.
Ints  == (-MaxInt - 1)..MaxInt
Words == 0..(2 * MaxInt + 1)

ToWord(n) == n % (2 * MaxInt + 2)
ToInt(n) == IF ToWord(n) <= MaxInt THEN ToWord(n) ELSE ToWord(n) - (2 * MaxInt + 2)

\* The fields of the file, with the signs that the standard search reads them
\* with.
EndRecord == [comment: 0..MaxComment, cdOffset: Words, cdSize: Words]
BlockHead == [count: Ints, size: Int, magic: {"old", "new", "other"}, version: Ints]
SubHead   == [type: OptionalTypes \union {"sign", "other"}, length: Words, offset: Words]

\* A sub-block that was read, and the range of the file with its data.
Block == [type: OptionalTypes \union {"sign"}, from: Int, length: Nat]

IsHap(f) ==
    /\ f.length \in Nat
    /\ DOMAIN f.ends \subseteq Nat
    /\ \A o \in DOMAIN f.ends : f.ends[o] \in EndRecord
    /\ \A o \in DOMAIN f.heads : f.heads[o] \in BlockHead
    /\ \A o \in DOMAIN f.subs : f.subs[o] \in SubHead

ASSUME SigningBlockAssumption ==
    /\ EocdLen \in Nat \ {0} /\ HeadLen \in Nat \ {0} /\ SubHeadLen \in Nat \ {0}
    /\ MaxComment \in Nat /\ MaxShort \in Nat /\ MaxBlockSize \in Nat
    /\ MaxBlockCount \in Nat /\ MaxBlockNum \in Nat /\ MaxBlockCount <= MaxBlockNum
    /\ MaxInt \in Nat /\ MaxBlockSize <= MaxInt
    /\ \A f \in Files : IsHap(f)

\* None is no offset, no head and no block.
ASSUME NoneAssumption ==
    /\ None \notin Int
    /\ None \notin SubHead
    /\ None \notin Block
    /\ None \notin [cd: Int, start: Int, count: Int]

SearchInit ==
    /\ file = None
    /\ readFile = FALSE
    /\ phase = "idle"
    /\ start = 0
    /\ arrayLen = 0
    /\ todo = 0
    /\ readLen = 0
    /\ blocks = <<>>

-----------------------------------------------------------------------------
(* Reads.                                                                  *)

\* ReadFileFullyFromOffset into a buffer of length bytes.  A mapping must lie
\* inside the file; pread returns what there is, and the rest of the buffer
\* keeps its zeros.
Readable(length, offset) ==
    /\ length > 0 /\ offset >= 0
    /\ readFile \/ offset + length <= file.length

NoHead    == [count |-> 0, size |-> 0, magic |-> "other", version |-> 0]
NoSubHead == [type |-> "other", length |-> 0, offset |-> 0]

HeadAt(f, offset) ==
    IF offset \in DOMAIN f.heads THEN f.heads[offset] ELSE NoHead

SubHeadAt(f, offset) ==
    IF offset \in DOMAIN f.subs THEN f.subs[offset] ELSE NoSubHead

\* End records whose comment ends length bytes into the file, and those whose
\* comment ends with it.
EndRecordsIn(f, length) ==
    {o \in DOMAIN f.ends : o >= 0 /\ f.ends[o].comment = length - EocdLen - o}

EndRecords(f) == EndRecordsIn(f, f.length)

-----------------------------------------------------------------------------
FindHapSignature(f, mode) ==
    /\ phase = "idle"
    /\ phase' = "eocd"
    /\ file' = f
    /\ readFile' = mode
    /\ UNCHANGED <<start, arrayLen, todo, readLen, blocks>>

\* FindEocdInHap: without a comment first, then from the end of the file on.
Eocd(f) ==
    LET found == {o \in EndRecords(f) : f.length - EocdLen - o <= MaxComment}
    IN  IF found = {} THEN None ELSE Max(found)

\* GetCentralDirectoryOffset: the directory ends where the record begins.
CentralDirFits(e, o) == e.cdOffset <= o /\ e.cdOffset + e.cdSize = o

MagicOf(version) == IF version < NewMagic THEN "old" ELSE "new"

CheckSignBlockHead(h) ==
    /\ h.magic = MagicOf(h.version)
    /\ h.size \in HeadLen..MaxBlockSize
    /\ h.count <= MaxBlockCount

\* FindHapSigningBlock up to the loop over the sub-blocks.
FindHapSigningBlock ==
    LET o  == Eocd(file)
        cd == file.ends[o].cdOffset
        h  == HeadAt(file, cd - HeadLen)
        ok == /\ file.length >= EocdLen
              /\ o # None
              /\ CentralDirFits(file.ends[o], o)
              /\ cd >= HeadLen
              /\ CheckSignBlockHead(h)
              /\ cd - h.size >= 0
    IN  /\ phase = "eocd"
        /\ phase' = IF ok THEN "blocks" ELSE "refused"
        /\ start' = IF ok THEN cd - h.size ELSE 0
        /\ arrayLen' = IF ok THEN h.size - HeadLen ELSE 0
        /\ todo' = IF ok THEN h.count ELSE 0
        /\ UNCHANGED <<file, readFile, readLen, blocks>>

\* ClassifyHapSubSigningBlock
Classifies(type) ==
    \/ type = "sign" /\ \A i \in DOMAIN blocks : blocks[i].type # "sign"
    \/ type \in OptionalTypes

\* One round of FindHapSubSigningBlock.
ReadSubBlock ==
    LET headAt == start + SubHeadLen * Len(blocks)
        sub    == SubHeadAt(file, headAt)
        read   == readLen + SubHeadLen
        from   == start + sub.offset
        ok     == /\ Readable(SubHeadLen, headAt)
                  /\ headAt + SubHeadLen <= start + arrayLen
                  /\ start + arrayLen - sub.offset >= start
                  /\ arrayLen - sub.length >= read
                  /\ Readable(sub.length, from)
                  /\ Classifies(sub.type)
    IN  /\ phase = "blocks"
        /\ todo > 0
        /\ phase' = IF ok THEN "blocks" ELSE "refused"
        /\ todo' = todo - 1
        /\ readLen' = IF ok THEN read + sub.length ELSE readLen
        /\ blocks' = IF ok
                     THEN Append(blocks, [type |-> sub.type, from |-> from,
                                          length |-> sub.length])
                     ELSE blocks
        /\ UNCHANGED <<file, readFile, start, arrayLen>>

\* A mutant of FillsArray: bytes that no head asks for are passed over.
FitsArray == readLen <= arrayLen

\* Heads and data are as long as the array.
FillsArray == readLen = arrayLen

\* The loop is over.  A negative count has no rounds.
EndOfBlocks ==
    /\ phase = "blocks"
    /\ todo <= 0
    /\ phase' = IF FillsArray THEN "found" ELSE "refused"
    /\ UNCHANGED <<file, readFile, start, arrayLen, todo, readLen, blocks>>

\* The SignatureInfo goes with the call.
Return ==
    /\ phase \in {"found", "refused"}
    /\ phase' = "idle"
    /\ file' = None
    /\ start' = 0 /\ arrayLen' = 0 /\ todo' = 0 /\ readLen' = 0
    /\ blocks' = <<>>
    /\ UNCHANGED readFile

SearchNext ==
    \/ phase = "idle" /\ \E f \in Files, mode \in BOOLEAN : FindHapSignature(f, mode)
    \/ FindHapSigningBlock \/ ReadSubBlock \/ EndOfBlocks \/ Return

SearchSpec == SearchInit /\ [][SearchNext]_searchVars

-----------------------------------------------------------------------------
(* What is read.                                                           *)

FirstOf(type, heads) ==
    LET at == {i \in DOMAIN heads : heads[i].type = type}
    IN  IF at = {} THEN None ELSE heads[Min(at)]

Extent(from, length) == [from |-> from, length |-> length]

\* hapSignatureBlock, and what GetOptionalBlockIndex finds of a type.
BlockOf(type) ==
    LET b == FirstOf(type, blocks)
    IN  IF b = None THEN None ELSE Extent(b.from, b.length)

\* The heads that count of them stand for, from an offset of the file on.
SubHeads(f, from, count) ==
    [i \in 1..count |-> SubHeadAt(f, from + SubHeadLen * (i - 1))]

-----------------------------------------------------------------------------
(* The lite verifier, which keeps lengths and offsets in int32_t.          *)

\* GetEocd, in as much of the file as its length in an int says; a length below
\* zero cannot be mapped.  Without a comment first, then the longest comment.
\* HapGetShort makes the length of a long comment negative.
LiteEocd(f) ==
    LET length == ToInt(f.length)
        last   == {o \in EndRecordsIn(f, length) : f.ends[o].comment = 0}
        found  == {o \in EndRecordsIn(f, length) : f.ends[o].comment <= MaxShort}
    IN  CASE length <= EocdLen -> None
          [] length > EocdLen /\ last # {} -> length - EocdLen
          [] OTHER -> IF found = {} THEN None ELSE Min(found)

\* FindSignature and GetSignHead: where the central directory and the head
\* are.  The size of the directory is not looked at, and the version is read
\* without a sign.
LiteHead(f) ==
    LET o    == LiteEocd(f)
        cd   == ToInt(f.ends[o].cdOffset)
        h    == HeadAt(f, cd - HeadLen)
        size == ToInt(h.size)
    IN  IF /\ o # None /\ f.length >= HeadLen
           /\ cd > 0 /\ cd < o /\ cd >= HeadLen
           /\ h.magic = MagicOf(ToWord(h.version))
           /\ cd - size > 0 /\ size > 0
        THEN [cd |-> cd, start |-> cd - size, count |-> h.count]
        ELSE None

\* A mutant of FindBlockHead: the last head of the type.
FindLastHead(f, type, head) ==
    LET subs == SubHeads(f, head.start, head.count)
        at   == {i \in DOMAIN subs : subs[i].type = type}
    IN  IF head.count > MaxBlockNum \/ at = {} THEN None ELSE subs[Max(at)]

\* FindBlockHead
FindBlockHead(f, type, head) ==
    IF head.count > MaxBlockNum THEN None
    ELSE FirstOf(type, SubHeads(f, head.start, head.count))

\* GetSignBlockByType: where the data begins and ends is added up in 32 bits, and
\* the read has to find all of it.
LiteBlock(f, type) ==
    LET head == LiteHead(f)
        sub  == FindBlockHead(f, type, head)
        from == ToWord(head.start + sub.offset)
    IN  IF head = None THEN None
        ELSE IF /\ sub # None
                /\ sub.length \in 1..(head.cd - head.start)
                /\ sub.length + 1 < ToWord(f.length)
                /\ ToWord(from + sub.length) <= f.length
                /\ from + sub.length <= f.length
             THEN Extent(from, sub.length)
             ELSE None

-----------------------------------------------------------------------------
(* Properties.                                                             *)

\* The bytes that the heads ask for.
DataLength(subs) ==
    LET LengthOf(i) == subs[i].length IN MapThenSumSet(LengthOf, DOMAIN subs)

\* The format, of a file as a whole: the last end record closes the file and
\* the central directory, the head stands before the directory, and heads and
\* data together are as long as it says.
WellFormed(f, mode) ==
    /\ EndRecords(f) # {}
    /\ LET o     == Max(EndRecords(f))
           cd    == f.ends[o].cdOffset
           h     == HeadAt(f, cd - HeadLen)
           first == cd - h.size
           subs  == SubHeads(f, first, h.count)
       IN  /\ cd + f.ends[o].cdSize = o
           /\ h.magic = MagicOf(h.version)
           /\ h.count <= MaxBlockCount
           /\ h.size \in HeadLen..MaxBlockSize
           /\ first >= 0
           /\ HeadLen + SubHeadLen * Len(subs) + DataLength(subs) = h.size
           /\ \A i \in DOMAIN subs :
                 /\ subs[i].type \in OptionalTypes \union {"sign"}
                 /\ subs[i].length > 0
                 /\ subs[i].offset <= h.size - HeadLen
                 /\ mode \/ first + subs[i].offset + subs[i].length <= f.length
           /\ Cardinality({i \in DOMAIN subs : subs[i].type = "sign"}) <= 1

\* The rounds of FindHapSubSigningBlock, which compare running sums, accept
\* exactly the files of the format, the ones whose block array is empty or
\* whose count is negative included.
AcceptedIffFits ==
    phase \in {"found", "refused"} => (phase = "found" <=> WellFormed(file, readFile))

\* What the lite search needs of a file that the standard search accepts: a
\* length that fits an int, no second end record, a comment, a directory and a
\* version that it can see, contents before the block, and data that is there.
LiteSees ==
    /\ file.length <= MaxInt
    /\ Cardinality(EndRecords(file)) = 1
    /\ \A o \in EndRecords(file) :
          /\ file.ends[o].comment <= MaxShort
          /\ file.ends[o].cdSize > 0
          /\ HeadAt(file, file.ends[o].cdOffset - HeadLen).version >= 0
    /\ start > 0
    /\ \A i \in DOMAIN blocks : blocks[i].from + blocks[i].length <= file.length

\* Two verifiers read one package.  For a file with one end record whose length
\* is a 32-bit number the lite search never returns another block than the
\* standard one, and it returns the same whenever it can see the file.
LiteAgrees ==
    phase = "found" =>
        \A type \in {"sign", "profile"} :
            LET lite == LiteBlock(file, type)
            IN  /\ /\ lite # None
                   /\ file.length \in Words
                   /\ Cardinality(EndRecords(file)) = 1
                   => lite = BlockOf(type)
                /\ LiteSees => lite = BlockOf(type)

=============================================================================
