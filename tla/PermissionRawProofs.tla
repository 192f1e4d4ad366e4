------------------------- MODULE PermissionRawProofs ------------------------
(***************************************************************************)
(* The provision that a caller holds goes with the bootstrap data that it  *)
(* holds, for every set of packages and however many scenes run: a scene   *)
(* takes over what was read together with the profile, or leaves both as   *)
(* they are.  And what is read is what the package has under a name,       *)
(* whatever reads of its directory failed before.                          *)
(***************************************************************************)
EXTENDS PermissionRaw, SequenceTheorems, TLAPS

-----------------------------------------------------------------------------
\* Scene 1 only runs with a profile that the verification could parse, and an
\* unused ProvisionInfo is empty.
SceneInv ==
    /\ file \in Files \cup Updates
    /\ parses \in Nat
    /\ info.permissions \in Seq(STRING)
    /\ scene = "all" => (file.profile # None => file.profile.object)
    /\ parses = 0 => info = NoInfo
    /\ InfoFollowsBoot

-----------------------------------------------------------------------------
LEMMA SuffixOfConcat ==
    ASSUME NEW s \in Seq(STRING), NEW t \in Seq(STRING)
    PROVE  IsSuffix(t, s \o t)
<1>1. Len(s \o t) = Len(s) + Len(t) /\ Len(s) \in Nat /\ Len(t) \in Nat
  BY ConcatProperties, LenProperties
<1>2. CASE t = <<>>
  <2>1. Len(t) = 0
    BY <1>2
  <2>2. SubSeq(s \o t, Len(s \o t) + 1, Len(s \o t)) = <<>>
    BY <1>1, SubSeqEmpty
  <2> QED
    BY <1>1, <1>2, <2>1, <2>2 DEF IsSuffix
<1>3. CASE t # <<>>
  <2>1. Len(t) > 0
    BY <1>3, EmptySeq
  <2>2. SubSeq(s \o t, Len(s) + 1, Len(s) + Len(t)) = SubSeq(t, 1, Len(t))
    <3>1. /\ Len(s) + 1 \in Len(s) + 1 .. Len(s) + Len(t)
          /\ Len(s) + Len(t) \in Len(s) + 1 .. Len(s) + Len(t)
          /\ Len(s) + 1 - Len(s) = 1 /\ Len(s) + Len(t) - Len(s) = Len(t)
      BY <1>1, <2>1
    <3> QED
      BY <3>1, SubSeqOfConcat2
  <2>3. SubSeq(t, 1, Len(t)) = t
    BY SubSeqFull
  <2>4. Len(s \o t) - Len(t) + 1 = Len(s) + 1
    BY <1>1
  <2> QED
    BY <1>1, <2>2, <2>3, <2>4 DEF IsSuffix
<1> QED
  BY <1>2, <1>3

\* What a profile is parsed into says what the profile says.
LEMMA FromJsonFollows ==
    ASSUME NEW i, NEW p, i.permissions \in Seq(STRING), p.permissions \in Seq(STRING),
           NEW j, j = FromJson(i, p)
    PROVE  /\ j.appId = i.appId
           /\ j.permissions \in Seq(STRING)
           /\ IsSuffix(p.permissions, j.permissions)
           /\ \A t \in Tags : p.tag[t] # None => j.tag[t] = p.tag[t]
<1>1. i.permissions \o p.permissions \in Seq(STRING)
  BY ConcatProperties
<1>2. IsSuffix(p.permissions, i.permissions \o p.permissions)
  BY SuffixOfConcat
<1> QED
  BY <1>1, <1>2 DEF FromJson

LEMMA FromJsonOfNone ==
    ASSUME NEW p, p.permissions \in Seq(STRING), p.tag = [t \in Tags |-> p.tag[t]]
    PROVE  /\ FromJson(NoInfo, p).tag = p.tag
           /\ FromJson(NoInfo, p).permissions = p.permissions
<1>1. FromJson(NoInfo, p).permissions = <<>> \o p.permissions
  BY DEF FromJson, NoInfo
<1>2. FromJson(NoInfo, p).tag = [t \in Tags |-> IF p.tag[t] # None THEN p.tag[t] ELSE None]
  BY DEF FromJson, NoInfo
<1>3. [t \in Tags |-> IF p.tag[t] # None THEN p.tag[t] ELSE None] = [t \in Tags |-> p.tag[t]]
  OBVIOUS
<1>4. <<>> \o p.permissions = p.permissions
  BY ConcatEmptySeq
<1> QED
  BY <1>1, <1>2, <1>3, <1>4

LEMMA NoInfoType == NoInfo.permissions \in Seq(STRING) /\ NoInfo.appId = None
BY DEF NoInfo

\* The steps that leave both objects alone.
LEMMA SceneKept ==
    ASSUME SceneInv, UNCHANGED <<boot, info, parses>>, file' \in Files \cup Updates,
           scene' = "all" => (file'.profile # None => file'.profile.object)
    PROVE  SceneInv'
BY DEF SceneInv, InfoFollowsBoot

LEMMA EndAllKeeps ==
    ASSUME SceneInv, EndAll
    PROVE  SceneInv'
<1>1. /\ scene = "all" /\ scene' = None /\ file' = file /\ None # "all"
      /\ file \in Files \cup Updates
  BY PermissionRawAssumption DEF EndAll, Close, SceneInv
<1>2. CASE ~HasRaw
  BY <1>1, <1>2, SceneKept DEF EndAll
<1>3. CASE HasRaw
  <2> DEFINE p == file.profile
             j == FromJson(NoInfo, p)
  <2>1. /\ p # None /\ p.object /\ p.tag = [t \in Tags |-> p.tag[t]]
        /\ p.permissions \in Seq(STRING)
    BY <1>1, <1>3, PermissionRawAssumption DEF HasRaw, SceneInv
  <2>2. /\ boot' = Current /\ info' = [j EXCEPT !.appId = p] /\ parses' = 1
    BY <1>3 DEF EndAll
  <2>3. /\ j.permissions \in Seq(STRING)
        /\ IsSuffix(p.permissions, j.permissions)
        /\ \A t \in Tags : p.tag[t] # None => j.tag[t] = p.tag[t]
    BY <2>1, NoInfoType, FromJsonFollows
  <2>4. j.tag = p.tag /\ j.permissions = p.permissions
    BY <2>1, FromJsonOfNone
  <2>5. info' = [tag |-> j.tag, permissions |-> j.permissions, appId |-> p]
    BY <2>2 DEF FromJson
  <2> HIDE DEF j
  <2>6. boot'.profile = p
    BY <2>2 DEF Current
  <2>7. info'.permissions \in Seq(STRING)
    BY <2>3, <2>5
  <2>8. InfoFollowsBoot'
    BY <2>1, <2>3, <2>4, <2>5, <2>6 DEF InfoFollowsBoot
  <2> QED
    BY <1>1, <2>2, <2>7, <2>8 DEF SceneInv
<1> QED
  BY <1>2, <1>3

LEMMA EndFastKeeps ==
    ASSUME SceneInv, EndFast
    PROVE  SceneInv'
<1>1. /\ scene' = None /\ file' = file /\ None # "all" /\ file \in Files \cup Updates
      /\ parses \in Nat
  BY PermissionRawAssumption DEF EndFast, Close, SceneInv
<1>2. CASE ~KeepsCurrent
  BY <1>1, <1>2, SceneKept DEF EndFast, KeepsCurrent
<1>3. CASE KeepsCurrent
  <2> DEFINE p == file.profile
             j == FromJson(info, p)
  <2>1. /\ p # None /\ p.object /\ p.tag = [t \in Tags |-> p.tag[t]]
        /\ p.permissions \in Seq(STRING)
    BY <1>1, <1>3, PermissionRawAssumption DEF KeepsCurrent, Changed, HasRaw
  <2>2. /\ boot' = Current /\ info' = j /\ parses' = parses + 1
    BY <1>3 DEF EndFast, KeepsCurrent
  <2>3. /\ j.appId = info.appId
        /\ j.permissions \in Seq(STRING)
        /\ IsSuffix(p.permissions, j.permissions)
        /\ \A t \in Tags : p.tag[t] # None => j.tag[t] = p.tag[t]
    BY <2>1, FromJsonFollows DEF SceneInv
  <2>4. parses = 0 => j.tag = p.tag /\ j.permissions = p.permissions /\ j.appId = None
    BY <2>1, <2>3, FromJsonOfNone, NoInfoType DEF SceneInv
  <2> HIDE DEF j
  <2>5. boot'.profile = p
    BY <2>2 DEF Current
  <2>6. info'.permissions \in Seq(STRING)
    BY <2>2, <2>3
  <2>7. InfoFollowsBoot'
    BY <1>1, <2>1, <2>2, <2>3, <2>4, <2>5 DEF InfoFollowsBoot
  <2> QED
    BY <1>1, <2>2, <2>6, <2>7 DEF SceneInv
<1> QED
  BY <1>2, <1>3

LEMMA SceneNextKeeps ==
    ASSUME SceneInv, SceneNext
    PROVE  SceneInv'
<1>1. ASSUME NewInfo PROVE SceneInv'
  BY <1>1, NoInfoType DEF NewInfo, vars, SceneInv, InfoFollowsBoot
<1>2. ASSUME NEW f \in Updates, NewPackage(f) PROVE SceneInv'
  BY <1>2, SceneKept, PermissionRawAssumption DEF NewPackage, Replace, sceneVars
<1>3. ASSUME BeginAll PROVE SceneInv'
  BY <1>3, SceneKept DEF BeginAll, Begin, SceneInv
<1>4. ASSUME BeginFast PROVE SceneInv'
  BY <1>4, SceneKept DEF BeginFast, Begin, SceneInv
<1>5. ASSUME BeginEntries PROVE SceneInv'
  BY <1>5, SceneKept DEF BeginEntries, Begin, SceneInv
<1>6. ASSUME Call, UNCHANGED sceneVars PROVE SceneInv'
  <2>1. file' = file
    BY <1>6 DEF Call, ReadJson, ReadShareFiles, FindJson, ReadFound
  <2> QED
    BY <1>6, <2>1, SceneKept DEF sceneVars, SceneInv
<1>7. ASSUME EndUnsigned PROVE SceneInv'
  <2>1. /\ boot'.profile = None /\ file' = file /\ scene' = None /\ None # "all"
        /\ UNCHANGED <<info, parses>>
    BY <1>7, PermissionRawAssumption DEF EndUnsigned, Close, NoBoot
  <2> QED
    BY <2>1 DEF SceneInv, InfoFollowsBoot
<1>8. ASSUME EndEntries PROVE SceneInv'
  BY <1>8, SceneKept, PermissionRawAssumption DEF EndEntries, Close, SceneInv
<1> QED
  BY <1>1, <1>2, <1>3, <1>4, <1>5, <1>6, <1>7, <1>8, EndAllKeeps, EndFastKeeps DEF SceneNext

\* Whatever scenes run and fail, and whatever packages come, the provision that
\* is kept says what the profile that is kept says.
THEOREM ProvisionFollowsBootstrap == Spec => []InfoFollowsBoot
<1>1. SceneInit => SceneInv
  BY NoInfoType, PermissionRawAssumption DEF SceneInit, Init, SceneInv, InfoFollowsBoot, NoBoot
<1>2. SceneInv /\ [SceneNext]_<<vars, sceneVars>> => SceneInv'
  <2>1. CASE UNCHANGED <<vars, sceneVars>>
    BY <2>1 DEF vars, sceneVars, SceneInv, InfoFollowsBoot
  <2>2. CASE SceneNext
    BY <2>2, SceneNextKeeps
  <2> QED
    BY <2>1, <2>2
<1>3. SceneInv => InfoFollowsBoot
  BY DEF SceneInv
<1> QED
  BY <1>1, <1>2, <1>3, PTL DEF Spec

-----------------------------------------------------------------------------
(* The reader.                                                             *)

AllRead == [directory |-> TRUE, header |-> TRUE, data |-> TRUE]

\* The entry that a name has in a package.
LocatedIn(f, name) ==
    LET e == FirstNamed(name, Records(f))
    IN  IF f.end /\ f.inside /\ DirectoryParses(f) /\ e # None /\ e.header
        THEN e ELSE None

\* A reader that has parsed the directory has exactly its records: the attempts
\* that leave entries behind are those that meet a broken record, and they fail
\* however often they are made.
ReaderInv ==
    /\ parsed => /\ file.end /\ file.inside
                 /\ DirectoryParses(file)
                 /\ entries = Records(file)
    /\ ~parsed /\ DirectoryParses(file) => entries = <<>>

LEMMA RecordsType ==
    ASSUME NEW f, IsFile(f)
    PROVE  Records(f) \in Seq(EntryType)
<1>1. f.count \in Nat /\ f.dir \in Seq(EntryType) /\ Len(f.dir) \in Nat
  BY LenProperties DEF IsFile
<1> DEFINE S == {f.count, Len(f.dir)}
<1>2. \E x \in S : \A y \in S : x <= y
  BY <1>1
<1>3. Min(S) \in S /\ \A y \in S : Min(S) <= y
  BY <1>2 DEF Min
<1>4. Min(S) \in Nat /\ Min(S) <= Len(f.dir)
  BY <1>1, <1>3
<1> HIDE DEF S
<1>5. SubSeq(f.dir, 1, Min(S)) \in Seq(EntryType)
  <2>1. \A m \in 1..1+Len(f.dir), n \in 0..Len(f.dir) :
           SubSeq(f.dir, m, n) \in Seq(EntryType)
    BY <1>1, SubSeqProperties
  <2> QED
    BY <1>1, <1>4, <2>1
<1> QED
  BY <1>5 DEF Records, S

\* What the attempt to parse leaves.
LEMMA ParseKeeps ==
    ASSUME IsFile(file), ReaderInv, NEW r \in Reads, Parse(r), file' = file
    PROVE  ReaderInv'
<1>1. Records(file) \in Seq(EntryType)
  BY RecordsType
<1>2. /\ parsed' = EnsureParsed(r) /\ entries' = EntriesAfter(r)
      /\ ReachesDirectory(r) => file.end /\ file.inside
  BY DEF Parse, ReachesDirectory
<1>3. DirectoryParses(file)' <=> DirectoryParses(file)
  BY DEF DirectoryParses, Intact, Records
<1>4. Records(file)' = Records(file)
  BY DEF Records
<1>5. CASE parsed
  BY <1>2, <1>3, <1>4, <1>5 DEF ReaderInv, EnsureParsed, EntriesAfter
<1>6. CASE ~parsed /\ ReachesDirectory(r) /\ DirectoryParses(file)
  <2>1. entries' = <<>> \o Records(file)
    BY <1>2, <1>6 DEF ReaderInv, EntriesAfter, DirectoryParses
  <2>2. entries' = Records(file)
    BY <1>1, <2>1, ConcatEmptySeq
  <2> QED
    BY <1>2, <1>3, <1>4, <1>6, <2>2 DEF ReaderInv, EnsureParsed
<1>7. CASE ~parsed /\ ~(ReachesDirectory(r) /\ DirectoryParses(file))
  BY <1>2, <1>3, <1>7 DEF ReaderInv, EnsureParsed, EntriesAfter
<1> QED
  BY <1>5, <1>6, <1>7

\* Whatever failed before, the entry that a call finds is the one of the
\* package, and it finds it when every read works.
LEMMA GetEntryFinds ==
    ASSUME IsFile(file), ReaderInv, NEW r \in Reads, NEW name
    PROVE  /\ GetEntry(name, r) \in {None, LocatedIn(file, name)}
           /\ r = AllRead => GetEntry(name, r) = LocatedIn(file, name)
<1> DEFINE found0 == FirstNamed(name, Records(file))
           e == IF EnsureParsed(r) THEN FirstNamed(name, EntriesAfter(r)) ELSE None
<1>1. EnsureParsed(r) => /\ file.end /\ file.inside /\ DirectoryParses(file)
                         /\ EntriesAfter(r) = Records(file)
  <2>1. CASE parsed
    BY <2>1 DEF ReaderInv, EntriesAfter
  <2>2. CASE ~parsed /\ EnsureParsed(r)
    <3>1. ReachesDirectory(r) /\ DirectoryParses(file)
      BY <2>2 DEF EnsureParsed
    <3>2. EntriesAfter(r) = <<>> \o Records(file)
      BY <2>2, <3>1 DEF ReaderInv, EntriesAfter, DirectoryParses
    <3>3. EntriesAfter(r) = Records(file)
      BY <3>2, RecordsType, ConcatEmptySeq
    <3> QED
      BY <3>1, <3>3 DEF ReachesDirectory
  <2> QED
    BY <2>1, <2>2
<1>2. r = AllRead /\ file.end /\ file.inside /\ DirectoryParses(file) => EnsureParsed(r)
  BY DEF EnsureParsed, ReachesDirectory, AllRead
<1>3. GetEntry(name, r) = IF e # None /\ HasLocalHeader(e, r) THEN e ELSE None
  BY DEF GetEntry
<1>4. HasLocalHeader(e, r) => e.header
  BY DEF HasLocalHeader
<1>5. r = AllRead => (HasLocalHeader(e, r) <=> e.header)
  BY DEF HasLocalHeader, AllRead
<1>6. EnsureParsed(r) => e = found0
  BY <1>1
<1>7. ~EnsureParsed(r) => e = None
  OBVIOUS
<1>8. LocatedIn(file, name) =
        IF file.end /\ file.inside /\ DirectoryParses(file) /\ found0 # None /\ found0.header
        THEN found0 ELSE None
  BY DEF LocatedIn
<1> HIDE DEF e, found0
<1>9. GetEntry(name, r) \in {None, LocatedIn(file, name)}
  BY <1>1, <1>3, <1>4, <1>6, <1>7, <1>8
<1>10. ASSUME r = AllRead
       PROVE  GetEntry(name, r) = LocatedIn(file, name)
  <2>1. CASE EnsureParsed(r)
    BY <1>1, <1>3, <1>5, <1>6, <1>8, <1>10, <2>1
  <2>2. CASE ~EnsureParsed(r)
    BY <1>2, <1>3, <1>7, <1>8, <1>10, <2>2
  <2> QED
    BY <2>1, <2>2
<1> QED
  BY <1>9, <1>10

LEMMA StoredIsUnpacked ==
    ASSUME NEW f, NEW name
    PROVE  /\ LocatedIn(f, name) # None => Stored(f, name) = Unpacked(LocatedIn(f, name))
           /\ LocatedIn(f, name) = None => Stored(f, name) = None
BY DEF Stored, LocatedIn

LEMMA ReadEntryStored ==
    ASSUME IsFile(file), ReaderInv, NEW r \in Reads, NEW name
    PROVE  /\ ReadEntry(GetEntry(name, r), r) \in {None, Stored(file, name)}
           /\ r = AllRead => ReadEntry(GetEntry(name, r), r) = Stored(file, name)
<1>1. /\ GetEntry(name, r) \in {None, LocatedIn(file, name)}
      /\ r = AllRead => GetEntry(name, r) = LocatedIn(file, name)
  BY GetEntryFinds
<1>2. r = AllRead => r.data
  BY DEF AllRead
<1> QED
  BY <1>1, <1>2, StoredIsUnpacked DEF ReadEntry

-----------------------------------------------------------------------------
(* The callers of the reader.                                              *)

\* The JSON that has been read, and which of the two names it is that of.
JsonRead ==
    /\ raw.module # None
    /\ raw.module \in {Stored(file, Module), Stored(file, Config)}
    /\ ~lost /\ Stored(file, Module) # None => raw.module = Stored(file, Module)

SharesRead ==
    /\ raw.share # None => raw.share = Stored(file, ShareOf[raw.module])
    /\ ~lost /\ caller = "raw" /\ ShareOf[raw.module] # None
          => raw.share = Stored(file, ShareOf[raw.module])

ReadingJson ==
    /\ pc \in {"module", "config", "share"} => raw.share = None
    /\ pc = "config" /\ ~lost => Stored(file, Module) = None
    /\ pc = "share" => JsonRead
    /\ pc = "done" => JsonRead /\ SharesRead

\* The entry that GetPermissionJsonEntries starts with: the second name is
\* tried only when the first one is not there.
FoundIsFirst ==
    \/ found = LocatedIn(file, Module)
    \/ LocatedIn(file, Module) = None /\ found = LocatedIn(file, Config)

FindingEntries ==
    /\ pc = "config" /\ ~lost => LocatedIn(file, Module) = None
    /\ pc = "data" => found # None
    /\ pc = "data" /\ ~lost => FoundIsFirst

CallInv ==
    /\ ReaderInv
    /\ pc = "idle" => ~parsed /\ entries = <<>> /\ ~lost
    /\ raw = [module |-> raw.module, share |-> raw.share]
    /\ caller \in {"raw", "unsigned"} => ReadingJson
    /\ caller = "entries" => FindingEntries
    /\ ReadIsChecked

LEMMA ReadJsonKeeps ==
    ASSUME IsFile(file), CallInv, NEW r \in Reads, ReadJson(r)
    PROVE  CallInv'
<1> DEFINE content == ReadEntry(GetEntry(NameAt, r), r)
<1>1. /\ caller \in {"raw", "unsigned"} /\ pc \in {"module", "config"} /\ Parse(r)
      /\ raw' = [raw EXCEPT !.module = content]
      /\ pc' = CASE content # None -> IF caller = "raw" THEN "share" ELSE "done"
                 [] content = None /\ pc = "module" -> "config"
                 [] OTHER -> "failed"
      /\ file' = file /\ caller' = caller
  BY DEF ReadJson
<1>2. /\ content \in {None, Stored(file, NameAt)}
      /\ r = AllRead => content = Stored(file, NameAt)
  BY ReadEntryStored DEF CallInv
<1>3. ReaderInv'
  BY <1>1, ParseKeeps DEF CallInv
<1>4. ~lost' => ~lost /\ r = AllRead
  BY <1>1 DEF Parse, AllRead
<1>5. NameAt = IF pc = "module" THEN Module ELSE Config
  BY DEF NameAt
<1> HIDE DEF content
<1>6. raw' = [module |-> content, share |-> raw.share]
  BY <1>1 DEF CallInv
<1>7. /\ pc' \in {"share", "done", "config", "failed"}
      /\ pc' \in {"share", "done"} => content # None
      /\ pc' = "config" => content = None /\ pc = "module"
      /\ pc' = "done" => caller = "unsigned"
  BY <1>1
<1>9. Stored(file, Module)' = Stored(file, Module)
      /\ Stored(file, Config)' = Stored(file, Config)
  BY <1>1 DEF Stored, FirstNamed, Records, DirectoryParses, Intact, Unpacked
<1>10. ReadingJson
  BY <1>1 DEF CallInv
<1>11. raw'.module = content /\ raw'.share = None
  BY <1>1, <1>6, <1>10 DEF ReadingJson
<1>12. content # None => JsonRead'
  BY <1>1, <1>2, <1>4, <1>5, <1>9, <1>10, <1>11 DEF JsonRead, ReadingJson
<1>13. pc' = "done" => SharesRead'
  BY <1>1, <1>7, <1>11 DEF SharesRead
<1>14. ReadingJson'
  BY <1>2, <1>4, <1>5, <1>7, <1>9, <1>11, <1>12, <1>13 DEF ReadingJson
<1> QED
  BY <1>1, <1>3, <1>6, <1>7, <1>11, <1>14 DEF CallInv, ReadIsChecked

LEMMA ReadShareFilesKeeps ==
    ASSUME IsFile(file), CallInv, NEW r \in Reads, ReadShareFiles(r)
    PROVE  CallInv'
<1> DEFINE name == ShareOf[raw.module]
           content == ReadEntry(GetEntry(name, r), r)
<1>1. /\ caller = "raw" /\ pc = "share" /\ pc' = "done"
      /\ file' = file /\ caller' = caller
      /\ name = None => UNCHANGED <<parsed, entries, raw, lost>>
      /\ name # None => Parse(r) /\ raw' = [raw EXCEPT !.share = content]
  BY DEF ReadShareFiles
<1>2. /\ content \in {None, Stored(file, name)}
      /\ r = AllRead => content = Stored(file, name)
  BY ReadEntryStored DEF CallInv
<1>3. ReaderInv'
  <2>1. CASE name = None
    BY <1>1, <2>1 DEF CallInv, ReaderInv
  <2>2. CASE name # None
    BY <1>1, <2>2, ParseKeeps DEF CallInv
  <2> QED
    BY <2>1, <2>2
<1>4. name # None => (~lost' => ~lost /\ r = AllRead)
  BY <1>1 DEF Parse, AllRead
<1>5. raw.share = None /\ JsonRead
  BY <1>1 DEF CallInv, ReadingJson
<1> HIDE DEF content
<1>6. /\ name = None => raw' = raw /\ lost' = lost
      /\ name # None => raw' = [module |-> raw.module, share |-> content]
  BY <1>1 DEF CallInv
<1>7. /\ raw' = [module |-> raw'.module, share |-> raw'.share]
      /\ raw'.module = raw.module
      /\ raw'.share = IF name = None THEN None ELSE content
  BY <1>5, <1>6 DEF CallInv
<1>8. \A n : Stored(file, n) = Stored(file', n)
  BY <1>1
<1>9. JsonRead'
  BY <1>4, <1>5, <1>6, <1>7, <1>8 DEF JsonRead
<1>10. SharesRead'
  BY <1>1, <1>2, <1>4, <1>7, <1>8 DEF SharesRead
<1> QED
  BY <1>1, <1>3, <1>7, <1>9, <1>10 DEF CallInv, ReadingJson, ReadIsChecked

LEMMA FindJsonKeeps ==
    ASSUME IsFile(file), CallInv, NEW r \in Reads, FindJson(r)
    PROVE  CallInv'
<1> DEFINE e == GetEntry(NameAt, r)
<1>1. /\ caller = "entries" /\ pc \in {"module", "config"} /\ Parse(r)
      /\ found' = e
      /\ pc' = CASE e # None -> "data"
                 [] e = None /\ pc = "module" -> "config"
                 [] OTHER -> "failed"
      /\ file' = file /\ caller' = caller /\ raw' = raw
  BY DEF FindJson
<1>2. /\ e \in {None, LocatedIn(file, NameAt)}
      /\ r = AllRead => e = LocatedIn(file, NameAt)
  BY GetEntryFinds DEF CallInv
<1>3. ReaderInv'
  BY <1>1, ParseKeeps DEF CallInv
<1>4. ~lost' => ~lost /\ r = AllRead
  BY <1>1 DEF Parse, AllRead
<1>5. NameAt = IF pc = "module" THEN Module ELSE Config
  BY DEF NameAt
<1> HIDE DEF e
<1>6. /\ pc' \in {"data", "config", "failed"}
      /\ pc' = "data" => e # None
      /\ pc' = "config" => e = None /\ pc = "module"
  BY <1>1
<1>7. \A n : LocatedIn(file', n) = LocatedIn(file, n)
  BY <1>1
<1>8. FindingEntries
  BY <1>1 DEF CallInv
<1>9. FindingEntries'
  BY <1>1, <1>2, <1>4, <1>5, <1>6, <1>7, <1>8 DEF FindingEntries, FoundIsFirst
<1> QED
  BY <1>1, <1>3, <1>6, <1>9 DEF CallInv, ReadIsChecked

LEMMA ReadFoundKeeps ==
    ASSUME IsFile(file), CallInv, NEW r \in Reads, ReadFound(r)
    PROVE  CallInv'
<1> DEFINE content == ReadEntry(found, r)
           share   == IF content = None THEN None ELSE ShareOf[content]
           e       == GetEntry(share, r)
           ok      == IF share = None THEN raw.share = None ELSE e # None
<1>1. /\ caller = "entries" /\ pc = "data" /\ Parse(r)
      /\ IF content # None /\ ok
         THEN /\ pc' = "done"
              /\ listed' = IF share = None THEN <<found>> ELSE <<found, e>>
         ELSE pc' = "failed" /\ UNCHANGED listed
      /\ file' = file /\ caller' = caller /\ found' = found /\ raw' = raw
  BY DEF ReadFound, ReadsFound
<1>2. /\ e \in {None, LocatedIn(file, share)}
      /\ r = AllRead => e = LocatedIn(file, share)
  BY GetEntryFinds DEF CallInv
<1>3. ReaderInv'
  BY <1>1, ParseKeeps DEF CallInv
<1>4. ~lost' => ~lost /\ r = AllRead
  BY <1>1 DEF Parse, AllRead
<1>5. pc' \in {"done", "failed"}
  BY <1>1
<1>6. ASSUME pc' = "done", ~lost'
      PROVE  ReadIsChecked'
  <2>1. /\ content # None /\ ok /\ r = AllRead
        /\ listed' = IF share = None THEN <<found>> ELSE <<found, e>>
    BY <1>1, <1>4, <1>6
  <2>2. FoundIsFirst /\ found # None
    BY <1>1, <1>4, <1>6 DEF CallInv, FindingEntries
  <2>3. content = Unpacked(found)
    BY <2>1, <2>2 DEF ReadEntry, AllRead
  <2>4. StoredJson(file) = content
    <3>1. CASE found = LocatedIn(file, Module)
      <4>1. Stored(file, Module) = content
        BY <2>2, <2>3, <3>1, StoredIsUnpacked
      <4> QED
        BY <2>1, <4>1 DEF StoredJson
    <3>2. CASE LocatedIn(file, Module) = None /\ found = LocatedIn(file, Config)
      <4>1. Stored(file, Module) = None /\ Stored(file, Config) = content
        BY <2>2, <2>3, <3>2, StoredIsUnpacked
      <4> QED
        BY <4>1 DEF StoredJson
    <3> QED
      BY <2>2, <3>1, <3>2 DEF FoundIsFirst
  <2>5. share # None => e # None /\ Unpacked(e) = Stored(file, share)
    BY <1>2, <2>1, StoredIsUnpacked
  <2>6. share = ShareOf[content]
    BY <2>1
  <2> HIDE DEF share, e, content
  <2>7. listed'[1] = found /\ (share # None => Len(listed') = 2 /\ listed'[2] = e)
    BY <2>1
  <2>8. StoredJson(file') = content /\ \A n : Stored(file', n) = Stored(file, n)
    BY <1>1, <2>4
  <2> QED
    BY <2>1, <2>3, <2>5, <2>6, <2>7, <2>8 DEF ReadIsChecked
<1>7. ReadIsChecked'
  BY <1>6 DEF ReadIsChecked
<1> QED
  BY <1>1, <1>3, <1>5, <1>7 DEF CallInv, FindingEntries

LEMMA CallStutters ==
    ASSUME CallInv, UNCHANGED vars
    PROVE  CallInv'
<1>1. ReaderInv'
  BY DEF vars, CallInv, ReaderInv
<1>2. caller \in {"raw", "unsigned"} => ReadingJson'
  BY DEF vars, CallInv, ReadingJson, JsonRead, SharesRead
<1>3. caller = "entries" => FindingEntries'
  BY DEF vars, CallInv, FindingEntries, FoundIsFirst
<1>4. ReadIsChecked'
  BY DEF vars, CallInv, ReadIsChecked
<1> QED
  BY <1>1, <1>2, <1>3, <1>4 DEF vars, CallInv

LEMMA SceneNextKeepsCall ==
    ASSUME SceneInv, CallInv, SceneNext
    PROVE  CallInv'
<1>file. IsFile(file)
  BY ZipReaderAssumption, PermissionRawAssumption DEF SceneInv
<1>1. ASSUME UNCHANGED vars
      PROVE  CallInv'
  BY <1>1, CallStutters
<1>2. ASSUME NEW f, Replace(f)
      PROVE  CallInv'
  BY <1>2 DEF Replace, CallInv, ReaderInv, ReadingJson, FindingEntries, ReadIsChecked
<1>3. ASSUME NEW c, NEW json, Begin(c, json), json = [module |-> json.module, share |-> json.share],
             c \in {"raw", "unsigned"} => json.share = None
      PROVE  CallInv'
  <2>1. pc = "idle" /\ pc' = "module" /\ caller' = c /\ raw' = json
        /\ UNCHANGED <<file, parsed, entries, lost>>
    BY <1>3 DEF Begin
  <2>2. ~parsed' /\ entries' = <<>>
    BY <2>1 DEF CallInv
  <2>3. ReaderInv'
    BY <2>2 DEF ReaderInv
  <2>4. ReadingJson' <=> (raw'.share = None)
    BY <2>1 DEF ReadingJson
  <2> QED
    BY <1>3, <2>1, <2>3, <2>4 DEF CallInv, FindingEntries, ReadIsChecked
<1>4. ASSUME Close
      PROVE  CallInv'
  BY <1>4 DEF Close, NoRaw, CallInv, ReaderInv, ReadingJson, FindingEntries, ReadIsChecked
<1>5. CASE NewInfo
  BY <1>1, <1>5 DEF NewInfo
<1>6. CASE \E f \in Updates : NewPackage(f)
  BY <1>2, <1>6 DEF NewPackage
<1>7. CASE BeginAll
  <2>1. \E c : Begin(c, NoRaw)
    BY <1>7 DEF BeginAll
  <2> QED
    BY <1>3, <2>1 DEF NoRaw
<1>8. CASE BeginFast
  BY <1>3, <1>8 DEF BeginFast, NoRaw
<1>9. CASE BeginEntries
  BY <1>3, <1>9 DEF BeginEntries
<1>10. CASE Call
  BY <1>file, <1>10, ReadJsonKeeps, ReadShareFilesKeeps, FindJsonKeeps, ReadFoundKeeps DEF Call
<1>11. CASE EndUnsigned \/ EndAll \/ EndFast \/ EndEntries
  BY <1>4, <1>11 DEF EndUnsigned, EndAll, EndFast, EndEntries
<1> QED
  BY <1>5, <1>6, <1>7, <1>8, <1>9, <1>10, <1>11 DEF SceneNext

\* Both invariants of the reader, through every scene and every package.
LEMMA CallsKept == Spec => [](SceneInv /\ CallInv)
<1>1. SceneInit => SceneInv
  BY NoInfoType, PermissionRawAssumption DEF SceneInit, Init, SceneInv, InfoFollowsBoot, NoBoot
<1>2. SceneInit => CallInv
  BY DEF SceneInit, Init, NoRaw, CallInv, ReaderInv, ReadingJson, FindingEntries, ReadIsChecked
<1>3. SceneInv /\ CallInv /\ [SceneNext]_<<vars, sceneVars>> => (SceneInv /\ CallInv)'
  <2>1. CASE UNCHANGED <<vars, sceneVars>>
    BY <2>1, CallStutters DEF vars, sceneVars, SceneInv, InfoFollowsBoot
  <2>2. CASE SceneNext
    BY <2>2, SceneNextKeeps, SceneNextKeepsCall
  <2> QED
    BY <2>1, <2>2
<1> QED
  BY <1>1, <1>2, <1>3, PTL DEF Spec

\* The JSON that a scene goes on with is what the package has under one of the
\* two names, however many attempts to parse its directory failed before, and
\* the module's with the share files that it names when every read works
\* (HapZipReader, ReadPermissionRaw).
THEOREM JsonIsThePackages == Spec => []FirstEntryWins
<1>1. CallInv => FirstEntryWins
  BY DEF CallInv, ReadingJson, JsonRead, SharesRead, FirstEntryWins
<1> QED
  BY <1>1, CallsKept, PTL

\* The entries whose chunks are compared with the cached digests are those that
\* ReadPermissionRaw takes the JSON from, when every read works
\* (GetPermissionJsonEntries).
THEOREM ComparedEntriesAreRead == Spec => []ReadIsChecked
<1>1. CallInv => ReadIsChecked
  BY DEF CallInv
<1> QED
  BY <1>1, CallsKept, PTL
=============================================================================
