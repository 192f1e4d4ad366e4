----------------------------- MODULE ZipReader -----------------------------
(***************************************************************************)
(* HapZipReader and its three callers: ReadPermissionRaw takes the JSON of *)
(* a package, scene 1 the JSON of an unsigned one, and                     *)
(* GetPermissionJsonEntries the entries whose chunks are compared with the *)
(* cached digests.  Every caller has a reader of its own, which parses the *)
(* central directory when the first entry is asked for.  Any read of the   *)
(* file may fail, and the next one may work again.                         *)
(*                                                                         *)
(* A file is whether it has an end record, whether its directory lies in   *)
(* it, the number of entries and the entries; an entry is its name,        *)
(* whether its record in the directory and its local header are intact,    *)
(* the method, and the contents that are stored or packed.                 *)
(***************************************************************************)
EXTENDS Integers, Sequences, FiniteSets, FiniteSetsExt

CONSTANTS
    None,
    Files,
    Module,     \* MODULE_JSON
    Config,     \* CONFIG_JSON
    Contents,   \* what an entry unpacks to
    ShareOf     \* GetShareFilesEntryName: the entry a JSON names, or None

EntryType == [name : STRING, record : BOOLEAN, header : BOOLEAN,
              method : STRING, size : BOOLEAN, data : Contents]

\* The number of entries is what the end record says, not the length of dir.
IsFile(f) == f.count \in Nat /\ f.dir \in Seq(EntryType)

ASSUME ZipReaderAssumption ==
    /\ Module # Config
    /\ None \notin Contents
    /\ \A f \in Files : IsFile(f)

VARIABLES
    file,       \* the package
    caller,     \* who made the reader
    pc,         \* the entry that is asked for next
    parsed,     \* parsed_
    entries,    \* entries_
    found,      \* moduleEntry
    listed,     \* the entries to be compared, by GetPermissionJsonEntries
    raw,        \* moduleRaw and shareFilesRaw
    lost        \* a read has failed that the file does not explain

vars == <<file, caller, pc, parsed, entries, found, listed, raw, lost>>

NoRaw == [module |-> None, share |-> None]

Init ==
    /\ file \in Files
    /\ caller = None
    /\ pc = "idle"
    /\ parsed = FALSE
    /\ entries = <<>>
    /\ found = None
    /\ listed = <<>>
    /\ raw = NoRaw
    /\ lost = FALSE

-----------------------------------------------------------------------------
(* The reader.                                                             *)

\* Which reads work in one call.
Reads == [directory : BOOLEAN, header : BOOLEAN, data : BOOLEAN]

\* The records of the loop of ReadCentralDirectory: it ends with the
\* directory, whatever the number of entries.
Records(f) == SubSeq(f.dir, 1, Min({f.count, Len(f.dir)}))

\* Their longest prefix without a broken record.
Intact(f) ==
    LET r      == Records(f)
        broken == {i \in DOMAIN r : ~r[i].record}
    IN  IF broken = {} THEN r ELSE SubSeq(r, 1, Min(broken) - 1)

\* ReadCentralDirectory
DirectoryParses(f) == Intact(f) = Records(f)

\* Whether EnsureParsed comes to read the records.
ReachesDirectory(r) == r.directory /\ file.end /\ file.inside

\* A mutant of EnsureParsed: it is done whether the records are intact or not.
ParsedOnce(r) == parsed \/ ReachesDirectory(r)

\* EnsureParsed
EnsureParsed(r) == parsed \/ (ReachesDirectory(r) /\ DirectoryParses(file))

\* A failed attempt leaves the entries it has read.
EntriesAfter(r) ==
    IF ~parsed /\ ReachesDirectory(r) THEN entries \o Intact(file) ELSE entries

\* The first entry of a name.
FirstNamed(name, list) ==
    LET at == {i \in DOMAIN list : list[i].name = name}
    IN  IF at = {} THEN None ELSE list[Min(at)]

\* FillDataOffset
HasLocalHeader(e, r) == r.header /\ e.header

\* GetEntry
GetEntry(name, r) ==
    LET e == IF EnsureParsed(r) THEN FirstNamed(name, EntriesAfter(r)) ELSE None
    IN  IF e # None /\ HasLocalHeader(e, r) THEN e ELSE None

\* What the data unpacks to.  The length that the directory claims is
\* compared for packed data only.
Unpacked(e) ==
    IF e.method = "store" \/ (e.method = "deflate" /\ e.size) THEN e.data ELSE None

\* ReadEntry of an entry.
ReadEntry(e, r) == IF e # None /\ r.data THEN Unpacked(e) ELSE None

\* What every call leaves in the reader.
Parse(r) ==
    /\ parsed' = EnsureParsed(r)
    /\ entries' = EntriesAfter(r)
    /\ lost' = (lost \/ r # [directory |-> TRUE, header |-> TRUE, data |-> TRUE])

-----------------------------------------------------------------------------
(* The callers.                                                            *)

\* Another package is put in the place of this one, between two calls.
Replace(f) ==
    /\ pc = "idle"
    /\ file' = f
    /\ UNCHANGED <<caller, pc, parsed, entries, found, listed, raw, lost>>

\* The caller makes a reader and goes on with the JSON it has.
Begin(c, json) ==
    /\ pc = "idle"
    /\ caller' = c
    /\ pc' = "module"
    /\ raw' = json
    /\ UNCHANGED <<file, parsed, entries, found, listed, lost>>

Ended == pc \in {"done", "failed"}

\* The reader goes with the call.
Close ==
    /\ Ended
    /\ caller' = None
    /\ pc' = "idle"
    /\ parsed' = FALSE
    /\ entries' = <<>>
    /\ found' = None
    /\ listed' = <<>>
    /\ raw' = NoRaw
    /\ lost' = FALSE
    /\ UNCHANGED file

NameAt == IF pc = "module" THEN Module ELSE Config

\* ReadEntry(MODULE_JSON) and, whatever made it fail, ReadEntry(CONFIG_JSON).
ReadJson(r) ==
    LET content == ReadEntry(GetEntry(NameAt, r), r)
    IN  /\ caller \in {"raw", "unsigned"}
        /\ pc \in {"module", "config"}
        /\ Parse(r)
        /\ raw' = [raw EXCEPT !.module = content]
        /\ pc' = CASE content # None -> IF caller = "raw" THEN "share" ELSE "done"
                   [] content = None /\ pc = "module" -> "config"
                   [] OTHER -> "failed"
        /\ UNCHANGED <<file, caller, found, listed>>

\* ReadEntry(shareFilesEntry); without it there are no share files.
ReadShareFiles(r) ==
    LET name == ShareOf[raw.module]
    IN  /\ caller = "raw" /\ pc = "share"
        /\ IF name = None
           THEN UNCHANGED <<parsed, entries, raw, lost>>
           ELSE /\ Parse(r)
                /\ raw' = [raw EXCEPT !.share = ReadEntry(GetEntry(name, r), r)]
        /\ pc' = "done"
        /\ UNCHANGED <<file, caller, found, listed>>

\* GetEntry(MODULE_JSON) and GetEntry(CONFIG_JSON)
FindJson(r) ==
    LET e == GetEntry(NameAt, r)
    IN  /\ caller = "entries"
        /\ pc \in {"module", "config"}
        /\ Parse(r)
        /\ found' = e
        /\ pc' = CASE e # None -> "data"
                   [] e = None /\ pc = "module" -> "config"
                   [] OTHER -> "failed"
        /\ UNCHANGED <<file, caller, listed, raw>>

\* A mutant of ReadsFound: an entry that cannot be read is listed as well.
ListsFound(content) == TRUE

ReadsFound(content) == content # None

\* ReadEntry(moduleEntry): the JSON that names the share files.
ReadFound(r) ==
    LET content == ReadEntry(found, r)
        share   == IF content = None THEN None ELSE ShareOf[content]
        e       == GetEntry(share, r)
        ok      == IF share = None THEN raw.share = None ELSE e # None
    IN  /\ caller = "entries" /\ pc = "data"
        /\ Parse(r)
        /\ IF ReadsFound(content) /\ ok
           THEN /\ pc' = "done"
                /\ listed' = IF share = None THEN <<found>> ELSE <<found, e>>
           ELSE pc' = "failed" /\ UNCHANGED listed
        /\ UNCHANGED <<file, caller, found, raw>>

\* The calls of the reader.
Call ==
    \E r \in Reads :
        ReadJson(r) \/ ReadShareFiles(r) \/ FindJson(r) \/ ReadFound(r)

-----------------------------------------------------------------------------
(* Properties.                                                             *)

\* What the file has under a name: the first entry of an intact directory.
Stored(f, name) ==
    LET e == FirstNamed(name, Records(f))
    IN  IF f.end /\ f.inside /\ DirectoryParses(f) /\ e # None /\ e.header
        THEN Unpacked(e) ELSE None

\* The JSON that goes on to the caller is what the file has under one of the
\* names, never something out of a directory that is broken further on,
\* however many attempts failed before.  When every read works it is the
\* module's JSON if there is one and the share files that it names.
FirstEntryWins ==
    caller \in {"raw", "unsigned"} /\ pc = "done" =>
        /\ raw.module # None
        /\ raw.module \in {Stored(file, Module), Stored(file, Config)}
        /\ raw.share # None => raw.share = Stored(file, ShareOf[raw.module])
        /\ ~lost =>
              /\ Stored(file, Module) # None => raw.module = Stored(file, Module)
              /\ caller = "raw" /\ ShareOf[raw.module] # None
                    => raw.share = Stored(file, ShareOf[raw.module])

\* The JSON of a package when every read works.
StoredJson(f) ==
    IF Stored(f, Module) # None THEN Stored(f, Module) ELSE Stored(f, Config)

\* The fast path trusts the cached JSON after it has compared the chunks of
\* the entries that GetPermissionJsonEntries lists.  When every read works,
\* they are the entries that ReadPermissionRaw takes the JSON from: the two
\* callers fall back on the other name at different failures.
ReadIsChecked ==
    caller = "entries" /\ pc = "done" /\ ~lost =>
        LET json  == StoredJson(file)
            share == IF json = None \/ ShareOf[json] = None THEN None
                     ELSE Stored(file, ShareOf[json])
        IN  /\ Unpacked(listed[1]) = json
            /\ share # None => Len(listed) = 2 /\ Unpacked(listed[2]) = share

=============================================================================
