--------------------------- MODULE HapPermission ---------------------------
(***************************************************************************)
(* HapVerifyV2::VerifyOrParseHapPermission: how a caller that keeps the    *)
(* permission data of an application (BootstrapInfo) finds out, at each    *)
(* start, whether it still fits the package on the disk, without verifying *)
(* the whole package again.                                                *)
(*                                                                         *)
(* The caller is one that the call is made for: it hands in what it has    *)
(* saved, or what the last call left in its memory, and saves the outputs  *)
(* of a call that succeeds with isChanged.  A package is replaced by       *)
(* another file, never rewritten in place, so an open file keeps what it   *)
(* has.  A full verification is the matter of HapVerify; here it holds for *)
(* a package that is as its trusted signer sealed it, or fails for reasons *)
(* of its own, and a signing block that it found is found again after it.  *)
(* A digest is what it is of; the raw strings of JSON are values, of which *)
(* module.json says whether it names a share file.                         *)
(***************************************************************************)

CONSTANTS
    None,
    Modules,        \* contents of module.json, or config.json
    NamesShare,     \* those that name a share file
    Shares,         \* contents of that file
    Profiles,       \* JSON in the profile block
    Rests,          \* the other entries of the package
    Signers,        \* signing certificates, each with its key
    AgcNamed,       \* those of subject and issuer that IsAgcCert looks for
    Files,          \* the packages that are ever installed
    SystemFiles,    \* those that come with a read-only partition
    Trusts          \* the sets of signers whose chain can be trusted at a time

VARIABLES
    files,          \* the package at either path of the application
    enforcing,      \* accesstoken.permission.spm.enforcing
    trusted,        \* the signers that VerifyPkcs7 and GetCertChains accept
    ever,           \* history: those accepted since the process began
    agcKey,         \* g_agcPubKey
    saved,          \* what the caller has on disk
    call            \* the running or last call: locals and outputs

env  == <<files, enforcing, trusted, ever>>
vars == <<files, enforcing, trusted, ever, agcKey, saved, call>>

-----------------------------------------------------------------------------
Paths == {"system", "data"}
Codes == {"none", "VERIFY_SUCCESS", "OPEN_FILE_ERROR", "SIGNATURE_NOT_FOUND",
          "PROFILE_PARSE_FAIL", "VERIFY_FAIL"}

Json == [module: Modules \cup {None}, share: Shares \cup {None}]
Raws == [json: Json, profile: Profiles \cup {None}]

\* The pieces of the zip that are told apart, and a permission block that can be
\* parsed: the strings its digests are of, and the key that signed it, if any.
Zips   == [module: Modules, share: Shares \cup {None}, rest: Rests]
Blocks == [raw: Raws, key: Signers \cup {None}]

\* What a signature covers: zip, profile block and property block.
Contents == [zip: Zips, profile: Profiles, block: Blocks \cup {None}]

\* sealed is what the signed digest is of; an unsigned package has no signer.
AllFiles == [contents: Contents, sealed: Contents, signer: Signers \cup {None}]

BootstrapInfo == [raw: Raws, chunks: Zips \cup {None}]
Saved == [boot: BootstrapInfo, profile: Profiles \cup {None}]

ASSUME PermissionAssumption ==
    /\ None \notin Modules \cup Shares \cup Profiles \cup Rests \cup Signers
    /\ None \notin Files \cup Zips \cup Blocks
    /\ NamesShare \subseteq Modules
    /\ AgcNamed \subseteq Signers
    /\ Files \subseteq AllFiles
    /\ SystemFiles \subseteq Files
    /\ Trusts \subseteq SUBSET Signers

NoRaw     == [json |-> [module |-> None, share |-> None], profile |-> None]
EmptyBoot == [raw |-> NoRaw, chunks |-> None]

-----------------------------------------------------------------------------
(* What is read of a package.                                              *)

\* ReadPermissionRaw: the JSON and the profile of the contents c.
ReadPermissionRaw(c) ==
    [json    |-> [module |-> c.zip.module,
                  share  |-> IF c.zip.module \in NamesShare THEN c.zip.share
                             ELSE None],
     profile |-> c.profile]

NotSigned(f) == f # None /\ f.signer = None

\* Mutant: the digest of the profile stands for all of them.
CheckProfileDigest(block, b) == b.raw.profile = block.raw.profile

\* CheckPermissionDigests: the digests of the block against the cached strings.
\* Only that of a share file may be missing, where none is cached.
CheckPermissionDigests(block, b) ==
    /\ block.raw.profile # None /\ block.raw.json.module # None
    /\ b.raw = block.raw

\* GetPermissionJsonEntries and VerifyEntryCoveredChunks: the entries with JSON
\* lie in the chunks that the cached digests are of.
JsonChunksSame(f, b) ==
    LET zip == f.contents.zip
    IN  /\ zip.module = b.chunks.module
        /\ IF zip.module \in NamesShare
           THEN zip.share # None /\ zip.share = b.chunks.share
           ELSE b.raw.json.share = None

\* VerifyCachedFullDigest: the cached chunk digests with the blocks of the file
\* against the signed digest.
CachedDigestSealed(f, b) ==
    f.sealed = [f.contents EXCEPT !.zip = b.chunks]

\* Mutant: a found block is taken for a missing one.
ChunkDigestOfBlock(f, path) ==
    IF enforcing /\ path # "system" /\ f.contents.block # None
    THEN f.contents.zip
    ELSE None

\* Scene 1: the chunk digests are kept where scene 2-2-2-2 will need them.
ChunkDigestOf(f, path) ==
    IF enforcing /\ path # "system" /\ f.contents.block = None
    THEN f.contents.zip
    ELSE None

-----------------------------------------------------------------------------
\* file: the package opened last.  The others are history: the signers trusted
\* at some moment since the call began; whether enforcement was on all the time,
\* or ever; whether something failed that need not; whether package, parameter
\* and trust have stayed since the call began; whether the call repeats the last
\* one in this sense.
NewCall(pc, path, b) ==
    [pc |-> pc, path |-> path, boot |-> b, file |-> None,
     ret |-> "none", isChanged |-> FALSE, profile |-> None,
     seen |-> trusted, strict |-> enforcing, enforced |-> enforcing,
     fault |-> FALSE, steady |-> TRUE, again |-> FALSE]

Idle(b) == [NewCall("done", "data", b) EXCEPT !.steady = FALSE]

Init ==
    /\ files \in [Paths -> Files \cup {None}]
    /\ files["system"] \in SystemFiles \cup {None}
    /\ enforcing \in BOOLEAN
    /\ trusted \in Trusts
    /\ ever = trusted
    /\ agcKey = None
    /\ saved = [boot |-> EmptyBoot, profile |-> None]
    /\ call = Idle(EmptyBoot)

-----------------------------------------------------------------------------
(* What happens around the calls.                                          *)

\* A call that is over has been looked at when something else changes.
Disturbed ==
    IF call.pc = "done" THEN Idle(call.boot)
    ELSE [call EXCEPT !.steady = FALSE, !.again = FALSE]

\* An update, a removal or another file in place of the package.
Install(f) ==
    /\ files' = [files EXCEPT !["data"] = f]
    /\ call' = Disturbed
    /\ UNCHANGED <<enforcing, trusted, ever, agcKey, saved>>

SetEnforcing ==
    /\ enforcing' = ~enforcing
    /\ call' = [Disturbed EXCEPT !.strict = FALSE, !.enforced = TRUE]
    /\ UNCHANGED <<files, trusted, ever, agcKey, saved>>

\* A revocation list arrives, debug mode is switched.
SetTrust(signers) ==
    /\ trusted' = signers
    /\ ever' = ever \cup signers
    /\ call' = [Disturbed EXCEPT !.seen = @ \cup signers]
    /\ UNCHANGED <<files, enforcing, agcKey, saved>>

\* The process ends, also in the middle of a call; the system partition may
\* come with other packages next time.
Restart(f) ==
    /\ files' = [files EXCEPT !["system"] = f]
    /\ ever' = trusted
    /\ agcKey' = None
    /\ call' = Idle(saved.boot)
    /\ UNCHANGED <<enforcing, trusted, saved>>

\* TryCacheAgcPubKey: the first key stays.
TryCacheAgcPubKey(signer) ==
    agcKey' = IF agcKey = None /\ signer \in AgcNamed THEN signer ELSE agcKey

\* The same call for another application, on another thread.
OtherCall(signer) ==
    /\ signer \in trusted
    /\ TryCacheAgcPubKey(signer)
    /\ UNCHANGED <<env, saved, call>>

-----------------------------------------------------------------------------
(* The call.                                                               *)

At(pc) == call.pc = pc /\ UNCHANGED env

Goto(pc)     == call' = [call EXCEPT !.pc = pc]
Succeed      == call' = [call EXCEPT !.pc = "done", !.ret = "VERIFY_SUCCESS"]

\* Of a call that fails only the code and the caller's data are left.
Answer(code) == call' = [Idle(call.boot) EXCEPT !.ret = code]

\* The package at the path, opened; it stays what it is while other files come.
Open(pc, missing, unsigned) ==
    LET f == files[call.path]
    IN  IF f = None THEN Answer(missing)
        ELSE IF NotSigned(f) THEN Answer(unsigned)
        ELSE call' = [call EXCEPT !.pc = pc, !.file = f]

\* Mutant: isChanged stays false, so that nothing is saved.
SucceedUnreported(b) ==
    /\ call' = [call EXCEPT !.pc = "done", !.ret = "VERIFY_SUCCESS", !.boot = b,
                            !.profile = call.file.contents.profile]
    /\ UNCHANGED saved

\* The outputs are assigned, and the caller saves them.
SucceedChanged(b) ==
    /\ call' = [call EXCEPT !.pc = "done", !.ret = "VERIFY_SUCCESS",
                            !.isChanged = TRUE, !.boot = b,
                            !.profile = call.file.contents.profile]
    /\ saved' = [boot |-> b, profile |-> call.file.contents.profile]

\* The caller starts a call of either type with what it has saved or still has
\* in memory.
Begin(type, path, b) ==
    /\ At("done")
    /\ b \in {saved.boot, call.boot}
    /\ call' = [NewCall(type, path, b) EXCEPT
                    !.again = /\ type = "fast" /\ path = call.path
                              /\ call.steady /\ call.ret = "VERIFY_SUCCESS"]
    /\ UNCHANGED <<agcKey, saved>>

\* Scene 2-1: the strings of the package are the cached ones, or replace them.
OpenReadOnly ==
    /\ At("fast") /\ call.path = "system"
    /\ Open("readOnly", "PROFILE_PARSE_FAIL", "PROFILE_PARSE_FAIL")
    /\ UNCHANGED <<agcKey, saved>>

IsPermissionRawSame(b) == ReadPermissionRaw(call.file.contents) = b.raw

ReadOnlySame ==
    /\ At("readOnly")
    /\ IsPermissionRawSame(call.boot)
    /\ Succeed
    /\ UNCHANGED <<agcKey, saved>>

\* Mutant: the strings are replaced one by one, and the chunk digests stay.
ReadOnlyStrings ==
    [call.boot EXCEPT !.raw = ReadPermissionRaw(call.file.contents)]

ReadOnlyBoot ==
    [raw |-> ReadPermissionRaw(call.file.contents), chunks |-> None]

ReadOnlyChanged ==
    /\ At("readOnly")
    /\ ~IsPermissionRawSame(call.boot)
    /\ SucceedChanged(ReadOnlyBoot)
    /\ UNCHANGED agcKey

\* The scenes for other paths; the first question is for a permission block.
OpenPackage ==
    /\ At("fast") /\ call.path = "data"
    /\ Open("block", "OPEN_FILE_ERROR", "SIGNATURE_NOT_FOUND")
    /\ UNCHANGED <<agcKey, saved>>

Block == call.file.contents.block

\* Every scene ends in scene 1 if it does not succeed.
FallBack == Goto("all")

\* Scene 2-2-1: the digests, then the key of an earlier package.
BlockScene ==
    /\ At("block") /\ Block # None
    /\ IF ~CheckPermissionDigests(Block, call.boot) \/ Block.key = None
       THEN FallBack
       ELSE IF agcKey = Block.key THEN Succeed
       ELSE Goto("signer")
    /\ UNCHANGED <<agcKey, saved>>

\* VerifyPermissionSignature: then the key of the signer of this package.
SignerScene ==
    /\ At("signer")
    /\ IF call.file.signer \notin trusted
       THEN FallBack /\ UNCHANGED agcKey
       ELSE /\ TryCacheAgcPubKey(call.file.signer)
            /\ IF Block.key = call.file.signer THEN Succeed ELSE FallBack
    /\ UNCHANGED saved

\* Scene 2-2-2: what is done without a block depends on the parameter.
ReadParameter ==
    /\ At("block") /\ Block = None
    /\ IF ~enforcing THEN Goto("raw")
       ELSE IF call.boot.chunks # None THEN Goto("chunks")
       ELSE FallBack
    /\ UNCHANGED <<agcKey, saved>>

\* Scene 2-2-2-1.
RawScene ==
    /\ At("raw")
    /\ IF IsPermissionRawSame(call.boot) THEN Succeed ELSE FallBack
    /\ UNCHANGED <<agcKey, saved>>

\* Scene 2-2-2-2: VerifyAppPkcs7, VerifyPermissionJsonChunksAndFullDigest.
ChunksVouch(b) ==
    /\ call.file.signer \in trusted
    /\ JsonChunksSame(call.file, b)
    /\ CachedDigestSealed(call.file, b)

ChunksScene ==
    /\ At("chunks")
    /\ IF ChunksVouch(call.boot) THEN Succeed ELSE FallBack
    /\ UNCHANGED <<agcKey, saved>>

\* Scene 1.
OpenAll ==
    /\ At("all")
    /\ ~NotSigned(files[call.path])
    /\ Open("verify", "OPEN_FILE_ERROR", "SIGNATURE_NOT_FOUND")
    /\ UNCHANGED <<agcKey, saved>>

\* Without a signature the call fails, and yet assigns what module.json has, or
\* nothing if the zip cannot be read.
SignatureNotFound ==
    LET f == files[call.path]
    IN  /\ At("all")
        /\ NotSigned(f)
        /\ \E module \in {f.contents.zip.module, None} :
                call' = [Idle([EmptyBoot EXCEPT !.raw.json.module = module])
                            EXCEPT !.ret = "SIGNATURE_NOT_FOUND"]
        /\ UNCHANGED <<agcKey, saved>>

Verified(f) == f.signer \in trusted /\ f.contents = f.sealed

Verify ==
    /\ At("verify")
    /\ IF Verified(call.file) THEN Goto("keep") ELSE Answer("VERIFY_FAIL")
    /\ UNCHANGED <<agcKey, saved>>

NewBoot ==
    [raw    |-> ReadPermissionRaw(call.file.contents),
     chunks |-> ChunkDigestOf(call.file, call.path)]

Keep ==
    /\ At("keep")
    /\ SucceedChanged(NewBoot)
    /\ UNCHANGED agcKey

\* A file that cannot be opened or read, memory that is not there; a profile
\* that has become invalid, a device that the package is not for.
Refuse ==
    /\ call.pc \in {"fast", "readOnly", "all", "verify", "keep"}
    /\ At(call.pc)
    /\ \E code \in {"OPEN_FILE_ERROR", "PROFILE_PARSE_FAIL", "VERIFY_FAIL"} :
            Answer(code)
    /\ UNCHANGED <<agcKey, saved>>

Falter ==
    /\ call.pc \in {"block", "signer", "raw", "chunks"}
    /\ At(call.pc)
    /\ call' = [call EXCEPT !.pc = "all", !.fault = TRUE]
    /\ UNCHANGED <<agcKey, saved>>

FastStep ==
    \/ OpenReadOnly
    \/ ReadOnlySame
    \/ ReadOnlyChanged
    \/ OpenPackage
    \/ BlockScene
    \/ SignerScene
    \/ ReadParameter
    \/ RawScene
    \/ ChunksScene

AllStep ==
    \/ OpenAll
    \/ SignatureNotFound
    \/ Verify
    \/ Keep

Next ==
    \/ \E f \in Files \cup {None} : Install(f)
    \/ SetEnforcing
    \/ \E signers \in Trusts : SetTrust(signers)
    \/ \E f \in SystemFiles \cup {None} : Restart(f)
    \/ \E signer \in Signers : OtherCall(signer)
    \/ \E type \in {"all", "fast"}, path \in Paths, b \in {saved.boot, call.boot} :
            Begin(type, path, b)
    \/ FastStep
    \/ AllStep
    \/ Refuse
    \/ Falter

Spec == Init /\ [][Next]_vars

-----------------------------------------------------------------------------
CallType ==
    [pc: {"fast", "readOnly", "block", "signer", "raw", "chunks", "all",
          "verify", "keep", "done"},
     path: Paths, boot: BootstrapInfo, file: Files \cup {None}, ret: Codes,
     isChanged: BOOLEAN, profile: Profiles \cup {None},
     seen: SUBSET Signers, strict: BOOLEAN, enforced: BOOLEAN,
     fault: BOOLEAN, steady: BOOLEAN, again: BOOLEAN]

TypeOK ==
    /\ files \in [Paths -> Files \cup {None}]
    /\ enforcing \in BOOLEAN
    /\ trusted \in Trusts
    /\ ever \in SUBSET Signers
    /\ agcKey \in AgcNamed \cup {None}
    /\ saved \in Saved
    /\ call \in CallType

Succeeded == call.pc = "done" /\ call.ret = "VERIFY_SUCCESS"

\* A package whose block, if there is one, is of its own strings and by its own
\* signer, and that has the share file it names: what a signing tool makes.
WellMade(f) ==
    LET c == f.contents
    IN  /\ c.block # None =>
                c.block = [raw |-> ReadPermissionRaw(c), key |-> f.signer]
        /\ c.zip.module \in NamesShare => c.zip.share # None

Intact(f) == f.contents = f.sealed

\* After a success outside the read-only partitions, with enforcement on all
\* the time, the JSON that the caller goes on with was sealed by somebody the
\* device trusts: by the signer of the package at hand, in the package or in its
\* permission block, or in that block by the holder of the AppGallery key that
\* an earlier package of this process showed.  The package may have been changed
\* since (scenes 2-2-1 and 2-2-2-2 do not look at all of it).
CacheVouched ==
    Succeeded /\ call.path = "data" /\ call.strict =>
        LET f == call.file
            raw == saved.boot.raw
        IN  \/ /\ f.signer \in call.seen
               /\ raw.json = ReadPermissionRaw(f.sealed).json
            \/ /\ Block # None
               /\ raw = Block.raw
               /\ Block.key \in call.seen \/ Block.key \in ever \cap AgcNamed

\* After a success on a package that is as its signer made it, the caller goes
\* on with the JSON of that very package, whichever scene answered and whatever
\* was installed before; with its profile, too, unless enforcement was on and
\* the package has no permission block.
CacheCurrent ==
    Succeeded /\ Intact(call.file) /\ WellMade(call.file) =>
        LET current == ReadPermissionRaw(call.file.contents)
        IN  /\ saved.boot.raw.json = current.json
            /\ \/ saved.boot.raw.profile = current.profile
               \/ ~call.isChanged /\ call.enforced /\ call.path = "data"
                                  /\ Block = None

\* isChanged tells the truth: after a success the caller's disk has what the
\* call works with in memory, and the provision saved with it is of the same
\* profile, also after calls that failed, packages without a signature and
\* restarts.
SavedAgrees ==
    Succeeded =>
        /\ saved.boot = call.boot
        /\ saved.profile = saved.boot.raw.profile

\* The fast way is taken: after a success, and with package, parameter and trust
\* as they were, the next fast call on a well-made package succeeds, with no
\* full verification and nothing to save, unless the system fails.
QuickAgain ==
    call.again /\ call.file # None /\ WellMade(call.file) /\ ~call.fault =>
        /\ call.pc \notin {"all", "verify", "keep"}
        /\ call.pc = "done" => call.ret = "VERIFY_SUCCESS" /\ ~call.isChanged
=============================================================================
