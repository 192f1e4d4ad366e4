# TLA+ specifications of appverify

appverify is the OpenHarmony library that the bundle manager calls before it
installs a package (HAP): it checks who signed the package, whether that source
is trusted, what the profile in the package allows, and that the package has not
been changed since it was signed. "The application can be installed only after
the verification succeeds" (`README.md` of the repository) is the promise; these
modules say what it takes to keep it, step by step, and check that the code does.

Paths below are relative to `src/interfaces/innerkits/appverify/`.

## 1. The system

### Components

| component | state it keeps | operations | modelled in |
| --- | --- | --- | --- |
| entry points, `src/interfaces/hap_verify.cpp` | `g_isInit`, `g_mtx` | `HapVerifyInit`, `HapVerify`, `EnableDebugMode`, `DisableDebugMode`, `SetDevMode`, parse-only calls, `BootstrapInfo::Dump`/`Load` | `TrustStores`, `CrlManager`, `HapVerify`, `HapPermission`; not `Dump`/`Load` |
| trusted roots and sources, `src/init/trusted_root_ca.cpp`, `trusted_source_manager.cpp` | two lists, two test lists, `isInit`, `isDebug` of each | `Init`, `Recovery`, `EnableDebug`, `DisableDebug`, lookups without a lock | `TrustStores` (loading, switching), `HapVerify` (what an entry matches) |
| device type, `src/init/device_type_manager.cpp` | `deviceType`, `getDeviceTypeMtx` | `GetDeviceTypeInfo` | `TrustStores` |
| CRLs, `src/init/hap_crl_manager.cpp` | `crlsMap`, `isInit`, the CRL file, `crlMtx` | `Init`, `CrlCheck`, `WriteCrlsToFile` | `CrlManager`, `CrlPolicy` |
| one verification, `src/verify/hap_verify_v2.cpp` | locals of the call | `Verify` | `HapVerify` |
| profile, provision, tickets, `src/provision`, `src/ticket`, `src/util/hap_profile_verify_utils.cpp` | the `ProvisionInfo` of the caller | parsing and checks | `HapVerify`; the merge of `from_json` in `PermissionRaw` |
| enterprise re-signature, `src/verify/enterprise_resign_mgr.cpp` | none | `Verify` | `HapVerify` |
| openHiTLS loader, `src/util/hap_verify_hitls_utils.cpp` | handle, holds, deadline, worker thread | `Acquire`, `Release`, the close worker, the destructor | `HitlsLoader` |
| package digest, `src/util/hap_signing_block_utils.cpp`, `src/common/*` | buffer of chunk digests, positions of the data sources | `VerifyHapIntegrity`, `VerifyHapIntegrityWithHitls`, `ComputeChunkDigest` | `ChunkDigest` |
| signing block (same file, first part) | locals of the call | `FindHapSignature`: end record, head, sub-blocks | `SigningBlock` |
| permission scenes (`hap_verify_v2.cpp`, first part) | `g_agcPubKey`, the cached `BootstrapInfo` of the caller | `VerifyOrParseHapPermission` | `HapPermission` |
| zip reader, `src/util/hap_zip_reader.cpp` | parsed entries | `GetEntry`, `ReadEntry`, `EnsureParsed` | `ZipReader`, with its callers in `PermissionRaw` |
| PKCS#7, X.509, ASN.1 wrappers | none | pure functions over OpenSSL | decisions only, as operators |
| lite verifier, `../appverify_lite/src/app_*.c` | debug flag; what a call allocates and opens; the `VerifyResult` | `APPVERI_AppVerify`, `APPVERI_FreeVerifyRst`, `APPVERI_SetDebugMode` | `AppVerifyLite`, `LitePolicy`; its block search in `SigningBlock` |
| PKCS#7 of the lite verifier, `../appverify_lite/src/mbedtls_pkcs7.c` | debug flag and root; lists of certificates | parse, paths of the signers, chains, depths, free | `LitePkcs7` |

### How they interact

* Every call that verifies begins with `HapVerifyInit`, which holds `g_mtx`: it
  loads both lists (or empties both), the ticket sources and the CRL file, asks
  for the device type (taking `getDeviceTypeMtx` inside `g_mtx`) and switches
  debug mode to what the system parameter says. Then `g_mtx` is free and the call
  runs beside others.
* A verification reads the lists *without* a lock, while another thread may be
  switching debug mode: under `g_mtx` through an initialization or an exported
  call, or under `getDeviceTypeMtx` through `CheckDeviceID` of a third thread.
* Each signature (package, profile, ticket, re-signature) has its certificates
  checked against the CRL manager, under `crlMtx`; a check may replace the CRL in
  memory. The call that succeeds writes the whole map to the file if the check of
  the package or of the profile replaced one; nobody looks at `needWriteCrl` of the
  contexts of a ticket (`VerifyTicket`) and of a re-signature.
* The caller keeps the permission data of a package (`BootstrapInfo`) on its disk
  and passes it to `VerifyOrParseHapPermission` at every start; the fast scenes
  compare it with the package, and fall back to a whole verification.
* The digest of the package is computed by openHiTLS first, loaded on demand and
  closed by a worker after a delay, and by OpenSSL if that fails; big packages are
  cut among four threads that fill one buffer.

* The lite verifier is another program, in C, for small devices. It reads the same
  packages: its search for the blocks is compared with the standard one. It has no
  threads and no locks; its difficulty is in what a call holds and gives back.

### What is hard here

Two mutexes over one piece of state; lookups without a lock; a cache (CRLs) in
memory and in a file, updated by calls that may fail later; a file that is
truncated before it is written; a verification that takes one of two ways to the
same answer; a library that is unloaded by a thread of its own while others call
into it through function pointers; threads that write one buffer; a second
attempt that inherits what the first one left; cached data that is compared with
parts of a package that has been replaced meanwhile; an object that is parsed into
again and again; lengths out of a file that are added up before they are compared;
a linked list that several paths take their certificates from; some forty exits
that free by hand. `PROJECT.json` lists these hazards
one by one, each at its line, with the properties that would catch it.

## 2. The modules

Each component has one module with its state, one action per operation or per
step that other threads can see, its properties at the end; an `MC` module with
the constants of a run; and, where there are proofs, a `...Proofs` module.
Operators named in `PROJECT.json` under "mutants" are plausible bugs: each
property is violated when one of them replaces the operator next to it.

### CrlPolicy and CrlManager

`CrlPolicy` is the abstract promise: `known` is the set of CRLs the process has
met, and every check is decided by the newest CRL of the issuer among them.
`CrlManager` is the code: `crls` is `crlsMap`, `crlFile` the file (its header and
its whole entries), `call[t]` what thread `t` is verifying, with the issuers whose
CRL its contexts have replaced (`needWriteCrl`). The contexts of a HAP verification
come in the order of `After`: app signature, profile, ticket, re-signature; each has
any number of checks, none where the package has no such part.

* `HapVerifyInit` loads the file once (`LoadCrls`); a failure to read is a choice.
* `CrlCheck` is one atomic step because the code holds `crlMtx` throughout:
  `Installs` is the comparison of update times, `FinalCrl` the list judged by.
* `OpenCrlFile`, `WriteHeader`, `WriteEntry`, `CloseCrlFile`, `StreamFails` are
  separate steps: `Crash` can come between any two, and other threads run.
* `FailCall`, `SucceedWithoutWrite` end a call without a write; `dropped` is a
  history variable that remembers which updates stayed unsaved: those of a call
  that failed or never writes, and those of a ticket or a re-signature in a call
  whose app signature and profile replaced no CRL (`WriteCrlNeeded`).

CRLs are signed by their issuer, so one issuer has no two CRLs with one time
(`CrlAssumption`).

### TrustStores

`store["root"]` and `store["source"]` are the singletons, each with its list,
`isInit`, `isDebug` and test list; a list is "none", "part" or "all" of its file.
Each access to a field is a step, since that is what the lookups see. `gMtx` and
`dtMtx` are the two mutexes. A thread initializes (`LockInit`, `InitRoots`,
`InitSources`, `RecoverStores`), reads the device type (`ReadDeviceType`, then
`SameDeviceType` or `DeviceTypeChanged`), reads the parameter (`ReadParam`), and
then looks entries up (`ReadDebugFlag`, `SearchTestList`); `LoadTestList`,
`SetDebugFlag`, `DropDebugFlag`, `ClearTestList` are the switch, whoever started
it. A search that overlaps a clear is counted as before or after it: the
iteration over a map that another thread clears has no defined outcome in C++,
and nothing finer is said of it. The developer mode is a plain flag read by one
lookup; it is a fact of `HapVerify`.

### HapVerify

One call of `HapVerifyV2::Verify`, its program counter in `call.pc`; the order of
actions is the order of the code: signature, source, profile, its signature,
provision, profile info, ticket, certificate, identity, integrity, developer
certificate, re-signature. `facts` is what the lookups of other modules would
answer *now* (debug mode of each list, developer mode, device), and `Switch`
changes it between any two steps; `seen` remembers what has held during the call,
for the properties. A package, a profile, a ticket, an envelope are records of
the fields that the checks read; what is wrong with an envelope is one of
`Faults`. A call that fails before it hands out a provision forgets what it read.
Packages have one signer; the certificates with the same name but another root
or extension stand for look-alikes. The CRL write is `CrlManager`'s, the digest
`ChunkDigest`'s (here `VerifyHapIntegrity` or `IntegrityFails`). Comparison of
bundle names and permissions between ticket and profile is the Boolean `alike`;
`LocalCerts` stands for both checks on the certificates in the enterprise's
directory. The build for the emulator, which skips some checks, is not modelled.

### HitlsLoader

`loaded` is `handle_`, `holds` is `activeHolds_`, `scheduled` and `left` are
`closeScheduled_` and what remains of `closeDeadline_`. A thread goes through
`Acquire`, `AcquireNotifies`, `Release`, `ReleaseNotifies`: `notify_one` comes
after the unlock in the code, so it is a step of its own. The worker waits,
waits for a deadline, times out, closes or leaves; wakeups may be spurious. A
failed `Acquire` changes nothing when the mutex is free again (a stutter). The
destructor (`StopWorker`, `StopNotifies`, `JoinWorker`) runs when no digest is
being computed, as at process exit after the callers have ended.
`wait_until` takes the deadline by reference and re-reads it, in libc++ and
libstdc++ alike, so `Due` looks at the current one.

### ChunkDigest

Sizes are in units of which `CHUNK_SIZE` make a chunk, and a digest *is* the piece
of the package it is of: `SlotChunk(k)` is the piece that belongs to slot `k`.
`Call` starts a verification or a computation with either library, `Prepare` is
the counting of chunks and the new buffer, a thread (`ThreadBegins`,
`ReadChunks`, `ThreadEnds`, `ThreadFails`) or the caller itself reads chunk by
chunk, `Join` and `NextSource` go on with the central directory and the end
record, and `Succeed`, `Mismatch`, `FallBack`, `Refuse` are the verdict. One turn
of a reading loop is one step: all it shares with other threads are its own
slots. `ReadShort` is a `pread` that returns fewer bytes and is not noticed;
memory-mapped reads are never short. `CallerFails` stands for any failing read,
allocation or library call of the caller. The end record is the only source that
outlives an attempt (`eocd`): its position is what a second attempt, or the
re-sign check with its copy of the signature info, could find stale. Prefix bytes
and optional blocks of the digest are left out; so is the overflow of the sum of
three chunk counts, which needs a package of petabytes.

### HapPermission

`VerifyOrParseHapPermission` again and again, for one application, by the caller
it is made for: `saved` is what that caller has on disk, `call.boot` what it has
in memory; it passes either, and saves the outputs of a call that succeeds with
`isChanged`. A call that fails on an unsigned package overwrites `call.boot` only.
`files` is the package at a read-only path and at another one; `Install`,
`SetEnforcing`, `SetTrust`, `OtherCall` (which may cache the gallery's key) and
`Restart` come between any two steps. A package is replaced by another file, so
`call.file`, once open, stays what it is.

| scene of the code | actions |
| --- | --- |
| 1, verify all | `OpenAll`, `SignatureNotFound`, `Verify`, `Keep` |
| 2-1, read-only path | `OpenReadOnly`, `ReadOnlySame`, `ReadOnlyChanged` |
| 2-2-1, permission block | `OpenPackage`, `BlockScene`, `SignerScene` |
| 2-2-2-1, no block, not enforcing | `ReadParameter`, `RawScene` |
| 2-2-2-2, no block, enforcing | `ReadParameter`, `ChunksScene` |

A scene that does not succeed goes on in scene 1 (`FallBack`, `Falter` when the
system fails). A package is what its zip, profile block and permission block say
now (`contents`) and what its signer signed (`sealed`); digests are what they are
of, so that `CachedDigestSealed` is an equality. `Verify` is the whole of
`HapVerify`: it holds for an unchanged package of a trusted signer, or `Refuse`
lets it fail. Left out: the `version` field (scene 1 resets it, 2-1 keeps it), the
appId, fingerprint and re-sign mark of the provision (scene 2-1 fills in none of
them, a fallback never verifies the re-signature), and JSON parsing.

### ZipReader and PermissionRaw

`ZipReader` is the reader with its three callers, one action per call of the
reader: `ReadJson` and `ReadShareFiles` (`ReadPermissionRaw`, and scene 1 for an
unsigned package), `FindJson` and `ReadFound` (`GetPermissionJsonEntries`). Every
call names the reads of the file that work (`Reads`); `lost` remembers that one did
not. An attempt to parse the central directory that fails leaves the entries it
has read in `entries` (`EntriesAfter`), as the code does. A file is a list of
directory entries, each with what can be wrong about it.

`PermissionRaw` composes it with what the caller keeps from call to call:
`BootstrapInfo` (`boot`), which is replaced, and `ProvisionInfo` (`info`), into
which scene 2-1 parses a profile as it is (`FromJson`): tags that the profile lacks
keep their value and arrays are appended to. `BeginAll`, `BeginFast` and
`BeginEntries` start the scenes 1, 2-1 and 2-2-2-2, the `End` actions are what the
scene does with what was read. Between two calls the package may be replaced and
the caller may take a new `ProvisionInfo`. Type and distribution type are set by
every profile and stand beside `Tags`.

### SigningBlock

The actions are the steps of `FindHapSignature`: the end record, the directory, the
head, one sub-block after the other with its running sums, the end of the array.
A file is its length and what stands at which offset; a read succeeds or not
(`Readable`) as mmap and `pread` do, which differ at the end of the file: mmap
refuses, `pread` leaves zeros. `WellFormed` is the format, said of a file as a
whole. `LiteBlock` is the search of the lite verifier as one operator, with every
length and offset in the 32 bits that the code keeps it in: `ToInt` is what is left of
a number in an `int32_t`, `ToWord` in a `uint32_t`, `MaxInt` is `INT32_MAX`. It looks for the
end record in as much of the file as the length in an int says (`EndRecordsIn`).
Its proofs are in `ChunkDigestProofs`, with those of the other half of the same source
file.

### LitePkcs7

One message at a time: `BeginParse` ... `ParseSigner` are the parse, one step per
loop round or allocation; `list` is `signedData.certs`, `path` the chains taken out
of it, by the place of a certificate in the message, so that a certificate in two
lists or in none would show. `ResolveSigners` counts depths and refuses by the trust
lists as its caller does (`Uses`): a listed signer that stands too deep (`TooDeep`), and
for a profile one that is not listed (`NoSource`); `Listed` and `ListedTest` are the names
in the two lists, by use. `VerifyCertsChain` verifies, with the debug root that
`EnableDebugMode` may or may not have loaded.
Names have a spelling, its folded form and a kind, because the code compares names
with and without case in different places. What mbedTLS verifies is external.

### LitePolicy and AppVerifyLite

`LitePolicy` is what the lite verifier promises: which packages are accepted, under
which mode, and what is handed out of the profile. `AppVerifyLite` is the code with
every step and exit: `held` is what the call has allocated or opened, by its name
in the code, `result` the `VerifyResult`. A step takes `ok`: it may fail although
the package is good. Chunks are pieces of the package with the offset, so that a
short last chunk, a buffer that is too small and dropped data show as another
digest. `HashLen` is the length of a digest by algorithm, `HashField` the bytes that
`ContentInfo` has for one. `Policy` is the refinement mapping. Where the code compares
bytes behind the content or behind that field, `CompareRawHash` may go either way
within `MayMatch` and `MustMatch`, and the policy allows a refusal (`DigestCut`); an
acceptance still needs everything else (see the observations).

## 3. The runs

A type invariant that is proved (section 4) is not run again.

| run | what is small, and why it is enough |
| --- | --- |
| `crl_manager` | Two threads (any conflict is between two), two issuers, two CRLs of each. One issuer revokes in its second CRL, the other takes a revocation back, so that an old list shows in the verdict either way. Updates, failures, torn writes, crashes and restarts in every order. |
| `trust_stores` | Two threads: every pair of switches, or a switch and a lookup, can meet. Loads stop at any point. |
| `hap_verify` | Ten certificates (trusted app signers, profile signers, a ticket signer, look-alikes of the developer), four source entries in both lists, ten profiles of every distribution type that the code tells apart, four tickets; debug mode of each list is switched at any moment. Five device settings. Wider settings multiply states and reach no new branch: every disjunct fires. |
| `hap_verify_comment` | The same instance; one property, see below. |
| `hap_permission` | Ten packages: with and without block, with and without share file, a renewed profile, three signers (one that is the gallery only by name), and five that are unsigned or altered after signing (JSON, another entry, block, block's signature). Two sets of trusted signers, both parameters, restarts; every order of them. |
| `hitls_loader` | Three threads, so that one hold can outlast another while a third begins; a delay of three ticks, so that a hold can begin and end inside a timed wait. |
| `chunk_digest` | Four packages: one whose share per thread is rounded (a short share and an empty one), one chunk per thread, one below the parallel limit with a half chunk at the end of the central directory, one too large. Two calls (`MaxCalls`), so that the second finds what the first left; one fault (`MaxFaults`). `CHECK_DEADLOCK FALSE`, because calls are bounded and the system then stops. |
| `permission_raw` | Directories of up to three entries out of eleven: both names of the JSON, doubles, a broken record, a broken header, data that does not unpack. Four profiles: other tags, fewer tags, no object. A `ProvisionInfo` is parsed into twice (`MaxParses`): the second parse meets what the first left. |
| `signing_block` | Units instead of bytes. Every array of up to two sub-blocks with free length and offset fields, a few with up to four; every disturbance of head, end record, comment, sizes and count, one at a time. Two sub-blocks are enough for one to reach over the other; the longer ones repeat types. `MaxInt` is 24, so that files end below, at and above what an int and 32 bits hold, some with an end record that closes the part of them that the lite search sees. |
| `lite_pkcs7` | Up to three certificates out of eleven in every order, up to two signers: two paths that want one issuer, doubles, namesakes with another key, two spellings of a name. The trust lists differ by use and by mode, so that a signer may be listed for one and not for the other. The depth limit (`MaxDepth`) is three, so that a chain of the message reaches it. |
| `app_verify_lite` | Two sizes of contents (one ends with a short chunk) and one with too many chunks (`MaxInt` is 13), digests that fit the field of the hash and digests that are longer (`HashField` is 1), four kinds of signer, thirty profiles, one defect of package or profile; every step may fail. Up to two device ids (`MaxIds`), so that a list can be too long. |

What the passing runs show:

* **CRLs** - memory never goes back (`NoRollback`; that it always holds the newest
  CRL met, and that the file is never ahead of it, is proved); what the file lacks
  is a running call's or accounted for (`NoSilentLoss`); a complete write is a
  snapshot (`WriteIsSnapshot`); `CrlManager` implements `CrlPolicy`
  (`ImplementsPolicy`); the mutex comes back (`MutexReleased`). `NoSilentLoss` also says
  what the code does *not* promise: a call that fails, a parse-only call, a ticket
  and a re-signature leave their update in memory only.
* **Trust** - lists are whole or empty (`StoresAllOrNothing`); both stores agree on
  debug mode once a switch-off has run alone (`DebugAgrees`): two switches under two
  mutexes may leave them apart until then; no test entry is trusted unless someone
  was enabling debug mode (`TestTrustJustified`); no mutex is kept (`InitReturns`).
* **A call** - whoever gets a provision has a trusted source by one way or the
  other (`SourceTrusted`), a signed profile (`ProfileVouched`), a device for it (`DeviceAllowed`),
  a ticket where one is due (`GalleryByTicket`), the identity of the signer
  (`IdentityOfSigner`) and a re-sign mark only with reason (`ResignJustified`). These hold of provisions that come with an error code, too.
* **Permissions** - outside read-only partitions and under enforcement, the JSON a
  caller goes on with was signed: by the trusted signer of the package, or in its
  permission block by a key that was trusted or is the cached gallery key
  (`CacheVouched`; it also says what is *not* promised: the package itself may have
  changed). On an unchanged, well-made package the JSON is of that package, and the
  profile too except in scene 2-2-2-2 (`CacheCurrent`). Memory and disk agree after
  every success (`SavedAgrees`). The fast way is taken again whenever nothing has
  changed (`QuickAgain`).
* **openHiTLS** - nobody calls into a closed library (`HoldersAreReady`); it
  is closed after its delay (`ClosedAfterDelay`) and in the end (`UnusedIsClosed`); the destructor returns (`DestructorReturns`).
* **Digest** - every slot gets its own chunk (`SlotsHoldTheirChunk`), once
  (`NoSlotTwice`); what is handed out is complete (`HandedOutComplete`); an attempt
  fails only for a reason, in particular OpenSSL starts afresh after openHiTLS
  (`RefusalExplained`); every call returns (`CallReturns`).
* **What is read of a package** - the JSON is what an intact directory has first
  under the name, whichever reads failed before (`FirstEntryWins`); the entries whose
  chunks are compared are those the JSON is read from (`ReadIsChecked`); after any
  sequence of calls the kept profile is the last one in the provision
  (`InfoFollowsBoot`).
* **Signing block** - the running sums accept exactly the well-formed files
  (`AcceptedIffFits`); in a file with one end record and a length below 4 GiB the
  lite search finds the same blocks or none, and the same whenever it can see the file
  (`LiteAgrees`; `LiteSees` lists what it cannot see, a file of 2 GiB among it).
* **Lite verifier** - every parsed certificate has one owner (`CertOwnedOnce`), each
  signer of an accepted message is vouched (`AcceptedIsVouched`), no chain is counted
  too short (`DepthNotUndercounted`), and a vouched message that leaves no choice, of
  one signer or of several that want no certificate of each other (`Uncontested`), is
  refused only on a failure or by the trust lists, and never for its order or spelling
  (`PlainIsAccepted`). `AppVerifyLite` implements
  `LitePolicy` (`ImplementsPolicy`) and keeps nothing after a call (`NothingKept`).

One run ends in a violation. The comment in `VerifyAppSourceAndParseProfile`
(`src/verify/hap_verify_v2.cpp:962`) says of a package of no known source "If
profile is release, do not allow installation of this app". The code installs
such a package when its distribution type allows it (enterprise types,
OS integration, testing) or a ticket vouches for it. The comment is older than
those types; `ReleaseRefused` states it and `hap_verify_comment` shows the call.

### Fairness

No liveness rests on a caller: nothing makes a thread call the library. Assumed is
only that code which has begun and waits for nothing runs on:

* `CrlManager`: a thread that is writing the file (the loop has no blocking call).
* `TrustStores`: a thread that is initializing or switching, weakly; whether it
  gets a mutex is part of the property.
* `HitlsLoader`: the worker, the clock, a thread between unlock and `notify_one`,
  the destructor once begun. Not assumed: that a holder releases, that wakeups
  are spurious, that anyone uses the library.
* `ChunkDigest`: the caller and each of its threads.

The other modules are safety only: a call is a straight line without waiting.

### Observations

What the models record of the code, without a run that expects a violation:

* Scene 2-2-2-2 takes the profile of the package into the full digest and re-hashes
  the chunks of the JSON, and chunk digests do not cover the signing block: with
  enforcement on, the caller keeps the cached profile and provision of a package that
  its signer replaced by one with the same entries and another profile. No comment
  promises more of this scene than the integrity of the package; `CacheCurrent` names
  it as its one exception.
* The CRL that a ticket or a re-signature brings replaces the one in memory at once,
  and reaches the file with the next write that another context asks for.
* A transient failure to read `module.json` makes the readers go on with
  `config.json`: `FirstEntryWins` and `ReadIsChecked` therefore speak of calls whose
  reads work (`~lost`) where they say which of the two it is.
* The parameter `info` of `ParseProvision`, `ParseAndVerify` and `ParseProfile` is
  documented as "the parsed app provision structure"
  (`include/provision/provision_verify.h`), but a profile is merged into what is
  there: tags stay, arrays grow, and the checks of required tags can be met by
  values of an earlier profile. `InfoFollowsBoot` says what still holds.
* `BootstrapInfo::Load` refuses fields above 128 MB that `Dump` writes, and a `Load`
  that fails has already changed `version`; scene 1 resets `version`.
* `pread` pads a short read with zeros where mmap refuses, so that the two ways to
  open a package accept different files with a block that reaches past the end.
* The lite search takes an end record without a comment, or else the longest
  comment, the standard one the last record; the lite one reads no comment above
  32767 bytes, needs contents before the block and does not compare the size of the
  directory. Both take the data of a sub-block from wherever its offset points in
  the file, not only from the block.
* The lite verifier keeps the length of a file in an `int32_t` (`app_file.c:60`). From
  2 GiB on the length is negative and nothing is found; from 4 GiB on it is that of a
  part of the file, and the search may find an end record that closes that part and
  with it another block: `LiteAgrees` speaks of lengths that are 32-bit numbers. The
  version of the head is an unsigned number here and a signed one in the standard search.
* In the lite verifier, two signers cannot share an intermediate certificate: the
  second path ends early, and the message is refused unless the second certificate
  verifies without it. Names are compared without case in paths and exactly in
  the trust lists.
* `VerifyRawHash` of the lite verifier copies the content of a signature, of whatever
  length, into a `ContentInfo` that was not cleared; for a short one the comparison
  reads what was never written. It also accepts SHA-384 and SHA-512 (`app_verify.c:340`),
  but the `hash` of a `ContentInfo` has 32 bytes, so that `memcmp` (`:358`) reads past it.
  In both cases the answer depends on memory that the program did not write: the model
  leaves it open (`DigestCut`). All packages signed with SHA-256 have a definite answer.
* When `InitVerify` fails before it opens the file, `APPVERI_AppVerify` closes the
  handle 0. A certificate list that was parsed in part is not freed
  (`LoadCertAndCmpDest`, `ParseCertGetPk`): `NothingKept` allows "certificates".
* The lite parser reads a list of permissions as absent when one element is no
  string or an allocation fails, and takes the appid from the development
  certificate when the release certificate was lost to a failed allocation.

## 4. The proofs

TLC checks the instances above; TLAPS proves these for every value of the
constants that satisfies the named assumptions.

| module | proved | inductive invariant |
| --- | --- | --- |
| `CrlManagerProofs` | every safety property, `NoRollback`, `WriteIsSnapshot`, and that `CrlManager` implements `CrlPolicy` | `Inv` |
| `TrustStoresProofs` | `TypeOK`, `StoresAllOrNothing`, `DebugAgrees`, `TestTrustJustified` | types with `Holding /\ Lists`; `AgreeInv`; `TrustInv` |
| `HapPermissionProofs` | `TypeOK`, `CacheVouched`, `CacheCurrent`, `SavedAgrees`, `QuickAgain` | `PermissionInv` |
| `ChunkDigestProofs` | `TypeOK`, `SlotsHoldTheirChunk`, `HandedOutComplete`, `RefusalExplained`, `NoSlotTwice` | `DigestInv` |
| the same, second part | of `HitlsLoader`: `LoaderTypeOK`, `HoldersAreReady`, `HoldsAreCounted`, `ClosedAfterDelay` | `LoaderInv` |
| the same, third part | of `SigningBlock`: `AcceptedIffFits`, `LiteAgrees` | `SearchInv` |
| `HapVerifyProofs` | `TypeOK`, `DeviceAllowed`, `SourceTrusted`, `ProfileVouched`, `GalleryByTicket`, `IdentityOfSigner`, `ResignJustified` | `IInv` |
| `AppVerifyLiteProofs` | `TypeOK`, `NothingKept`, and that `AppVerifyLite` implements `LitePolicy` | `TypeInv`; `HeldInv`; `Inv` |
| `PermissionRawProofs` | `FirstEntryWins`, `ReadIsChecked`, `InfoFollowsBoot` | `CallInv`; `SceneInv` |
| `LitePkcs7Proofs` | `TypeOK`, `CertOwnedOnce`, `AcceptedIsVouched`, `DepthNotUndercounted`, `PlainIsAccepted` | `TypeInv`, `OwnedInv`, `ScanInv`, `PathInv`, `BuildInv` |

* **CrlManager.** `NewestInMemory` is nearly inductive by itself: a check adds one
  CRL to `known` and installs it if it is newer. `FileNotAhead` and `NoSilentLoss`
  need to know what a write in progress has done: entries that are still to be
  written are missing from the file, the others equal the map, and the map cannot
  change while `crlMtx` is held. The refinement follows step by step: `CrlCheck`
  maps to `Check`, `Crash` to `Restart`, `HapVerifyInit` to `Recover` or a stutter.
  Assumption: `CrlAssumption` (CRLs belong to their issuer, no two at one time).
* **TrustStores.** `StoresAllOrNothing` needs which thread is between which steps of
  the initialization (`Holding`: that thread holds `g_mtx`) and what the lists then
  look like. `TestTrustJustified` needs that a test list is never empty only while
  somebody is in the midst of a switch or has enabled debug mode for the caller:
  a lookup that read `isDebug` as set, or finds it set, is covered. `DebugAgrees` needs
  how far a switch that has met no other has come in each store (`Coming`, `Going`),
  and that switches which meet know it (`Apart`). A switch off that is alone makes both
  stores clean from any state, one on only from stores that agreed.
* **HapPermission.** The properties look at the end of a call, so the invariant has
  to say what every scene knows on its way there (`Stages`), that the data in memory
  is what is saved or what an unsigned package left, which no scene accepts
  (`CallerData`), and that trust and the cached key are in the history (`Trusting`).
  `SuccessWays` lists how a call can succeed; each property is then a matter of
  those ways. `QuickAgain` spans two calls: a success that nothing has disturbed
  leaves data that the next fast call will accept (`Steady`, `Fits`), and the next
  call keeps that on its way (`Again`), also when another thread caches a key
  meanwhile (`FitsKept`). Assumption: `PermissionAssumption` (`None` is no value, the
  sets of packages and signers are of the kind their comments say).
* **HitlsLoader.** `holds` is the number of holders, by `Cardinality` of a finite
  set of threads; a close is scheduled only when that is zero, and while it is
  scheduled `unused + left = Delay`, whence `ClosedAfterDelay`.
* **ChunkDigest.** Each reader owns a run of slots, from its base to its end. The
  slots it has passed are filled, those before it are empty, and its place in the
  source is `CHUNK_SIZE` times its slot (`ThreadPlace`, `CallerPlaced`). Lemmas on the
  arithmetic of chunks and shares (`ChunksCover`, `ShareFits`, `SharesApart`,
  `SharesCover`) say that shares are disjoint and cover the contents; a turn then
  fills slots that are empty and its own (`TurnFits`), and when all threads have
  succeeded the contents are filled (`JoinKeeps`). Assumption: `ChunkAssumption`
  (sizes are numbers, a chunk and the number of threads are positive).
* **SigningBlock.** `WellFormed` speaks of the array as a whole, the code reads it head by
  head, so `SearchInv` says what the rounds so far have established: the call looks at
  the head of the last end record (`HeadKnown`), the blocks read are the first heads
  listed there, each of which fits, with at most one signature (`BlocksRead`), and what was
  read is `SubHeadLen` times their number and the sum of their lengths. A round that goes
  on keeps this (`RoundReads`); a round that fails has found a file that is not of the format
  (`RoundDecides`), because the sum of a prefix with the next length is at most the sum
  of all (`PrefixOfData`). That sum is a fold of the community modules (`DataLength`), and
  no prover here can use an induction theorem over it: `SumsExist` and `DataLengthIs`
  argue by the least counterexample instead, over the number of heads and over the
  size of a subset, with `WFMin` of the library. After the last round the file is of the
  format exactly when the array is filled (`AllRead`). `LiteAgrees` is then about one
  state: with one end record both searches for it end there (`LiteRecord`), so both
  find the same head (`LiteHeadIs`) and the same first head of a type (`FoundIs`), and the
  further checks of the lite verifier on its length cannot fail (`OneOfMany`). A length
  below 4 GiB is kept whole by the conversions or becomes negative (`Conversions`), and
  whatever a file that fits an int has before its end then fits as well.
  Assumptions: `SigningBlockAssumption` (the fixed lengths are positive, the fields of a file
  are numbers of the signs and widths that the code reads them with, `MAX_BLOCK_COUNT` is at
  most `MAX_BLOCK_NUM`, which are 10 and 1024, and a block of the largest size fits an int) and `NoneAssumption` (`None` is no offset, head
  or block). The proof needs no bound on the lengths or the number of sub-blocks.
* **HapVerify.** The properties speak of the end of a call, so the invariant says what
  each step has established, one part per subject: signer, source, profile, device,
  ticket, provision, re-signature (`Established`; `Reached(steps)` means one of these
  steps, or a provision is out). It is stated over `seen` and not over `facts`,
  because a fact may be switched off after the lookup that relied on it; what has
  been seen only grows (`SwitchKeeps`). A failure before the provision establishes
  nothing (`Forgotten`), an end after it changes nothing but the code (`Ends`).
  Assumption: `DataAssumption` (`None` is no value, the sets are of the kinds their comments
  say, the enterprise's flag does not change).
* **AppVerifyLite.** `MayHold` names what may be held at every place of the code. It is
  inductive with `ErrorExits`: an error code is only ever set on the way to an exit,
  and `VerifyBinSign` leaves with one only before `certInfo` is filled in. `TypeOK`
  needs the type of the digests and that chunks are cut off at the end of a section.
* **AppVerifyLite implements LitePolicy.** The policy decides once, at the end of the
  call, what the code decides in some twenty steps, so `Inv` carries to the end what
  each step has found out, one part per subject. `Known`: what the place of the code
  says of the package (`KnownAt`, by stage), and that the two debug flags agree.
  `DigestInv`: the digests so far are those of the chunks of the package in
  order (`Digested`), the loop is where their number says (`ChunksPlaced`), and the
  buffer counted beforehand is exactly full at the end; `PlacesApart` and
  `ChunksAreAll` then show that equal digests mean equal data, whatever
  the chunk size and however short the last chunks are (`CompareAgrees`). `ResultInv`:
  every field that has been read is the field of the text or, after a failure, the
  default of an optional one (`FieldRead`); with the checks that were passed the
  result is one that the policy hands out (`ResultIsAccepted`). `RefusedInv`: an
  error has a `Reason`, which is that a step failed, that the digest is cut, or that
  the policy accepts nothing for this package; each exit refutes a different conjunct
  of `Accepts`. `PolicyStep` maps the steps: `AppVerify` to `Begin`, a step that fails
  on a good package to `Fail`, `CloseFile` to `Accept` or `Refuse`, all else to a
  stutter. Assumption: `LiteAssumption` (lengths are numbers, no section of a package
  is empty, no digest is, a listed signer has one of the two sources and lists, a signer has a
  certificate, `None` is no package and no answer).
  Proving it corrected the policy: a profile with a list of device ids but no type
  of them is read as one without ids, since `GetProfDebugInfo` returns before it looks at
  them. TLC had no such profile; now it has.
* **PermissionRaw.** The scenes replace the bootstrap data and parse the profile in one
  step or do neither, an unused `ProvisionInfo` is empty, and scene 1 only runs with
  a profile that could be parsed; the suffix is a lemma on sequences
  (`SuffixOfConcat`). For the reader, the one fact that matters is `ReaderInv`: a
  directory that was parsed has exactly its records, and the entries that a failed
  attempt leaves behind belong to a directory that never parses. What a name finds is
  then a function of the file, and every stage of the three callers says what it has
  found (`ReadingJson`, `FindingEntries`). Assumptions: `PermissionRawAssumption`,
  `ZipReaderAssumption` (a file is a number of entries and a sequence of records).
* **LitePkcs7.** The list and the paths partition the certificates read (`OwnedInv`),
  which unlinking one and appending it keeps, and a path that grows has taken fewer
  certificates than the list had (`ScanInv`). `PathInv` says what the call knows of each
  signer that its loops have passed: the path begins with the certificate it names,
  mbedTLS has verified it, the signature fits. A verified path gives a chain of the
  message without repetition, so of at most its length (`AcceptedIsVouched`), and, when
  only roots bear their own names, one no longer than the depth that is counted
  (`DepthNotUndercounted`). `PlainIsAccepted` goes the other way: names are unique, so the
  path that is built by names (`BuildInv`: linked, and ended only where the list has no
  issuer left) contains every chain that starts with the signer's certificate; the
  least counterexample of a chain outside the path leads to a contradiction. `BuildInv`
  says it of every signer whose path is built (`PathDone`), and `PlainOthers` that with
  several signers no other path holds what this one could want, which is what
  `Uncontested` is for. A path beyond the limit leads to no root within it
  (`PlainTooDeep`), so that a refusal by the trust lists is justified.
  Assumption: `LitePkcs7Assumption` (messages have certificates and at least one signer,
  the limit of the depth is at least 2).

Every invariant and every action property of the runs is a theorem. Only
model-checked are the liveness properties (`MutexReleased`, `InitReturns`,
`UnusedIsClosed`, `DestructorReturns`, `CallReturns`), since fairness and `ENABLED`
are out of the prover's reach, and the comment that a run refutes.

## 5. What is not modelled

* Parsing of JSON, ASN.1, X.509 and zip, signatures and digests themselves: pure
  functions, mostly of OpenSSL, openHiTLS, cJSON and zlib. Their outcome is a choice.
* `Dump` and `Load` of `BootstrapInfo`: conversions over byte buffers, whose edges
  lie at 128 MB.
* The entry points that only parse, loading the ticket sources (done once, never
  retried), the certificate directory of the enterprise (a set, `LocalCerts`).
* A file that changes while a call reads it: every model lets it change between
  calls only. The lite verifier has one caller thread, as it has no locks.
* Logging, result strings, header-only data holders, tests.

A crash of the process is modelled where something persists (`CrlManager`); for the
other modules it is a new start from `Init`.

## 6. Plan

Done, in this order because trust comes first: (1) `CrlPolicy`, `CrlManager`, proofs;
(2) `TrustStores`, proofs; (3) `HapVerify` and the comment; (4) `HitlsLoader`, proofs;
(5) `ChunkDigest`, proofs; (6) `HapPermission`, proofs; (7) the lite
verifier, `LitePkcs7`, `LitePolicy` and `AppVerifyLite`; (8) `SigningBlock`, both
searches; (9) `ZipReader` and `PermissionRaw`; (10) `HapVerifyProofs`,
`AppVerifyLiteProofs`, `PermissionRawProofs`.

(11) `DebugAgrees`, `FirstEntryWins`, `ReadIsChecked`, the whole of `LitePkcs7`, and the
refinement of `LitePolicy` by `AppVerifyLite` as theorems.

(12) `AcceptedIffFits` and `LiteAgrees` of `SigningBlock` as theorems.

To come: `Bootstrap`, `Dump` and `Load` as operators on lengths, round trip and
rejection.
