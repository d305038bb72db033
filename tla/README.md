# chiffre-aes: TLA+ models and proofs

This directory specifies the `chiffre-aes` encryption tool (`core/` and `cli/`
of the repository) in TLA+, checks the specifications with TLC on small
instances, and proves theorems about them with TLAPS.

Contents: [1 Inventory](#1-inventory) · [2 Plan](#2-plan) · [3 Modules](#3-modules)
· [4 Runs](#4-runs) · [5 Proofs](#5-proofs) · [6 Findings](#6-findings)
· [7 Known restrictions](#7-known-restrictions)
· [8 What is abstracted, assumed and left out](#8-what-is-abstracted-assumed-and-left-out)

## 1 Inventory

The program turns files into authenticated `.enc` containers and back. It is
synchronous: no threads, no async, no daemon. What is hard about it is not
scheduling but *what the rest of the world does between two of its steps*: the
source file changes, storage returns something else than was written, the disk
fills up, a callback cancels, another process uses the destination, the process dies.

| Component | Code | State | Operations | Correct when |
|---|---|---|---|---|
| Container layout | `format.rs` 113–241, 507–538 | header size fields | count chunks, validate a header, length of chunk *i* | encoder and decoder agree; chunks tile the plaintext; nothing overflows |
| Headers, keys, nonces, AAD | `format.rs` 34–56, 113–505; `crypto.rs` | header fields, derived key | parse, derive key, derive nonce, bind chunk to header and position | no (key, nonce) pair is used twice; a chunk opens only where it was sealed |
| Decryption reader | `format.rs` 1123–1340 | position, header, key, chunk index, bytes written | one pass over the container, chunk by chunk into a sink | only authentic bytes, in order, from one archive; `Ok` only for an intact container; every input gets an answer that names the right culprit |
| Decryption to a file | `format.rs` 809–847, 1034–1069 | temporary file, output | temp → reader → flush → rename | output untouched until all is authenticated; errors leave nothing |
| Encryption to a file | `format.rs` 540–801, 955–1029 | temporary file, header, chunk buffer | measure, header, encrypt chunks, flush, read back and verify, rename | output untouched until a verified whole container exists; unchanged source is kept byte for byte |
| In-memory API | `format.rs` 857–934 | output buffer | the same without files | same promises, and the reserved buffer never reallocates |
| Key inspection | `format.rs` 1071–1119 | — | which API and which recipients a container calls for | agrees with what the API then accepts |
| Nonce sequence | `crypto.rs` 240–309 | counter | next nonce | never twice the same; exhaustion is an error |
| Archive building | `archive.rs` 104–262 | entry list, warnings | walk the selection, write entries | what is archived can be extracted to the same tree |
| Archive extraction | `archive.rs` 264–503, `compress.rs` | budget, tree | read, validate, decompress, write, set modes | stays in the destination and within the limits |
| Pipeline | `pipeline.rs` | temporary archive, temporary directory, destination | build→encrypt; decrypt→extract→publish | destination only modified after complete extraction; temporaries gone |
| Password policy | `password_policy.rs` | — | length, score, acceptability, order of the rules | only acceptable passwords encrypt |
| Command line | `cli/src/main.rs` | terminal mode | parse arguments, prompt, call the pipeline | echo restored, checks in the documented order, exit status true |

**How they interact.** All calls are direct. The pipeline builds an archive in a
temporary file next to the output and has it encrypted; in the other direction
it has the container decrypted to a temporary file next to the input, extracts it
to a temporary directory next to the destination, and moves it there. Encryption
calls the decryption reader on its own output before it publishes it. The caller
is called back after every chunk (`on_progress`) and may cancel. The file system
is shared with everyone else.

**Which behaviours are hard to test** is listed, line by line, under `hazards`
in `PROJECT.json`, each with the properties that watch over it, or why none does.

## 2 Plan

In order; all of it is built.

1. ✓ `EncLayout`, `ChunkWalk` — the arithmetic everything else stands on, over
   *all* headers of a small `u64`; proofs for every width.
2. ✓ `EncCrypto`, `EncContainer`, `AuthenticRelease`, `DecryptReader`,
   `ContainerDamage` — the reader against arbitrary damage; it implements the
   abstract `AuthenticRelease`; proofs for every input.
3. ✓ `AtomicReplace`, `EncryptFile`, `DecryptFile` — publication of output files;
   both implement the abstract `AtomicReplace`. Proofs for both.
4. ✓ `PublishDirectory`, `DecryptToDir` — restoring a selection while others use the
   destination; `DecryptToDir` implements the abstract `PublishDirectory`. Proofs.
   `EncryptPaths` — the other direction, implementing `AtomicReplace` once more.
5. ✓ `FileTree`, `ArchiveBuild`, `ArchiveExtract`, `ArchiveRoundTrip` — a tree that
   changes while it is walked, hostile archives, limits at their exact boundary, and
   the one after the other: what is extracted is what was selected. Proofs for both ends.
6. ✓ `NonceSequence`, `KeyDispatch`, `DecryptBytes` (with proofs; those of the last two
   go with the reader's).
7. ✓ `PasswordPolicy`, `CommandLine` — echo and the order of the checks. Proofs.

What could still be added: a module for `encrypt_bytes` (its steps are those of
`EncryptFile` without files).

Modules with theorems use no RECURSIVE operator; the recursion of the tree walk is an
explicit stack, and its specification (`Walked`, `IsArchiveOf`) set comprehensions.

## 3 Modules

| Module | What it is |
|---|---|
| `EncLayout` | Pure operators: chunk counts, header consistency, chunk lengths, progress percentage |
| `ChunkWalk` | The chunk loop shared by the four functions that have it, over every header |
| `EncCrypto` | Header fields and their validation, keys, AAD, as terms |
| `EncContainer` | Containers as sequences of wire symbols; which boxes open where |
| `AuthenticRelease` | **Abstract**: what opening a container promises |
| `DecryptReader` | `decrypt_reader` / `decrypt_stream_v2`, one action per step |
| `ContainerDamage` | The answers of the table of `FORMAT.md` §6, for any damage; and one set of inputs per row, for TLC |
| `DecryptBytes` | The buffer `decrypt_bytes` reserves, over the reader |
| `AtomicReplace` | **Abstract**: what an operation promises of its output file |
| `EncryptFile` | `encrypt_file*`, both versions, with its surroundings |
| `DecryptFile` | `decrypt_file*` around the actions of `DecryptReader` |
| `FileTree` | Directory trees, and what `create_dir_all`, `write` and `set_permissions` do to them |
| `ArchiveBuild` | `build_archive`: walk, list, write, while others change the tree |
| `EncryptPaths` | `encrypt_paths`: temporary archive, build, encrypt, clean up |
| `ArchiveExtract` | `extract_archive_with_limits`, field by field |
| `ArchiveRoundTrip` | Composition: `EncryptPaths`, then `ArchiveExtract` on what was sealed, or on an archive from elsewhere |
| `PublishDirectory` | **Abstract**: what restoring promises of a destination directory others use |
| `DecryptToDir` | `decrypt_to_dir`: decrypt, extract, `finalize_extraction`, clean up |
| `NonceSequence` | `NonceSequence::new` / `next`, bit by bit |
| `KeyDispatch` | `inspect_key_requirement` and the call its answer leads to, over `DecryptReader` |
| `PasswordPolicy` | The rules for a new password |
| `CommandLine` | `main`, `run_check_password`, `read_password`, the terminal mask |
| `*Proofs` | Theorems and proofs: `EncLayoutProofs`, `ChunkWalkProofs`, `DecryptReaderProofs` (also `ContainerDamage`, `DecryptBytes`), `DecryptFileProofs` (also `KeyDispatch`), `EncryptFileProofs`, `DecryptToDirProofs`, `ArchiveProofs` (both ends and their composition), `SecretsProofs` (`NonceSequence` and `CommandLine`) |
| `MC*` | Small worlds for TLC |

Correspondence of state and actions (line by line in `map` of `PROJECT.json`):

* **DecryptReader.** `pc` is the point the function has reached: `header` (before
  `from_bytes`/`from_reader`), `tag`, `key`, `authenticate`, `chunk` (top of the
  `while`), `progress` (callback), `trailing`, `size`, `done`. `pos`, `index` and
  `total_written` are the reader's position and the locals of the same name;
  `sink` is what `write_all` has delivered. Every `?` and `return Err` is an action
  that ends in `Return`. v1 and v2 differ in `Parses` and in `ParamsRefused`/
  `KeyFor`, hence `caller.version`.
* **EncryptFile.** `pc` runs through recipients check and `fs::metadata` (`check`),
  key and header (`key`), temporary file (`create`), header and tag (`header`), the
  inner read loop (`read`), callback (`progress`), `flush`, `verify`, `persist`,
  destructors (`drop`). `chunk` is the read buffer, `ahead` what the `BufReader`
  holds in addition: with short reads it reads into the next chunk, and hands those
  bytes out later even if the file has changed since. Each byte read is
  `<<version of the source, position>>`.
* **DecryptFile.** `stage` is the function's progress around the reader; while it is
  `decrypt` each step is one of `DecryptReader`.
* **ArchiveBuild.** `stack` is the recursion of `walk_dir`: per open directory the path,
  the name in the archive and the set of children still to visit, which are taken in the
  order of their names (`IsFirst`). `step` is `walk`
  (`symlink_metadata` of the next child), `list` (`read_dir`), `head` (path, type and mode
  of an entry), `body` (`fs::read`), `done`. `source` remembers the tree as the call found
  it, for the properties only; `OthersChange` acts on `fs` between any two steps.
* **EncryptPaths.** `stage` is the function's progress around the builder. The temporary
  archive is a node of the very tree that is walked (`Tmp`).
* **ArchiveExtract.** `pc` is `count`, `head` (of an entry: path, type, mode, size, and
  their checks in this order), `dir`, `parent` (`create_dir_all` of the parent), `content`
  (`read_len_incrementally`, block by block), `unpack` (`decompress_bytes_capped`), `file`
  (`fs::write`, `set_permissions`), `done`. `total` is `total_extracted`; `held` and
  `reserved` are length and capacity of the content buffer.
* **DecryptToDir.** `pc` runs through `create` (temporary archive), `decrypt`, `make dir`,
  `extract`, then `finalize_extraction`: `exists`, `rename` (whole directory) or `list` and
  `merge` (item by item), and the destructors `drop dir`, `drop archive`. `at[i]` is what
  lies under name *i* of the destination: nothing, an item of ours, or something of others'.
* **NonceSequence.** `base` and `next_counter` are the fields; `handed` is history.
* **KeyDispatch.** `at` is `preamble` (first opening of the path), `header` (second), `choose`
  (the caller's), `decrypt` (third opening, then all the steps of `DecryptReader`, failing
  reads and writes and a cancelling callback included). Any of the openings may fail
  (`InspectionFails`, `OpenFails`). `result` is the answer of the reader; the flush and the
  rename that follow are those of `DecryptFile`.
* **CommandLine.** `pc` is where `main` stands: `mask`/`type`/`unmask` are one call of
  `read_password`, `asked` says which one; `tty` is the terminal's mode, `saved` the guard's.
* Definitions introduced by "Seeded fault" are plausible mistakes. They are part of
  no specification: putting one in the place of the definition that follows it must
  make TLC report the property `mutants` names, which shows that the property
  depends on the code being the way it is.

**Granularity.** `DecryptReader` works on single bytes (any cut, any altered byte).
`EncryptFile` works on pieces (header, tag, one box per chunk): the verification
that reads a container back is summarised by `Verifies`, which `OkExactlyIfIntact`
of `DecryptReader` justifies piece by piece. `EncryptPaths` and `DecryptToDir` take one step
for the call that replaces a file, which `ReplacesAtomically` of `EncryptFile` and
`DecryptFile` justifies; `DecryptToDir` keeps of the tree only its top level, which is what
`finalize_extraction` moves, and `ArchiveExtract` is the extraction in detail.

## 4 Runs

| Run | World | Shows |
|---|---|---|
| `chunk_walk` (3,703 states) | every `chunk_size` in 0..6, every count and size of a 4-bit `u64` | header validation is exact and accepts what encryption declares (`HeadersAreChecked`); the loop tiles the plaintext (`CutsAreAligned`, `WalkCoversPlaintext`) and ends (`WalkEnds`) |
| `decrypt_file` (43,985) | 5 archives, 4 callers, every damage of `FORMAT.md` §6 plus cuts at every byte and every field change; failing calls, a cancelling callback, a kill | what is released (`ReleasedIsAuthentic`), when `Ok` is answered (`OkExactlyIfIntact`), who is blamed (`BlameIsRight`, `AnswersAreTheTable`), that position, count and progress agree (`CountersAgree`), that the buffer of `decrypt_bytes` never grows (`NeverReallocated`), what becomes of the output (`OutputIsAuthentic`, `ErrorLeavesNoPlaintext`), termination (`FileFinishes`), refinement of `AuthenticRelease` (`KeepsPromise`) and of `AtomicReplace` (`ReplacesAtomically`) |
| `encrypt_file` (312,848) | sources of 0–4 bytes in chunks of 2, one change by others, 7 requests of both versions | what the output may hold and when (`PublishedIsWhole`, `FailureLeavesNoTrace`), `NoncesNeverRepeat`, `OnlyStorageFailsVerification`, termination (`Finishes`), refinement of `AtomicReplace` |
| `archive` (77,360) | 10 selections, one change by others at any moment, then extraction; and some 400 archives from elsewhere | an undisturbed selection is archived as announced (`OutputIsTheSelection`), others disturb only what they touch (`WalkIsKept`), the archive in clear goes (`ClearArchiveIsGone`), the originals come back (`OriginalsRestored`); limits are exact (`BudgetKept`, `AnswerIsExact`); hostile archives are contained (`HostileIsContained`); both directions return (`Returns`); refinement of `AtomicReplace` |
| `decrypt_to_dir` (158,584) | up to 3 items, one of them a directory, any destination, others act twice, every call fails, a kill | the destination is untouched until extraction has ended (`UntouchedUntilExtracted`), what others have is kept (`TheirsIsKept`), answers are true and temporaries gone (`ReturnIsClean`), refinement of `PublishDirectory` (`PublishesAsPromised`) |
| `nonce_sequence` (576) | a 4-bit counter, every base, to exhaustion and past it | `NoncesAreFresh`: no nonce twice, none of a header tag, none after a refusal |
| `key_dispatch` (36,194) | sound, altered and stunted files, replaced twice between the three openings, any call failing | what the inspection says can be done, but for I/O errors and cancelling (`HintCanBeFollowed`); it is true of one file and harmless to another (`HintIsOfOneFile`) |
| `command_line` (16,574) | every command and argument count, passwords on both sides of each threshold, terminal or pipe, errors, signals | `EchoIsHandled`, `PolicyIsApplied` |
| `header_change`, `power_loss`, `same_name_merge`, `v2_password` | the worlds above | expected violations, see [6](#6-findings) |

**Bounds, and why they are enough.**
*Sizes.* Chunks of 2 bytes with plaintexts of 0 to 5 give an empty chunk, a short
last chunk, a full last chunk, one, two and three chunks; the arithmetic for other
sizes is what `ChunkWalk` checks exhaustively and `ChunkWalkProofs` proves for all.
`U64Max = 15` makes `S + C` and `C * N` overflow within the enumerated headers.
*Containers.* Three v1 archives under one password (different salts: different keys) and
two v2 archives under one raw key whose base nonces are XOR-close, so that chunk *i* of
one and chunk *j* of the other share key **and** nonce: there only the AAD keeps them
apart. In reality 96-bit nonces make such neighbours improbable; the model does not
lean on that.
*Changes.* `MaxChanges = 1`: one change between measuring and reading, or during
reading, already separates "version measured" from "version read" (for the archive:
"node listed" from "node read"); the second version may be shorter, longer or equal in
size, of another sort, or gone. The invariants speak of each byte, or each path, on its
own, so more versions add no new kind of state. `MaxMeddling = 2` lets others make the
destination and remove it again. `MaxReplacements = 2` puts a different file before each of
the three openings.
*Trees.* Two levels below a selected directory (three in the selection whose paths exceed
`MaxPathLen`), a link, a name that is not UTF-8, a directory its owner may not write to,
the directory of the output, one name selected twice (in two directories), and one path
selected twice.
*Limits.* Contents of 0, 2 and 3 bytes against `MaxTotal = 5`: sums of 5 (accepted) and 6
(refused); entries of 4 blocks (accepted) and 5 (refused); 6 entries and 7. The content that
is no sound stream gives 3 bytes before the decoder notices, so that after 2 bytes it is
malformed and after 3 it exceeds the limit.
*Symmetry* is not used: the base nonces and names are numbers, and some properties are temporal.
`CHECK_DEADLOCK FALSE` everywhere: the functions return.

**Fairness.** Only weak fairness of the steps of the function itself (`Proceed`;
`FileProceed`; in the round trip `PathsProceed` for the encryption and `ExtractProceeds` for
the extraction): a synchronous function that can take a step takes one. Failures,
cancellation, changes by others, kills, signals and power failures are never relied upon, nor
is the user's typing. The steps of a function are enabled until it returns, but for the read
of a fifo, which waits for its writer: `Returns` allows this wait, and only this one.

## 5 Proofs

Checked by TLAPS for every value of the constants: any chunk bounds, any width of
`u64`, any set of archives, any tag length, any input sequence, any nonce derivation
(for encryption: any that is injective in the counter), any destination, any limits.
The assumptions are the named `ASSUME`s of `EncLayout`, `EncContainer`, `DecryptReader`,
`EncryptFile`, `FileTree` (no two names come before each other), `ArchiveBuild` (trees map paths
to nodes, a path lies in a directory of its tree, a directory has no content of its own, and
the root is not selected), `EncryptPaths` (a temporary file is a new
one, whose random name nobody has selected), `ArchiveExtract`, `ArchiveRoundTrip` (what this
program has compressed it can decompress), `DecryptToDir`, `KeyDispatch`, `NonceSequence`,
`PasswordPolicy` and `CommandLine`; TLC evaluates them in the runs.

* `EncLayoutProofs`: lemmas on quotients and products. `ProductNeverOverflows`: the
  `checked_mul` that ends `from_bytes` cannot fail once the count has been checked, for
  `C * ceil(S/C) <= S + C - 1`, which the `checked_add` has bounded.
  `DeclaredHeaderAccepted`: encoder (`div_ceil`) and decoder (`(S + C - 1) / C`) agree.
  `ChunkIsACut`: chunk *i* is the interval `[C*i, C*i + ExpectedLen)`.
* `ChunkWalkProofs`: the invariants of the loop. Inductive part: `offset = C * index`
  before the end, `index < total_chunks`, and the header is one that was accepted.
* `DecryptReaderProofs`: the inductive invariant `IInv` ties together, for each `pc`, the
  position in the input, the bytes written and *which archive the header tag has
  identified*. The heart of it: a header box opens only under the AAD of its header,
  headers are unique to archives (`FreshHeaders`), so from `authenticate` on there is one
  archive `a` with `header = HeaderOf[a]` and `key = KeyOf(a)`. A chunk box that opens under
  `ChunkAad(header, index)` can then only be `<<a, index>>`, **whatever the nonce derivation
  does**: nonces play no part in authenticity. So `sink` is the prefix of
  `Plaintext(a)` of length `PlainBefore(header, index)`, and the input up to `pos` is the
  container's. `BlameIsRight` and `IntactOpens` need the converse direction, that a box in
  its place does open. `CountersAlwaysAgree` adds the bound on the progress percentage.
  `KeepsItsPromise` is the refinement, step by step.
  `AnswersAlwaysTheTable` is the table of `FORMAT.md` §6 for any damage, not only the listed
  ones: an input that begins like the container of `a` and stops early can only fail for want
  of bytes, and any other that has the header of `a` has a first box that does not open.
  `BufferNeverOutgrown`: what has been written is at most what has been read
  (`BytesInv`) and at most what the header declares, which is the smaller of the two
  the buffer was reserved for.
* `DecryptFileProofs`: `FileInv`, on top of the reader's invariant: the output is as it was
  until the reader has answered `Ok`, after which the sink no longer changes. For
  `KeyDispatch`, the reader's invariant does not depend on how its input was chosen, so it
  holds of whatever lies at the path at the third opening; what is added says which of the
  files seen each part of the answer is of, and, while nobody replaces the file, that preamble
  and header are of the same one (`HintCanAlwaysBeFollowed`, `HintIsAlwaysOfOneFile`). Both
  hold with every failure of the decryption and with a callback that cancels it: these add
  the answers `Io` and `Cancelled`, and no other.
* `EncryptFileProofs`: none of `EncryptFile`'s invariants is inductive by itself, because what
  the verification compares the container with is the *header*, not what was read.
  `EncryptInv` has the missing links: the header is one the decoder accepts for the size
  that was measured (`Begun`, from `DeclaredHeaderAccepted`); the bytes read, also those the
  `BufReader` has read ahead, are in their place and, if the source was left alone, of one
  version (`ReadSoFar`); box *j* is the box of chunk *j* - 2 and holds that chunk
  (`SealedSoFar`); the temporary file holds the header, noise and sealed boxes, and without a
  storage error exactly those (`WireSoFar`). A container that verifies then consists of sealed
  boxes, and the AAD says which one is where: so `PublishedIsWhole`, whatever storage does.
  Conversely the boxes in their order do verify, hence `OnlyStorageFailsVerification`.
  Two facts on the surroundings are assumed (`EncryptAssumptions`): a file has at most
  `i64::MAX` bytes, so that the count of its chunks can be computed in a `u64`, and
  `derive_nonce` (an XOR) never gives two counters the same nonce.
* `SecretsProofs`: for nonces, `NonceInv` says that the *i*-th nonce is the XOR of the base with
  *i* - 1; a XOR determines the counter, bit by bit (`DerivedInjective`), and the counter
  stops one short of the last, where it has been if ever a call was refused
  (`RefusalForGood`). For the command line, the invariant says at each point which
  mode the terminal is in and what the guard has saved (`EchoAlwaysHandled`), and what has been
  typed and accepted before a call is made (`PolicyAlwaysApplied`).
* `DecryptToDirProofs`: `UntouchedUntilExtracted` is not inductive, since it says nothing of
  what is about to be moved. `IInv` adds where the items are: whole in the temporary
  directory from `exists` on until each is moved (`ExtractedInv`), in the destination only
  if moved (`DestinationInv`, `MovedInv`), and which temporaries each point of the function
  may leave (`TemporaryInv`). `PublishesAsItPromises` is the refinement: each step is one of
  `PublishDirectory` or a stutter, those of others included. How often others act, and how
  many items there are, does not matter.
* `ArchiveProofs`, extraction: for any archive, any limits and any destination without links.
  `EInv` says that the tree is always one in which each path is made of names and lies in a
  directory (`GoodTree`), that each mode is the one found there or a sanitized one
  (`SafeModes`), that the path at hand has passed the check (`PlaceInv`), and that the
  buffer's capacity follows what has been read: hence `HostileIsAlwaysContained`.
  `VerdictInv` says that no entry done has a defect and that `total` is what they cost
  together, so that an answer is that of the first defect; `MadeInv` explains every node of
  the tree by the last entry with its path, or as a directory on the way to one
  (`AnswerAlwaysExact`, `BudgetAlwaysKept`). The sum over the entries is a recursive function;
  that it is one at all, and a number, is shown by least counterexamples
  (`NatInductionOnSet`, from well-foundedness), since the induction rule itself is out of reach.
* `ArchiveProofs`, building: whatever the tree, the selection and what others do to the tree.
  `WalkIsKept` is not inductive: it speaks of the end. `AccountedInv` says where each file that
  must be in the archive is at any moment: in a selected path not looked at yet, below an
  open directory that leads to it and has the next name of the way still to visit (or is about
  to be listed), or in the list. It is kept because the walk finds on an untouched way what
  the call found there (`UntouchedSeen`), and because a step never makes an untouched path out of
  a touched one as long as others act once (`UntouchedBefore`). `WrittenInv` ties what is
  written to the list, `ContentInv` to the contents, and `ParentsInv` has each directory listed
  before it is entered.
* `ArchiveProofs`, composition: what `encrypt_paths` seals is an archive that extraction may
  begin with (`HandOverBegins`), so that everything said of extraction holds behind it too
  (`BothEndsAreSafe`); and `StageInv` gives `ClearArchiveIsAlwaysGone` and the refinement
  `PathsReplaceAtomically`.
* `ArchiveProofs`, there and back (`OriginalsAreAlwaysRestored`), in three parts, none of
  which the property itself says.
  *What is archived.* While nobody changes the tree it is as the call found it, but for the
  temporary archive (`TreeIsAsFound`); so each entry of the list and each open directory is
  on a walk of the original tree (`FoundInv`), and each entry written has the original's
  content and mode (`WholeInv`). With `AccountedInv`, which says that none is missed, the
  entries of a complete archive are exactly the originals (`OriginalsAreArchived`,
  `OutputHoldsTheOriginals`).
  *In which form.* `UniqueInv`: where the selected names differ, no two entries have one
  path, because no entry of the list lies below what an open directory has still to
  visit. With `ParentsComeFirst` the archive is then `Orderly`: every path is new, and its
  directory has been made, with a mode that lets it be written to.
  *What is extracted.* `RestoreInv`: after *n* entries of an orderly archive a directory that
  was empty holds what these stand for and nothing else, and each directory in it can be
  searched. So the next place is always free and can be made (`NextPlace`, `NeverRefused`),
  and the first defect can only be a limit (`OrderlyVerdict`).
  The proof needed what the run's few names could not show: that the name of the temporary
  archive is not among the selected ones (`PathsAssumption`; it is random).

* `ArchiveProofs`, the order of the entries and the warnings (`OutputIsAlwaysTheSelection`).
  `IsArchiveOf` counts: each item selected is entered at the place one behind those that come
  before it. The proof shows that the list is increasing and complete, for then the *n*-th
  entry has *n* - 1 before it (`Places`). What makes it increasing is said by `OrderInv` at
  every moment of the walk: open directories are nested, each one before what the directories
  around it have still to visit (`OpenInv`); and each entry has an *owner*, the selected path
  on whose walk it was met, such that entries come in the order of their owners, those of one
  owner in the order of the walk, and each before every child still ahead (`InOrder`). It is
  asymmetric because no two paths come before each other (`PrecedesOnce`). Each path to be met
  is listed or warned of (`Handled`) or still ahead (`LeftToDo`), and what has been warned
  of belongs to the selection (`WarnedInv`), so at the end nothing is missing from either.
  A path that is selected twice is why entries need owners: it is entered twice.

**Only model-checked.** Liveness (`WalkEnds`, `FileFinishes`, `Finishes`, `Returns`), which is
beyond this prover. Every invariant, every action property and every refinement that the
passing runs check is stated by a theorem.

## 6 Findings

Four places where the documentation says something else than the code does; each has
a run that shows it.

* `header_change`: `FORMAT.md` §6 announces `WrongPassword` for any altered header field.
  Fields that fail validation are refused earlier, as `InvalidHeader` or `Crypto`.
* `power_loss`: `FORMAT.md` §8 excludes a partial file under the final name. That holds
  while the machine keeps running; without an `fsync` before the rename it does not
  hold across a power failure.
* `same_name_merge`: the comment of `finalize_extraction` (`pipeline.rs:181`) and
  `README.md:416` say that merging into an existing destination fails where an entry of the
  same name is. On Unix `rename` replaces a file by a file and an empty directory by a
  directory without a word; it fails only for another sort or a directory with content
  (`TheirsIsKept` says exactly this much).
* `v2_password`: `FORMAT.md:641` says that a file of version 2 with `key_source = 0` behaves
  as one of version 1, and `inspect_key_requirement` asks for a password. The functions that
  take a password refuse every version but 1 as `InvalidHeader` (`format.rs:166`). No
  encryption of this program produces such a file.

## 7 Known restrictions

Behaviour of the code that limits what the properties can claim; no documentation says
otherwise, so none of it is a finding. Each is visible in the models, as the precondition of
the property named.

* A file replaced by a link after the walk has classified it is read *through* the link
  (`archive.rs:255`; the module comment at `archive.rs:20` speaks of links met by the walk).
  `WalkIsKept` only speaks of what nobody changed.
* What is neither a link nor a directory is listed as a file; reading a fifo waits for a
  writer (`Returns`).
* Two selected paths with the same last name give two entries of one path, of which
  extraction keeps the later (`archive.rs:156`, `archive.rs:377`). `OriginalsRestored` asks for
  different names; `AnswerIsExact` says that the last one wins.
* A directory gets its mode before its children are made (`archive.rs:344`): the contents of
  a directory its owner may not write to cannot be restored by an unprivileged user.
  `Restorable` asks for writable directories.
* The mode of a directory that vanishes between walk and writing is recorded as `0o644`
  (`archive.rs:451`); if it has come back with children by the time of extraction they
  cannot be made in it. `OriginalsRestored` speaks of undisturbed walks.
* An output inside the selection: its directory's temporary archive is walked too, and has
  an entry in itself (`pipeline.rs:82`). `OutputIsTheSelection` asks for an output elsewhere.
* A cut at a chunk boundary is detected by the loop, which misses the next chunk, before the
  final comparison of sizes that `FORMAT.md` §6 mentions; that comparison never fails
  (`FinalSizeCheckNeverFails`). The answer is the announced one.
* A source rewritten *while* it is read gives a container of a mixture of versions, which
  is sound as a container; the code does not detect it and `PublishedIsWhole` does not
  claim it.
* A kill, or a signal at the prompt, runs no destructor: temporaries stay (for decryption and
  archives: in clear), and the echo stays off. The properties speak of functions that return.
* The builder enforces none of the limits of extraction and casts the number of entries to a
  `u32` unchecked (`archive.rs:160`): an archive can be made that its own extraction refuses
  (`OriginalsRestored` allows `LimitExceeded`).

## 8 What is abstracted, assumed and left out

* **Cryptography is symbolic.** A box opens only if it was sealed under the same key,
  nonce and AAD; Argon2id and SHA-256 are injective. Random salts and base nonces
  are such that no two archives have equal headers.
* **The header is one wire symbol** carrying its fields. A partly present header is an
  absent one (both are `Truncated`); altered bytes are altered fields. An alteration of a
  length field of a v2 header that makes the reader take a different number of bytes for the
  header is not distinguished from one that does not; neither authenticates. `KeyDispatch`
  also has headers that stop after the preamble.
* A v1 reader given less than its 63 header bytes of a v2 container answers `Truncated`
  where the model says `InvalidHeader`; no property depends on it.
* **Storage** may keep something else of each piece written (another content, nothing). It
  errs when written to, not between verification and rename; verification reads
  through the page cache and proves nothing about the medium.
* A panic of the callback unwinds like an error.
* **Trees.** A link carries what reading through it gives; directories reached through a link
  are not traversed, nor does a destination contain links (an unpacked archive makes none).
  The user is not privileged. Permissions are the owner's three bits and those
  `sanitize_mode` clears; `set_permissions` may fail, which the code ignores. The length of a
  path is counted in names, sizes in blocks of `READ_CHUNK_SIZE`. What a failed `fs::write` leaves is one
  thing, `NoContent`. The mask on modes is that of Unix, and so are `rename` and the
  terminal; the Windows variants are not modelled.
* **Archives** are given as the sequence of fields the parser finds; how a field is coded in
  bytes is not modelled. Bytes after the last announced entry are not read.
* **Compression** is its two lengths and whether the stream is sound; deflate is a
  third-party crate. So is zxcvbn, whose score is a constant function; the wording of
  warnings, suggestions and messages is left out.
* **In-memory API.** `decrypt_bytes` is the reader with a sink that cannot fail, plus
  `DecryptBytes`. `encrypt_bytes` has no module of its own: it is `encrypt_stream` and the
  verification on memory.
* The process's three openings of one path in `KeyDispatch` each see one file; a file that is
  rewritten in place while it is read is the reader's arbitrary input.
* Tests, vectors, the fuzzing and build scripts are not part of the program.
