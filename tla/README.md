# TLA+ models and proofs of the Vajra forensics platform

Vajra acquires disk images as evidence, keeps a case vault with an audit log
and a chain of custody, recovers data from images, and erases media.  The
code is a Rust workspace (`src/crates`), driven by a command line
(`vajra-cli`) and a desktop shell (`vajra-tauri-app`).  This directory holds
TLA+ models of it, the TLC configurations that check them, and theorems that
TLAPS checks.

Run a model with `tlc -config X.cfg M` and a proof with `tlapm M.tla`.
`PROJECT.json` maps every definition to the lines it is translated from, and
lists the runs, the hazards and the theorems.

## 1. The system

### 1.1 Components

| Component | State it keeps | Operations | Talks to |
|---|---|---|---|
| `vajra-acquire` engine | position, bad-sector map, rolling hash (in memory); checkpoint (in the vault) | `acquire`, `resume` | device, image writer, vault, audit chain, custody tracker |
| `vajra-image` RAW writer | the image file behind a `BufWriter` | create, open for resume, write blocks, finalize | engine |
| `vajra-case-db` vault | one SQLite file (SQLCipher): cases, evidence, operations, images, custody events, audit log, reports | one method per statement, each taking the connection lock for itself | everything |
| `vajra-audit` chain | `audit_log` rows | `append`, `verify_entries`, `export_anchor`, `verify_anchor` | vault; called by CLI, engine, report generator |
| `vajra-custody` tracker | `custody_events` rows, owner and location columns of the item | `record_event`, `get_history` | vault; called by CLI and engine |
| `vajra-erase` | gate tickets and tokens, sanitization passes, verification layers, certificate | gate begin/finalize, execute, verify | device, carving pipeline |
| `vajra-tauri-app` | job map and gate registry behind mutexes, worker threads | start/poll/cancel acquisition, gates, cases, reports, erasure of a file | engine, gate, vault, report generator, eraser |
| `vajra-audit` reports | none (a package in the making) | read the vault, sign, append an audit entry, store a row, write a file | vault, chain |
| `vajra-verify` | none | verify a report file | report files |
| `vajra-file-erase` | a file on its way to being gone | local: overwrite, sync, truncate, unlink; pipeline: overwrite extents, zero metadata, scan | host's file system; device and parsers |
| `vajra-carve` | map of claimed sectors, list of findings | tiers 1 to 3 | parsers, readers; called by CLI and layer 5 |
| `vajra-fs-fat`, `-ntfs`, `-ext4` | none | list files, say where they lie and how sure that is | readers; called by CLI, carver, eraser |
| `vajra-raid` | the slot table of an assembled array | superblock assembly, block mapping, parity recovery | readers |
| `vajra-crypto-vol` | none | headers, key slots, sector ciphers | readers |

### 1.2 Where it is hard, and what makes it correct

* **Acquisition.**  Four stores are written one after the other without a
  transaction: image file, checkpoint, image row, operation row, then the
  audit log, whose errors are discarded.  The file is behind a buffer.  A
  process may be cancelled, fail or be killed anywhere, and another one
  resumes from the checkpoint with a different strategy and on sectors that
  read differently the second time.  *Correct* means: the image of a
  completed operation was given every sector or the placeholder its map says;
  an interruption costs a bounded and known amount; the vault never says
  verified of something else than the file; the checkpoint never moves back.
* **Audit chain.**  `append` reads the head and inserts the successor in two
  statements, from several processes.  *Correct* means: the chain stays
  intact; nothing is rewritten; a log that verifies and agrees with an
  anchor really is the anchored log.
* **Custody.**  `record_event` is three statements (read and validate,
  insert, update the item) and the history is ordered by wall-clock time.
  *Correct* means: the history opens with an intake, nothing follows a
  terminal event, the owner column is the holder the history ends with.
* **Sanitization.**  Assurance is resolved from five layers that can fail
  themselves; tickets and tokens are kept in shared maps.
* **Desktop jobs.**  Worker threads and polling commands share a map under
  short random identifiers.
* **Vault and reports.**  Several processes share the vault; every method is
  one statement, closing a case is two, and a report is read by five SELECTs
  in no transaction, then signed, logged, stored and written one after the
  other.  *Correct* means: rows refer to rows that exist and never leave or
  move, a closed case stays closed; a report tells of no other case and misses
  nothing that was there when it was asked for, but for what it passed over
  because a query failed; what verifies later with the certificate it was
  issued with is what was signed.
* **Recovery.**  Three tiers search one medium and share a map of sectors
  that are spoken for.  What they search was written, overwritten and damaged
  by a host they know nothing of.  *Correct* means: of a live file all stored
  sectors are given and in order (the host reads the same only of a file without
  holes), a deleted file that was overwritten is not called confirmed, complete
  finds share no sector, and a file that lies whole where the search can see it
  is found.
* **File erasure.**  Four steps through a cache that may lose what was not
  synced.  *Correct* means: a file is let go only when nothing of it is left.
* **RAID.**  Which formula recovers a sector depends on where the row's parity
  lies and what is missing, and a wrong one gives plausible bytes.  *Correct*
  means: a read returns what the array held, or fails because it must.

## 2. Modules

| Module | Models | Proofs |
|---|---|---|
| `Acquisition` | engine, RAW writer, operation and image rows, the engine's audit and custody calls | `AcquisitionProofs` |
| `AuditLedger` | abstract: what an append-only log promises | |
| `AuditChain` | `audit_log`, racing appends, anchors, damage; implements `AuditLedger` | `AuditChainProofs` |
| `Custody` | the tracker and the vault columns it sets | `CustodyProofs` |
| `DecisionEngine` | what the shells advise to sanitize a device with | |
| `Sanitization` | gate, overwrite or controller command, verification layers, certificate; against the advice | `SanitizationProofs` |
| `Desktop` | job map and worker threads, gate registry of the desktop shell | `DesktopProofs` |
| `GaloisField`, `RaidLayout` | the field of the second parity; where a sector lies | |
| `RaidArray` | assembly of an array from the disks at hand, and reads of it, degraded or not | `RaidArrayProofs` |
| `CaseVault` | the tables of the vault, the commands on cases and evidence, the queries | |
| `ReportVerifier` | the standalone verifier: its four checks of a report file | |
| `Reporting` | composes both: reports of every kind, generated while others write to the vault and the log, damaged and verified | `ReportingProofs` |
| `FileLocation` | where the parsers say that a file lies: FAT chains, NTFS runs, ext4 extents and pointers | `RecoveryProofs` |
| `Carving` | validators and the carving of one candidate, in one piece and in two | `RecoveryProofs` |
| `Volume` | external: the volume a host writes; detection and location of its files | `RecoveryProofs` |
| `FileErasure` | the local eraser and the block-device pipeline, beside a working host | `RecoveryProofs` |
| `Recovery` | composes these: use, erasure, then the three tiers over the medium | `RecoveryProofs` |

The `MC*` modules give the constants that a `.cfg` cannot write, and the
symmetry sets.

### 2.1 Acquisition

One operation (one `op_id`, one output path) is followed over the processes
that work on it one after the other.  `file` is what the operating system
holds for the image; `eng.buf` is what is still in the `BufWriter`, so that
`Overlay(file, eng.buf)` is what a flush would leave.  A cell of the file is
a sector, the bad-sector placeholder (`Mark`), a hole the file system filled
with zeros (`Hole`), damaged storage (`Rot`), or beyond the end (`None`); a
hash is the content it is taken of.  `op` is the operation row with its
checkpoint, `images` the image rows, `audit` and `custody` what the engine
recorded there.

| Action | Code |
|---|---|
| `Start`, `Announce` | `acquire` up to the loop: pre-flight, operation row, audit entry, custody event (both results discarded) |
| `CopyChunk` | one iteration of the loop: `read_chunk_with_fallback`, `write_image_blocks` (whose seek flushes the chunk before), rolling hash |
| `SaveCheckpoint` | the periodic checkpoint |
| `Finalize`, `Verify`, `RecordImage`, `CompleteOperation`, `Report` | what follows the loop, statement by statement |
| `Resume` | `acquire resume`: checkpoint read, file opened without truncation |
| `Cancel`, `WriteError`, `Crash` | the three ways out of the loop: token seen, output fails, process killed |
| `Decay` | the output medium returns something else |

`Faults` says which of crash, output error, vault error and decay may happen.
`lost` counts processes that ended without writing all of their buffer, and
is a history variable: nothing reads it but the properties.

Assumed: at most one process works on an operation at a time (the code has no
lock; a second concurrent `resume` is outside the model), operations have
output paths of their own, the device has at least one sector, and the
number of bytes per sector divides the buffer's writes into cells.

### 2.2 Audit chain

`rows` maps a sequence number to a stored row: the hash column and the
payload.  A hash is the payload it covers, which idealises SHA-256 (and the
Ed25519 signature of an anchor) as injective.  `ReadHead` and `Insert` are
the two statements of `append`; `Insert` fails when the key is taken, and the
caller then stops (CLI, report generator) or goes on without an entry
(engine): `returned` holds the events whose caller went on.  `ExportAnchor`
signs the head, as the code does, without verifying the chain first.
`Damaging` alters an entry, a hash column, or drops a row, at most
`MaxDamage` times.

The log as a ledger (`AuditLedger`): a sequence that only ever grows at its
end.  The refinement mapping is `ledger <- EventsUpTo(top)`.

### 2.3 Custody

`table` is the event table in order of insertion; `Before` is the order in
which `get_history` returns it: timestamp first.  `Validate`, `Insert` and
`Update` are the three statements of `record_event`, `Abort` a process killed
or refused at any of them.  `Request` is `custody record`, `EngineRequest`
what the engine records at the start of an acquisition and the end of a
resume.  `Quoted` are names that end the SQL string the UPDATE is formatted
into.  `overlapped` and `skipped` are history variables that say whether two
calls ever ran at once and whether an UPDATE was ever left out.

### 2.4 Sanitization

`DecisionEngine` says what the engine advises for a medium and the methods it
supports, which methods each shell says there are, and what each shell shows of
the advice; `Sanitization` compares it with the certificate.

One run of `erase run` on one device.  `cells` is what every sector holds: a
file the carver recognises, other data, or a fill pattern; `at` is where the
run stands.

| Action | Code |
|---|---|
| `Begin`, `Finalize` | the two phases of the gate; `asked` keeps the answers |
| `StartPasses`, `WriteChunk`, `WriteFails`, `EndPass` | the overwrite, one chunk after the other |
| `IssueCommand` | the controller command; its firmware may report a success and leave sectors as they were |
| `SampleDeterministic`, `SampleStatistical` | layers 3 and 4: chosen LBAs, and a sample without replacement |
| `CarveSector`, `EndTier2`, `CarveFragments` | layer 5: the carver's tiers 2 and 3 |
| `Certify` | the resolution of the layers and the certificate; layers 1 and 2 are pure and part of `Assurance` |

`missed` is a history variable: the sectors the carver could not read.
`Faults` says whether writes fail, the command fails, the firmware leaves
sectors, the device goes away.  `Bad` sectors can never be read, `Flaky` ones
sometimes.

Assumed: a file is recognised by its first sector and validated over `Window`
sectors behind it; a random fill is never carved as a file; the descriptor
names the device's real medium; the sample size is any that the clamps of
`compute_required_sample_size` let through, which abstracts its logarithm.

### 2.5 Desktop

`jobs` is the map of `JobManager`, of which a poll reads one entry; `pc` and
`copied` are the worker thread of each call of `start_acquisition`, `id` the
identifier the call drew.  `pending` and `issued` are the two maps of
`GateRegistry`; a ticket and its token are named by the session that began
them, since the code gives them a fresh UUID, and `device`, `gate`, `token`
are what that session was told.  Identifiers are drawn from sets as small as
the reader likes: the code draws one of 10,000 and nothing keeps two calls
from drawing the same.

| Action | Code |
|---|---|
| `StartAcquisition` | `start_acquisition`: register, then spawn |
| `OpenDrive`, `CreateImage`, `CopyChunk`, `Complete`, `WorkerFails` | the worker, with the progress hook and its three error arms |
| `ResumeAcquisition` | `resume_acquisition`, which registers an entry and spawns nothing |
| `BeginGate`, `FinalizeGate`, `ExecuteSanitization` | the gate commands; `finalize_gate` is one step, because it holds the first lock until the token is stored and nobody knows the token's name before it returns |

Assumed: the engine under a worker copies `Chunks` chunks or fails (module
`Acquisition` says how); whether a device is protected does not change.

### 2.6 RAID

`disks` are the candidates in the order the examiner gives them, each with
what its superblock says (`sb`, `set`, `slot`), whether it was a member until
the end (`current`), whether it is an image file or a drive (`image`), and its
size.  `members` is the slot table of `RaidArray`, with the index of a disk
or 0; `req` is the read under way and `out` what it has returned so far, one
element of the field per sector.

| Action | Code |
|---|---|
| `AutoDetect` | `auto_detect` and `RaidArray::new`: the set and geometry of the first superblock, the capacity of the first disk, slots filled in order |
| `Request` | the bound at the head of `read_blocks` |
| `ReadExtent` | one turn of its loop, with `reconstruct_block` and `reconstruct_raid6_block` on all of their paths |
| `EndRead` | its end |

`RaidLayout` is `layout.rs` function by function; `GaloisField` is
`galois.rs` for any width and polynomial.  `Stored` is the reference: what a
controller with this geometry wrote to a member, parity and all; it is
external to the code, which only reads.

Assumed: sectors of one size on all disks (the code takes the size of the
first); a superblock is found or not, its bytes are not modelled; a member
image is read as `raw/reader.rs` does, which fills up with zeros what the file
lacks.

### 2.7 Case vault and reports

`CaseVault` holds one function per table: `cases`, `items`, `ops`, `images`,
`events` map the key of a row to what it refers to; `complete` are the
operations with status Completed, `closing` the cases that a `close_case` has
found open and not yet closed.

| Action | Code |
|---|---|
| `CreateCase`, `AddEvidence`, `RecordOperation`, `RecordEvent`, `RecordImage`, `CompleteOperation` | the INSERT or UPDATE of that name with the constraints of the schema |
| `CheckOpen`, `CloseCase` | the SELECT and the UPDATE of `close_case` |

In `Reporting` a report is a set of facts: the rows it lists, `<<"done", o>>`
for an operation it lists as completed, and `<<"default", kind>>` for the
constants the commands fill in where they read nothing.  `at[w]` is what the
reporter `w` does and has read, `known` (history) what the vault held on its
subject when it began, `issued` the envelope it made, `files` what lies on disk.
With "read" among `Faults` any query may fail.  Most failures end the report
(`Abandons`, the `?` of the code); the query for the custody events of an item
does not: the item is passed over (`Skips`: `if let Ok`, generator.rs:162, and
`unwrap_or_default`, main.rs:2543) and the report signed without its events.
`at[w].skipped` is the history of that.  A failed query for images leaves an
acquisition report with its constants (main.rs:2470).

| Action | Code |
|---|---|
| `Request` | `cmd_report_generate`, `generate_report`: kind, case, item |
| `ReadCase` .. `ReadEvents` | the SELECTs of the examination report, one step each, events per item |
| `ReadImage`, `ReadCustody` | what the command line reads for an acquisition and a custody report |
| `ReadHead`, `Insert` | `AuditChain::append`; a report whose number was taken is abandoned |
| `Load` | the segment, the timestamp, the manifest and the envelope |
| `Record`, `SaveCli`, `SaveDesktop` | the row, whose error is discarded, and the file, whose error only the desktop reports |
| `OtherEntry`, `Alter` | another process's entry; damage to a written file |

`ReportVerifier` is `verify_report_envelope`: digest and signature, the chain
segment, the timestamp, and the manifest against an image.  One `Alter` changes
what belongs together at once, as the scenarios of `tamper_tests.rs` do and
further: content, digest, signature and certificate in any combination, each
recomputed, spoiled or made with another key (`Signings`); a segment that is
cut, retold with the old or a fitting hash, or numbered and chained anew
(`Resegmented`); stamp; manifest.

Assumed: an acquisition is one row here (module `Acquisition` has its inside);
digests and signatures are injective; a report is about the operator's own
kinds of data, since no command stores recovered artifacts or sanitization
events.

### 2.8 Recovery

The data area of a volume is `Total` sectors, with clusters and blocks of one
sector each.  A sector holds part `k` of file `f`, zeros, or noise.  The host
(`Store`, `MakeDirectory`, `Grow`, `Delete`, `Damage` of `Volume`) is external
to the code: it is modelled as far as the parsers rely on what it leaves
behind.  A scenario fixes the kind of file system, the type of each file, bad
sectors, what may be damaged, whether files are erased, whether the boot
sector can be read and which other signatures the volume still bears.  It also
fixes the `shape` of each file: dense, with a "hole" behind its first `cut`
sectors, which has no place on the medium and in the entry is a sparse run, a
gap in the logical blocks or an empty pointer, or with an "unwritten" end behind
them, which has a place that still holds what lay there before; the host reads
zeros in either.  The parsers read neither logical blocks nor the unwritten
mark, so `EntryAt` leaves both out.

`FileLocation` translates the walks of the parsers as functions, `Detected` of
`Volume` the choice of the parser.  A file type in `Carving` is known by what
its validator looks at: PNG's checksummed chunks, JPEG's markers, ZIP's last
end record, PDF's lossy text, SQLite's declared length, MP4's boxes, OLE2's
allocation table.

| Action of `Recovery` | Code |
|---|---|
| `Start` | the medium is taken out of use and searched with some of the tiers |
| `RunTier1` | `recover_tier1`: every listed file with its location and its bytes; sectors of Confirmed and Partial ones are claimed |
| `CarveSignature`, `EndTier2` | one candidate of tier 2, the end of its loop |
| `CarveFragments`, `Finish` | one candidate of tier 3; truncated finds where a file was rebuilt are dropped |
| `DumpFails`, `Dump` | `cmd_fs_dump`, as an operator: one file instead of all |

Assumed: names are unique; resident data, extent trees of more than one level,
journals and shadow copies are left out; a validator looks at whole sectors.

### 2.9 File erasure

`job` is the one erasure of a behaviour, `job.target` (history) the sectors
the file had when it began, `job.dirty` what is written and not yet synced.
`BeginLocal`, `WritePass`, `SyncPass`, `Truncate`, `Unlink` are the steps of
`erase_local_file_destructive`; `PipelineData` and `PipelineMetadata` those of
`execute_file_erasure_pipeline_destructive`, which work on the extents a parser
resolved.  `Stop` ends the local eraser anywhere, by an error or by a crash:
of the data in the cache some part reaches the medium.  The host may append to
the file meanwhile.

## 3. What TLC checks

| Run | Shows | Instance |
|---|---|---|
| `acq_faults` | all properties of `Acquisition` under all faults together | 5 sectors, one damaged, one flaky; chunks of 2 and 3; a partial and a full profile; 3 processes |
| `acq_crash` | *violated*: `CheckpointDescribesImage` | one crash |
| `acq_wrap` | *violated*: `EngineReturns` when the count wraps | `CountRange` 4 stands for 2^32, on 5 sectors |
| `chain` | chain intact, anchors hold and the ledger implemented until the first damage; `TamperEvident` after it | 3 processes, 4 events, 2 damages of any kind |
| `chain_race` | *violated*: `ReturnedIsRecorded` | 2 processes |
| `custody_events` | intake first; terminal final and owner right unless calls overlapped or an UPDATE was left out | 2 processes, 3 events, 2 clock values, a quoted name, aborts |
| `custody_terminal` | *violated*: `NothingFollowsTerminal` | 2 processes |
| `sanitization` | a certified overwrite is complete; residue fails the run; what High and Medium bound; advice and certificate agree for every set of supported methods; a run ends | 5 sectors, chunks of 2, up to 3 passes, samples of 2 and 3, one bad and one flaky sector, 6 targets, all faults |
| `desktop` | polls tell the truth unless identifiers collide; every job ends; a certificate names its device | 2 starts on 2 identifiers, 1 resume identifier, 2 chunks; 2 sessions on 2 gates, 3 devices |
| `raid` | assembly is of one set; reads are exact through every parity | 3 members (RAID 0, 5), 4 and 5 (RAID 6), 4 layouts, chunks of 2 sectors, one turn of the parity, up to 3 members missing, reads of up to 3 sectors; the field of 16 elements |
| `vault` | references hold and records are permanent; a report covers its case and no other; a completion is shown with its image; row, file and audit entry agree; what verifies with its own certificate is genuine | 2 cases, 2 items, an acquisition with an image and an event, 2 processes that close, a report of each kind from each shell, failures of any query, row and file, 2 foreign entries; one alteration (of many fields at once) of a custody report's file |
| `recovery` | the stored sectors of live files are recovered and dumped; Confirmed means free; the tiers keep apart; intact files are carved; what is erased is gone | files of 3, 2 and 1 sectors on 5, in 20 scenarios over FAT, NTFS, ext2 and ext4, with holes and unwritten parts, a directory, bad sectors, a lost boot sector, an older file system's signature, a damaged FAT cell, erasures; one or all of the tiers |

**Bounds.**  Five sectors give two or three chunks of either size, with the
damaged and the flaky one in the same and in different chunks, a chunk that
is shorter than the minimum, and a partial profile whose end is clamped;
three processes give a resume of a resume.  Four events over three processes
give every order of two heads read at once; two damages let a row be altered
and its successor too.  Three custody events give an intake, a terminal event
and one after it.  Five sectors and chunks of two end a pass in a short chunk;
up to three passes give each fill pattern, and the method of no passes; the
sample is smaller than the device and larger than none.  An array as long as
it has members sees its parity on each of them once, and every subset of at
most three members is left out, so that each formula of RAID 6 is used in
each row; reads of three sectors in chunks of two cross a chunk and a row.
The field of 16 elements has the code's structure (2 generates it), which
`BytesAssumption` of `MCRaidArray` checks for the code's own polynomial.

In the vault two cases with two items give an item of one case acquired for
the other, and two closers a case that both have found open; a report in each
kind and shell meets every state of the tables between any two of its reads.
The verifier does not look at the kind of a report, so the files that are
altered are those of custody reports (`Alterable`), whose content is empty, a
constant or an event too; the theorem is about files of every kind, altered any
number of times.
Steps that commute with what a report does are taken once (`StepsOnce` of
`MCReporting` says which, and it is an action constraint, so the theorems of
section 4, which are free of it, cover what it leaves out).  Five sectors under
files of three, two and one hold every order, every fragmentation, a file
overwritten in part, and one free sector to grow into; the limits of the code
are scaled so that each bites (`MCRecovery`): a window shorter than the file,
a candidate longer than the medium, a gap out of reach.

**Fairness.**  `FairSpec` of `Acquisition` assumes weak fairness of
`EngineStep`, because a running process is scheduled by the operating system
and the loop never waits for another party.  Nothing makes anyone start,
resume or cancel a process, and no fault has to happen.  `FairSpec` of
`Sanitization` assumes weak fairness of `Work`: once authorized the run is one
thread that waits for nobody.  The operator need not answer the gate.  `FairSpec` of `Desktop`
assumes weak fairness of each worker thread by itself.

`CHECK_DEADLOCK FALSE` is given where the bound on processes, events or
damage lets the system stop.

### Disagreements the runs show

* `acq_crash`: the checkpoint (engine.rs:276) is stored while the chunk it
  counts is still in the writer's buffer.  A process killed in between leaves
  a gap below the checkpoint; `resume` never fills it, and since it compares
  the file with a hash it has just computed (engine.rs:452), completes.
  `LossBound` says what it costs: one chunk per process that lost its buffer.
* `acq_wrap`: the remaining count is cast to `u32` before the minimum with
  the chunk size is taken (engine.rs:223, 414).
* `chain_race`: of two processes that read the same head one gets a key
  conflict, and the engine discards it.
* `custody_terminal`: two processes that validated against the same history
  store an event after a terminal one; the item then accepts events again,
  since validation looks at the newest event only.

Met while modelling, and not given runs of their own.  *Acquisition to RAID*: a failed verification
leaves the operation `InProgress` and a resume completes it over the damaged
file (which is why `CompletedImageFaithful` speaks of cells up to `Rot`,
while the proved `FreshImagesFaithful` does not); `verify_anchor` alone compares one
stored hash (anchor.rs:122) and `verify_entries` alone accepts a truncated
chain (chain.rs:87), so `TamperEvident` needs both; an operation is completed
before its audit entry is appended; the owner columns stay behind for a name
that breaks the UPDATE (tracker.rs:57).  Layer 5 counts a scan that failed as
a scan that found nothing (layer5_recovery.rs:35), and the carver passes over
sectors it cannot read: a device that goes away after the samples can be
certified High with a file left on it, which is why `ResidueIsFound` holds up
to `missed` only.  A method of no passes succeeds without writing anything,
so `OverwriteIsComplete` asks for at least one.  In the desktop shell a
resumed job has no worker and never ends; a poll of an identifier that is not
in the map is answered "completed"; `execute_sanitization` hands out a
certificate of five layers without touching the device; and when two sessions
draw one gate identifier, the first finalizes the second's ticket, because the
serial typed is only checked to be there.  `ReportedIsReal` and
`CertificateForOwnDevice` hold up to such collisions, and say so.  Of two
disks for one slot the later argument becomes the member, stale or not, and a
member image that was cut short is read as zeros (raw/reader.rs:138);
`ReadIsExact` holds up to both.  The array's size is that of the first disk
offered, even if it is no member (array.rs:121), and an error of a member that
is there is final although parity could make up for it (array.rs:381).

*Advice*: the desktop passes the decision engine no supported methods and so
advises an overwrite for every drive, self-encrypting and NVMe ones included
(commands/sanitize.rs:30), and its answer drops the engine's residual-risk
warning (commands/sanitize.rs:48-57): who works with the desktop reads of the
risk on the certificate for the first time.  Of the desktop
`AdviceForetellsCertificate` therefore only says that it shows "Moderate", not
"High", for what the certificate warns of.  The certificate's list of flash
media leaves out self-encrypting drives and image files: such a drive that
offers no command is overwritten after a warning of the engine, and certified
High without one.  The property names both media as exceptions.

*Vault and reports*: a closed case takes evidence, operations and images as
before, although it is announced as one that cannot be modified (main.rs:907);
nothing ties the item of an operation to the operation's case, so
`CompletionShowsImage` speaks of items of the case.  The command line ignores
that a report could not be written and announces it (main.rs:2578); the row
names a file `<id>.vjr` that nobody writes.  The desktop calls a report valid
whose file is missing, which `VerifiedIsGenuine` leaves out.  A custody query
that fails is passed over without a word (generator.rs:162, main.rs:2543), and
an acquisition report whose query for images fails states constants
(main.rs:2470): the report is signed, verifies, and nothing in it or in the
vault tells what is missing, so `ReportCoversVault` can only bound the loss.
Manifest, timestamp, Markdown and the segment are not signed: the verifier
compares the first entry of a segment with nothing (verifier.rs:94), and a
segment whose entries are all chained anew verifies; only its last hash, held
against the log, says that it is a gapless part of it, which is what the
property asks.  The key comes from the certificate in the file, which nothing
vouches for (verifier.rs:230-249): a file signed anew with another key that
carries its certificate verifies.  docs/agent-log/08:207 lists "re-signed
payload with an unauthorized imposter Ed25519 keypair" as caught; its test
(tamper_tests.rs:168) keeps the first certificate.  The property is therefore
about files that bear the certificate they were issued with.  An acquisition
report without an image states constants, among them a verification and a hash.
Recovered artifacts and sanitization events have tables and no command that
fills them; the desktop's custody history is a constant.

*Recovery*: one looping FAT entry or unreadable directory sector ends the whole
run, while ext4 passes over it (parser.rs:70); the contiguous guess for a
deleted FAT file whose chain was zeroed is never reached, since the walk returns
the first cluster at least, which is then called Confirmed (parser.rs:243).  A
sparse run of an NTFS file loses its length (mft.rs:385-390), and of an ext4
extent the logical block is not read and the mark of an unwritten one only taken
off its length (inode.rs:139-159); nor is the initialized length of an NTFS
record read.  So a file with a hole is closed up, so that all behind it is
shifted and the end short, and one with an unwritten part is given what lay
there before, both without a limitation and, where a bitmap could be read, as
Confirmed. `LiveFilesAreRecovered` is therefore about the sectors the host
stored, which is what the host reads of dense files only.  Signatures of an
earlier file system win by order, the ext superblock is looked for at sector 2
whatever the sector size, and an unreadable boot sector silently means that tier
1 finds nothing (core/fs.rs:154).  A bad sector anywhere in its window loses a
candidate (tier2/mod.rs:132); the bound on the end of a bifragment candidate
excludes the last sector of the medium (bgc.rs:61); ZIP and PDF take the last
terminator in the window and merge two files; SQLite, JPEG and MP4 take foreign
sectors for their own and report no limitation, so `IntactFilesAreCarved` speaks
of formats whose contents are checked.  Artifact numbers 1000, 2000 and 3000
upwards collide on a large medium.

*File erasure*: a count of no passes leaves random data where the command line
announces zeros (main.rs:2346).  The pipeline reports Sanitized for files whose
indirect blocks it never looked for, and takes the scrubbed journal for
granted; `ErasedIsGone` leaves the first out and says so.  It means to zero "the
file's own metadata record" (file_eraser.rs:6) but passes offset 0 and the length
of a block (file_eraser.rs:121), so that the records of the other files in that
sector go with it: they stay on the medium and are not listed any more.

## 4. What is proved

All theorems hold for every value of the constants, under the named `ASSUME`s
of the modules (types of the constants; the placeholder values are distinct).

| Theorem | Statement | Argument |
|---|---|---|
| `AcquisitionProofs!TypeCorrect` | types, under every fault | one step per action |
| `CheckpointsAdvance` | `CheckpointMonotone` | `PositionInv`: the process never stands below the stored checkpoint, and past the end once it closes |
| `AuditNeverAhead` | `AuditFollowsVault` (proved only, no run) | a conjunct of `PositionInv` |
| `FreshImagesAreFaithful` | `FreshImagesFaithful` (proved only) | `FreshInv`: the rolling hash covers exactly the sectors below the position, so a re-read that matches it is the whole range |
| `ResumeIsExact` | `CompletedImageFaithful` | `CleanInv`: the checkpoint's map is the process's map cut at the checkpoint, and, unless a buffer was lost, file and buffer together hold what was copied |
| `CompletedRowIsCurrent` | `CompletedRowMatchesFile` | `RowInv`: from the re-read to the row nobody writes the file, and a process on a completed operation has its map and nothing to write |
| `InterruptionsCostOneChunk` | `LossBound` | `LossInv`: the cells that are missing below the checkpoint are counted; a step can only add those the buffer still owes, at most one chunk, and then `lost` has grown by one |
| `AuditChainProofs!TypeCorrect` | types, under any damage | |
| `ConcurrentAppendsKeepChain` | `ChainIntact` | `ChainInv`: rows are the numbers up to `top`, each linked to the one below, and a reader's head is the row it read (rows never change) |
| `CheckpointsAgree` | `AnchorsHold` | the same invariant: until the first damage no row of an anchor changes |
| `AnchorsExposeTampering` | `TamperEvident` | `AnchorInv`: an anchor's hash covers its log; a chain that verifies and ends in that hash has that log, by descent over the links |
| `TableIsLedger` | `LedgerSpec` | every step appends to `EventsUpTo(top)` or leaves it |
| `CustodyProofs!TypeCorrect` | types | |
| `HistoryOpensWithIntake` | `OpensWithIntake`, under races, aborts and any clock | `IntakeInv`: an event that is no intake, stored or validated, has an intake no later than itself in the table |
| `TerminalIsFinal` | `TerminalIsFinalAlone` | `AloneInv`: at most one call is under way, the table is in the order of the history, and a validated event still fits it |
| `OwnerIsHolder` | `OwnerFollowsHistory` | `OwnerInv`: the column is the holder after all events but the one whose UPDATE is to come |
| `SanitizationProofs!TypeCorrect` | types, on a device that fails in every way | |
| `NothingWrittenUnauthorized` | `WritesAreAuthorized` (proved only) | `GateInv`: past the gate, the answers were given and the target was admitted |
| `CertifiedOverwriteIsComplete` | `OverwriteIsComplete` | `PassInv`: in the last pass the sectors below the LBA are zero, whatever the chunk boundaries |
| `ResidueFailsTheRun` | `ResidueIsFound` | `ScanInv`: below the carver's LBA every file is carved or misses a sector |
| `SampleBoundsWhatIsLeft` | `SampleBoundsResidue` | `SampleInv`: after a clean sample the sectors that are not uniform lie outside of it; lemma `SampleStep` counts them |
| `HighRestsOnTheLayers` | `HighIsEarned` (proved only) | the verdicts kept agree with the cells, which no one writes during verification |
| `AdviceForetells` | `AdviceForetellsCertificate`, which quantifies over every set of supported methods | `AdviceInv`: the warning is that of an overwrite of flash media, also where the cap is; the rest is a comparison of the two lists of media |
| `DesktopProofs!TypeCorrect` | types, however identifiers collide | |
| `PollsTellTheTruth` | `ReportedIsReal` | one lemma (`WorkerStep`) for every step of a worker: an update replaces an entry of its own, and other calls' entries are elsewhere |
| `NoJobIsLeftRunning` | `QuietJobsHaveEnded` | of the workers of an identifier, the one that stops last leaves the entry ended |
| `TicketsAreSpentOnce` | `OneTokenPerTicket` (proved only) | `TicketInv`: a pending ticket lies under its own session's gate, and no token was made of it |
| `CertificatesNameTheDevice` | `CertificateForOwnDevice` | `CertInv`: a token's ticket was begun under the gate of the session that holds it |
| `AssembledFromOneSet` | `AssemblyIsOneSet` | `AssemblyInv`: the slot table is what the superblocks place |
| `PlacesNeverCollide` | `PlacesAreDistinct` (proved only), for every level, layout, number of members and chunk | `DivisionIsUnique` gives back row, column and position in the chunk from a place; `ColumnHasAMember` that the columns of a row have members of their own, off parity, across every wrap |
| `FailuresHaveACause` | `FailuresAreForced` (proved only) | `ExtentFailure`, by `ChunkIsContiguous`: the sectors of one turn follow each other on the member |
| `IntactReadsAreExact` | `ReadIsExact` where no member is missing, and of the sectors whose member is there | `ReadInv`: what a turn appends is the next sectors of the array |
| `ReportingProofs!Types` | types and references | `VaultInv`: with every image of the item of its operation, and one for every completed operation |
| `Permanence` | `RecordsArePermanent` | `Growth`, of every step of every process |
| `Coverage` | `ReportCoversVault` | `IsHeld`: what was read is in the vault, and of the subject, which only grows; `Collected`: what was known is read, table by table, and an event is read or its item is still to be asked about or was passed over; `Heard` says so of a custody report |
| `CompletedHasImage` | `CompletionShowsImage` | `Collected`: from the read of the images on, each completion that was read has an image that is listed, since the operations were read before |
| `Accountable` | `ReportIsAccountable` | `Accounts`: a report on its way has its entry in the log, one that is issued was signed over a beginning of the log that holds the entry |
| `Genuine` | `VerifiedIsGenuine`, after any number of alterations | `Derives`: what alterations can make of a file; from the last entry back, each has the hash its successor states, which leaves no choice of it (`HashTellsAll`, `PassingLeadsTo`) |
| `RecoveryProofs!UseIsOK` | `UseOK` (proved only) | `VolumeOK`, entry, table and bitmap agree with the sectors of every live file; `JobOK`, what an erasure works on, and what is wiped once it is settled |
| `NothingIsLeft` | `ErasedIsGone` | a conjunct of `JobOK` |
| `FindsAreOK` | `FindsOK` (proved only) | what every find is, where the search stands, which finds share no sector, what tier 1 kept |
| `TypeCorrect`, `TiersAreApart` | `TypeOK` (of tier 1 only that what it read lies on the medium), `TiersKeepApart` (of complete and rebuilt finds, and of where carving starts) | `UseOK` and `FindsOK` |
| `ConfirmedAreFree` | `ConfirmedBlocksAreFree` | all extents of a location are looked up, and what a live file has is not free |
| `LiveAreRecovered` | `LiveFilesAreRecovered`, of files of every shape | decoding gives back the place the host stored, however fragmented and wherever the hole: lemmas on chains, runs, extents and pointers (`DecodesBackAcross`, `PiecesRead`, `DirectBlocksAre`) |
| `PartsAreOnce` | `PartsOK` (proved only) | a part of a file is not on the medium twice |
| `AllIsSearched` | `SearchedOK` (proved only) | what is claimed lies under a find; a header behind the search was taken by a find, or what it leads to was found |
| `IntactAreCarved` | `IntactFilesAreCarved` | all of the above, and lemmas on the validators, the window and the order of gaps |

The invariants are inductive and the properties are not: `CompletedImageFaithful`
says nothing of a running process, whose buffer decides whether the next
flush keeps it true.

What is true of the vault is true of each single read of it, but a report is
several: `IsHeld` and `Collected` carry the facts of one read over to the next
while other processes write, by lemma `Kept`, one for every reporter that does
not move.

A recursive function of the model is to the prover a `CHOOSE` of which nothing
is known.  Lemma `Recursion` of `RecoveryProofs` builds, by induction over a set
of numbers, a function that follows a given step; the choice then follows it
too, and one lemma `...Follows` for each walk says so.  What a walk returns is
shown by `UpTo`, induction over the set of the positions for which it is true.

The assumptions beyond types say this of the code: that a file begins with its
own header and has a sector at least (`FilesAssumption`); that a window and an
object have at least a sector (`LimitsAssumption`); that a file with an
allocation table has its directory in a sector of its own, and that making a
file system clears the signatures that are tried before its own, that a FAT knows
neither holes nor unwritten parts and an old inode no unwritten ones, and that
only dense files are erased and only a FAT without a directory beside the root
is damaged (`ScenarioAssumption`); that random bytes are nobody's signature
(`GarbageAssumption`) and no reporter's key is that of an unsigned report or
the other key that files are signed anew with (`KeyAssumption`).

The proofs also settled what the properties of `Recovery` have to ask for.
`LiveFilesAreRecovered` asks for a directory that can still be read: the
erasure of a file zeroes the directory's own entry with it.
`IntactFilesAreCarved` asks that the medium go on behind the second of two
pieces, and of OLE2 files, of which the validator looks at three parts, for at
most three sectors, and that no other find has taken its sectors.

Only model-checked: `EngineReturns`, `RunEnds` and `JobsEnd` (liveness under
fairness), and what `ReadIsExact` says of reconstructed sectors, since parity is
a fold over the columns and the field's laws would have to be assumed for every
width.  Out of the prover's reach altogether: liveness and `ENABLED`.

## 5. Plan

The modules of section 2 are done.  What would add most, in this order:

1. The recovery of lost sectors in `RaidArrayProofs`: one of them from the sum
   over the columns, two of them from the axioms of a field.
2. Extent trees of more than one level and resident data in `FileLocation`.
3. Key slots of encrypted volumes, where a wrong key must never be accepted.

## 6. Not modelled, and why

* `vajra-crypto-vol`: header parsing, key derivation and ciphers decide
  everything it does, and a model would idealise just these away.
* `vajra-device`, but for what a read of several sectors returns: system calls
  and the parsing of their output.
* `vajra-ml` and training (floating-point inference), `vajra-fs-apfs` (an empty
  placeholder), the web front end, build and packaging scripts.
* `vajra-core`, but for the detection of file systems, media and methods:
  types only.
* In the carver: confidence scores, entropy, and how the list of gap sizes is
  learned.  In the parsers: long names, resident data, deep extent trees,
  orphaned records, journals, shadow copies.  In the reports: their layout.  In
  `Acquisition`: progress callbacks, timing statistics, and the text of log
  entries.
* Readers of E01 and AFF4 images, which change no state.

Ciphers, hashes and signatures are idealised wherever they occur.
`PROJECT.json` lists every component with its status.
