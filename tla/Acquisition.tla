---------------------------- MODULE Acquisition ----------------------------
(***************************************************************************)
(* The evidence acquisition engine (vajra-acquire) with the two stores it  *)
(* writes: the RAW image file, behind a BufWriter (vajra-image), and the   *)
(* operation row of the vault (vajra-case-db).                             *)
(*                                                                         *)
(* One operation (one op_id, one output path) is followed over the         *)
(* processes that work on it one after the other: `acquire start`, then    *)
(* any number of `acquire resume`.  A process may return early, be         *)
(* cancelled, or die with the BufWriter still holding its last chunk.      *)
(***************************************************************************)
EXTENDS Integers, Sequences, FiniteSets

CONSTANTS
  TotalBlocks,  (* sectors of the source device                            *)
  Damaged,      (* sectors no read ever returns                            *)
  Flaky,        (* sectors whose reads may or may not fail                 *)
  Profiles,     (* acquisition profiles: Physical or <<start, end>>        *)
  Physical,     (* the profile AcquisitionProfile::Physical                *)
  Config,       (* strategy and interval of `acquire`, a record            *)
  Default,      (* BadSectorStrategy::default() and 10_000, for `resume`   *)
  CountRange,   (* number of values of the u32 the block count is cast to  *)
  Faults,       (* what may go wrong, among "crash", "io", "db", "rot"     *)
  MaxRuns,      (* bound: processes started on the operation               *)
  None,         (* a cell beyond the end of the file                       *)
  Hole,         (* a cell the file system zero-filled below a later write  *)
  Mark,         (* a cell holding the VAJRA_BAD_SECTOR placeholder         *)
  Rot           (* a cell the storage damaged after it was written         *)

Lba   == 0 .. TotalBlocks - 1
Cells == 0 .. TotalBlocks - 1          \* block indices of the image file
Image == [Cells -> Lba \cup {None, Hole, Mark, Rot}]

Strategy == [chunk : Nat \ {0}, min : Nat, interval : Nat]

ASSUME ConstantsAssumption ==
  /\ TotalBlocks \in Nat \ {0}
  /\ Damaged \subseteq Lba
  /\ Flaky \subseteq Lba
  /\ Profiles \ {Physical} \subseteq Nat \X Nat
  /\ Config \in Strategy
  /\ Default \in Strategy
  /\ CountRange \in Nat \ {0}
  /\ Faults \subseteq {"crash", "io", "db", "rot"}
  /\ MaxRuns \in Nat

ASSUME ContentAssumption ==
  /\ None \notin Lba \cup {Hole, Mark, Rot}
  /\ Hole \notin Lba \cup {Mark, Rot}
  /\ Mark \notin Lba \cup {Rot}
  /\ Rot \notin Lba

VARIABLES
  file,     (* what the operating system holds for the image file          *)
  op,       (* the operation row: status and the checkpoint it carries     *)
  images,   (* rows of forensic_images, oldest first                       *)
  audit,    (* operations the audit log has an entry for                   *)
  custody,  (* custody event types recorded for the evidence item          *)
  eng,      (* the engine process, gone when pc is "idle"                  *)
  runs,     (* processes started so far                                    *)
  lost      (* processes that ended without writing all of their buffer    *)

vars == <<file, op, images, audit, custody, eng, runs, lost>>

Min2(a, b) == IF a <= b THEN a ELSE b

Empty == [i \in Cells |-> None]

Gone == [pc |-> "idle", by |-> "acquire", cur |-> 0, saved |-> 0, bad |-> {},
         buf |-> Empty, hashed |-> Empty, digest |-> Empty]

-----------------------------------------------------------------------------
(* A plausible defect: the requested end is not clamped to the device.     *)
LbaBoundsUnclamped(profile) ==
  IF profile = Physical THEN <<0, TotalBlocks - 1>> ELSE profile

(* AcquisitionProfile::lba_bounds.                                         *)
LbaBounds(profile) ==
  IF profile = Physical
    THEN <<0, TotalBlocks - 1>>
    ELSE <<profile[1], Min2(profile[2], TotalBlocks - 1)>>

StrategyOf(by) == IF by = "acquire" THEN Config ELSE Default

(* A plausible defect: the last sector is not counted as remaining.        *)
ChunkLenShort(cur, end, s) == Min2(s.chunk, (end - cur) % CountRange)

(* The sectors one iteration asks for: the remaining count is cast to u32  *)
(* before the minimum is taken.                                            *)
ChunkLen(cur, end, s) == Min2(s.chunk, (end - cur + 1) % CountRange)

(* read_chunk_with_fallback: the sets of sectors it may mark unreadable.   *)
(* The whole chunk is tried max_retries + 1 times; a chunk that keeps      *)
(* failing is read sector by sector, or, when it is no longer than the     *)
(* minimum, marked as one.                                                 *)
ReadOutcomes(sectors, s) ==
  LET bad     == sectors \cap Damaged
      suspect == sectors \cap (Damaged \cup Flaky)
      read    == IF bad = {} THEN {{}} ELSE {}
      fallback == IF Cardinality(sectors) > s.min
                    THEN {m \in SUBSET suspect : bad \subseteq m}
                    ELSE {sectors}
  IN  read \cup (IF suspect = {} THEN {} ELSE fallback)

(* A plausible defect: chunks are written at their LBA on the device.      *)
ChunkCellsAtLba(start, sectors, marked) ==
  [i \in Cells |-> IF i \notin sectors THEN None
                   ELSE IF i \in marked THEN Mark ELSE i]

(* The cells one chunk fills, the placeholder standing for marked sectors. *)
ChunkCells(start, sectors, marked) ==
  [i \in Cells |-> IF start + i \notin sectors THEN None
                   ELSE IF start + i \in marked THEN Mark ELSE start + i]

(* Writing cells b over a file f: a gap below them is zero-filled.         *)
Overlay(f, b) ==
  [i \in Cells |->
     IF b[i] # None THEN b[i]
     ELSE IF f[i] = None /\ \E j \in Cells : j > i /\ b[j] # None
       THEN Hole ELSE f[i]]

(* The operation row with the engine's position and bad-sector map in its  *)
(* checkpoint.                                                             *)
Checkpointed(status) ==
  [op EXCEPT !.status = status, !.cur = eng.cur, !.bad = eng.bad]

(* A plausible defect: the image row takes the map of the last checkpoint. *)
ImageRowOfCheckpoint ==
  [digest |-> eng.digest, bad |-> op.bad, by |-> eng.by]

(* The row record_forensic_image gets.                                     *)
ImageRow == [digest |-> eng.digest, bad |-> eng.bad, by |-> eng.by]

(* A fresh acquisition compares the re-read hash with the rolling one; a   *)
(* resumed one takes the re-read hash for both.                            *)
Accepts == eng.by = "resume" \/ file = eng.hashed

(* CustodyTracker::validate on the engine's events: an item without        *)
(* history opens with an intake.                                           *)
TrackerTakes(type) == custody # {} \/ type = "Received"

-----------------------------------------------------------------------------
Init ==
  /\ file = Empty
  /\ op = [status |-> "None", start |-> 0, end |-> 0, cur |-> 0, bad |-> {}]
  /\ images = <<>>
  /\ audit = {}
  /\ custody = {}
  /\ eng = Gone
  /\ runs = 0
  /\ lost = 0

(* `acquire start`: the writer truncates the output path, the pre-flight   *)
(* check or the vault may refuse, else the operation row is inserted with  *)
(* its initial checkpoint.                                                 *)
Start(profile) ==
  LET bounds == LbaBounds(profile) IN
  /\ eng.pc = "idle" /\ op.status = "None" /\ runs < MaxRuns
  /\ runs' = runs + 1
  /\ file' = Empty
  /\ \/ /\ op' = [status |-> "InProgress", start |-> bounds[1],
                  end |-> bounds[2], cur |-> bounds[1], bad |-> {}]
        /\ eng' = [Gone EXCEPT !.pc = "announce", !.cur = bounds[1],
                               !.saved = bounds[1]]
     \/ UNCHANGED <<op, eng>>
  /\ UNCHANGED <<images, audit, custody, lost>>

(* The audit entry and the custody event of a fresh acquisition.  Both     *)
(* results are discarded: a vault error leaves the entry out.              *)
Announce ==
  /\ eng.pc = "announce"
  /\ \/ audit' = audit \cup {"AcquisitionStarted"}
     \/ "db" \in Faults /\ UNCHANGED audit
  /\ \E type \in {"Received", "AnalysisStarted"} :
       /\ type = "Received" <=> custody = {}
       /\ \/ TrackerTakes(type) /\ custody' = custody \cup {type}
          \/ "db" \in Faults /\ UNCHANGED custody
  /\ eng' = [eng EXCEPT !.pc = "copy"]
  /\ UNCHANGED <<file, op, images, runs, lost>>

(* A plausible defect: resume creates the writer, which truncates.         *)
ResumeTruncating ==
  /\ eng.pc = "idle" /\ op.status # "None" /\ runs < MaxRuns
  /\ runs' = runs + 1
  /\ file' = Empty
  /\ eng' = [Gone EXCEPT !.pc = "copy", !.by = "resume", !.cur = op.cur,
                         !.saved = op.cur, !.bad = op.bad]
  /\ UNCHANGED <<op, images, audit, custody, lost>>

(* A plausible defect: resume copies again from the start of the range.    *)
ResumeFromStart ==
  /\ eng.pc = "idle" /\ op.status # "None" /\ runs < MaxRuns
  /\ runs' = runs + 1
  /\ eng' = [Gone EXCEPT !.pc = "copy", !.by = "resume", !.cur = op.start,
                         !.saved = op.start, !.bad = op.bad]
  /\ UNCHANGED <<file, op, images, audit, custody, lost>>

(* `acquire resume`: the checkpoint is read whatever the status of the row *)
(* and the file is opened without truncation.                              *)
Resume ==
  /\ eng.pc = "idle" /\ op.status # "None" /\ runs < MaxRuns
  /\ runs' = runs + 1
  /\ eng' = [Gone EXCEPT !.pc = "copy", !.by = "resume", !.cur = op.cur,
                         !.saved = op.cur, !.bad = op.bad]
  /\ UNCHANGED <<file, op, images, audit, custody, lost>>

(* One iteration of the copy loop.  The seek of write_image_blocks flushes *)
(* the previous chunk to the file; the chunk just read stays in the        *)
(* BufWriter.  Only `acquire` feeds the rolling hash.                      *)
CopyChunk ==
  /\ eng.pc = "copy" /\ eng.cur <= op.end
  /\ LET s       == StrategyOf(eng.by)
         next    == eng.cur + ChunkLen(eng.cur, op.end, s)
         sectors == eng.cur .. next - 1
     IN \E marked \in ReadOutcomes(sectors, s) :
          LET data == ChunkCells(op.start, sectors, marked) IN
          eng' = [eng EXCEPT
                    !.cur    = next,
                    !.bad    = @ \cup marked,
                    !.buf    = data,
                    !.hashed = IF eng.by = "acquire" THEN Overlay(@, data)
                                                     ELSE @,
                    !.pc     = IF next - eng.saved >= s.interval
                                 THEN "checkpoint" ELSE "copy"]
  /\ file' = Overlay(file, eng.buf)
  /\ UNCHANGED <<op, images, audit, custody, runs, lost>>

(* The periodic checkpoint; its result is discarded too.                   *)
SaveCheckpoint ==
  /\ eng.pc = "checkpoint"
  /\ \/ op' = Checkpointed("InProgress")
     \/ "db" \in Faults /\ UNCHANGED op
  /\ eng' = [eng EXCEPT !.pc = "copy", !.saved = eng.cur]
  /\ UNCHANGED <<file, images, audit, custody, runs, lost>>

(* writer.finalize after the loop: flush.                                  *)
Finalize ==
  /\ eng.pc = "copy" /\ eng.cur > op.end
  /\ file' = Overlay(file, eng.buf)
  /\ eng' = [eng EXCEPT !.pc = "verify", !.buf = Empty]
  /\ UNCHANGED <<op, images, audit, custody, runs, lost>>

(* The re-read of the whole file; a mismatch makes the engine return.      *)
Verify ==
  /\ eng.pc = "verify"
  /\ eng' = IF Accepts
              THEN [eng EXCEPT !.pc = "record", !.digest = file]
              ELSE Gone
  /\ UNCHANGED <<file, op, images, audit, custody, runs, lost>>

(* record_forensic_image; a vault error makes the engine return.           *)
RecordImage ==
  /\ eng.pc = "record"
  /\ \/ /\ images' = Append(images, ImageRow)
        /\ eng' = [eng EXCEPT !.pc = "complete"]
     \/ "db" \in Faults /\ eng' = Gone /\ UNCHANGED images
  /\ UNCHANGED <<file, op, audit, custody, runs, lost>>

(* complete_operation, with the final checkpoint.                          *)
CompleteOperation ==
  /\ eng.pc = "complete"
  /\ \/ /\ op' = Checkpointed("Completed")
        /\ eng' = [eng EXCEPT !.pc = "report"]
     \/ "db" \in Faults /\ eng' = Gone /\ UNCHANGED op
  /\ UNCHANGED <<file, images, audit, custody, runs, lost>>

(* The closing audit entry and, after a resume, the custody event, which   *)
(* the tracker refuses when the item has no history.                       *)
Report ==
  /\ eng.pc = "report"
  /\ \/ audit' = audit \cup {IF eng.by = "acquire"
                               THEN "AcquisitionCompletedAndVerified"
                               ELSE "AcquisitionResumedAndVerified"}
     \/ "db" \in Faults /\ UNCHANGED audit
  /\ \/ /\ eng.by = "resume" /\ TrackerTakes("AnalysisStarted")
        /\ custody' = custody \cup {"AnalysisStarted"}
     \/ /\ \/ eng.by = "acquire" \/ "db" \in Faults
           \/ ~ TrackerTakes("AnalysisStarted")
        /\ UNCHANGED custody
  /\ eng' = Gone
  /\ UNCHANGED <<file, op, images, runs, lost>>

-----------------------------------------------------------------------------
(* The cancellation token is read at the head of the loop.  The caller     *)
(* drops the writer, which flushes.                                        *)
Cancel ==
  /\ eng.pc = "copy" /\ eng.cur <= op.end
  /\ file' = Overlay(file, eng.buf)
  /\ eng' = Gone
  /\ UNCHANGED <<op, images, audit, custody, runs, lost>>

(* A write or a flush of the output fails and the engine returns.  Of the  *)
(* buffer only the cells below some point reached the file.                *)
WriteError ==
  /\ "io" \in Faults /\ eng.pc = "copy"
  /\ \E point \in 0 .. TotalBlocks :
       LET kept == [i \in Cells |-> IF i < point THEN eng.buf[i] ELSE None]
       IN /\ file' = Overlay(file, kept)
          /\ lost' = IF kept = eng.buf THEN lost ELSE lost + 1
  /\ eng' = Gone
  /\ UNCHANGED <<op, images, audit, custody, runs>>

(* The process is killed: the BufWriter goes with it.                      *)
Crash ==
  /\ "crash" \in Faults /\ eng.pc # "idle"
  /\ lost' = IF eng.buf = Empty THEN lost ELSE lost + 1
  /\ eng' = Gone
  /\ UNCHANGED <<file, op, images, audit, custody, runs>>

(* The output medium damages one written cell (bound: one at a time).      *)
Decay ==
  /\ "rot" \in Faults
  /\ \A i \in Cells : file[i] # Rot
  /\ \E i \in Cells : file[i] # None /\ file' = [file EXCEPT ![i] = Rot]
  /\ UNCHANGED <<op, images, audit, custody, eng, runs, lost>>

EngineStep ==
  \/ Announce \/ CopyChunk \/ SaveCheckpoint \/ Finalize
  \/ Verify \/ RecordImage \/ CompleteOperation \/ Report

Next ==
  \/ \E profile \in Profiles : Start(profile)
  \/ Resume
  \/ EngineStep
  \/ Cancel \/ WriteError \/ Crash \/ Decay

Spec == Init /\ [][Next]_vars

(* A process that runs is scheduled; nobody has to start, resume or cancel *)
(* one, and no fault has to happen.                                        *)
FairSpec == Spec /\ WF_vars(EngineStep)

-----------------------------------------------------------------------------
EngineType ==
  [pc : {"idle", "announce", "copy", "checkpoint", "verify", "record",
         "complete", "report"},
   by : {"acquire", "resume"}, cur : Nat, saved : Nat, bad : SUBSET Lba,
   buf : Image, hashed : Image, digest : Image]

(* Type correctness of the stores and of the engine's locals.              *)
TypeOK ==
  /\ file \in Image
  /\ op \in [status : {"None", "InProgress", "Completed"}, start : Nat,
             end : -1 .. TotalBlocks - 1, cur : Nat, bad : SUBSET Lba]
  /\ images \in Seq([digest : Image, bad : SUBSET Lba,
                     by : {"acquire", "resume"}])
  /\ audit \subseteq {"AcquisitionStarted", "AcquisitionCompletedAndVerified",
                      "AcquisitionResumedAndVerified"}
  /\ custody \subseteq {"Received", "AnalysisStarted"}
  /\ eng \in EngineType
  /\ runs \in Nat
  /\ lost \in Nat

(* img holds sector l of the range, or the placeholder when bad lists it.  *)
FaithfulCell(img, bad, l) ==
  img[l - op.start] = IF l \in bad THEN Mark ELSE l

(* The same up to what the medium damaged since it was written.            *)
KeptCell(img, bad, l) == img[l - op.start] = Rot \/ FaithfulCell(img, bad, l)

Faithful(img, bad, upto) ==
  \A l \in op.start .. upto : FaithfulCell(img, bad, l)

Kept(img, bad, upto) == \A l \in op.start .. upto : KeptCell(img, bad, l)

(* "resume exactly where they left off": whenever no process works on the  *)
(* operation, every sector below the checkpoint is in the image file, and  *)
(* the checkpoint's bad-sector map names exactly the placeholders.         *)
CheckpointDescribesImage ==
  eng.pc = "idle" /\ op.status # "None" => Kept(file, op.bad, op.cur - 1)

LargestChunk == IF Config.chunk >= Default.chunk THEN Config.chunk
                                                 ELSE Default.chunk

(* The sectors below the checkpoint, or below the running process's        *)
(* position, that file and buffer do not hold as the map says.             *)
Missing ==
  LET missing(img, bad, upto) ==
        {l \in op.start .. upto : ~ KeptCell(img, bad, l)}
  IN IF eng.pc = "idle"
       THEN missing(file, op.bad, op.cur - 1)
       ELSE missing(Overlay(file, eng.buf), eng.bad, eng.cur - 1)

(* What interruptions cost: at most one chunk per process that lost its    *)
(* buffer.  It rests on the order of buffering, flushing and checkpointing.*)
LossBound == Cardinality(Missing) <= LargestChunk * lost

(* BadSectorMap is authoritative: unless a process lost its buffer, the    *)
(* image of a completed operation was given every sector of its range that *)
(* the operation's map does not list, and placeholders for those it does,  *)
(* whatever was cancelled, refused or repeated on the way.                 *)
CompletedImageFaithful ==
  op.status = "Completed" /\ lost = 0 => Kept(file, op.bad, op.end)

(* The dual-phase check of a fresh acquisition: the hash in an image row   *)
(* that `acquire` wrote is the hash of a complete and faithful image,      *)
(* whatever was lost or damaged on the way.                                *)
FreshImagesFaithful ==
  \A k \in 1 .. Len(images) :
    images[k].by = "acquire" =>
      /\ Faithful(images[k].digest, images[k].bad, op.end)
      /\ \A i \in Cells : op.start + i > op.end => images[k].digest[i] = None

(* The vault never shows a completed operation whose newest image row was  *)
(* not the file's when it was written: the row goes in before the status,  *)
(* and nothing but decay changes the file of a completed operation.        *)
CompletedRowMatchesFile ==
  op.status = "Completed" =>
    /\ images # <<>>
    /\ \A i \in Cells :
         file[i] # Rot => images[Len(images)].digest[i] = file[i]
    /\ images[Len(images)].bad = op.bad

(* The audit log never says an acquisition was completed and verified      *)
(* before (or although) the vault does not.                                *)
AuditFollowsVault ==
  audit \cap {"AcquisitionCompletedAndVerified",
              "AcquisitionResumedAndVerified"} # {}
    => op.status = "Completed"

(* A checkpoint never moves back, whatever process writes it.              *)
CheckpointMonotone == [][op.status # "None" => op'.cur >= op.cur]_vars

(* A process that is scheduled comes to an end: it completes the operation *)
(* or returns an error.                                                    *)
EngineReturns == (eng.pc # "idle") ~> (eng.pc = "idle")

=============================================================================
