---------------------------- MODULE FileErasure ----------------------------
(***************************************************************************)
(* Erasure of single files: the local eraser, which works through the      *)
(* host's file system on a file in use, and the block-device pipeline,     *)
(* which works on extents a parser has resolved.  Both may fail or be cut  *)
(* off at every step.  Writes of the local eraser stay in the host's cache *)
(* until a sync; what was not synced may or may not reach the medium.      *)
(***************************************************************************)
EXTENDS Volume

CONSTANT PassCounts   \* numbers of passes that are asked for (0 among them)

ASSUME PassAssumption == PassCounts \subseteq Nat

VARIABLE job          \* the one erasure of a behaviour

NoJob == [step |-> "none"]
Busy == job.step \in {"write", "sync", "truncate", "remove", "metadata"}
ErasureInit == job = NoJob

\* sectors the file had when the erasure began
Target == job.target

Wiped(f, sectors) == \A l \in sectors : disk[l][1] # f

\* the pattern of pass p: only a pass whose number is the count is zeros, so
\* that a count of 0 leaves random data
Pattern(p) == IF p = job.passes THEN Zero ELSE Noise
LastPass == Max({job.passes, 1})

Overwrite(sectors, content) ==
  disk' = [l \in Lba |-> IF l \in sectors THEN content ELSE disk[l]]

Abandon == job' = [job EXCEPT !.step = "failed", !.dirty = {}]

----------------------------------------------------------------------------
(* erase_local_file_destructive *)

\* the file exists; its length is read once; an empty file is removed at once
BeginLocal(f) ==
  /\ scen.erase /\ job = NoJob /\ f \in Live
  /\ \E passes \in PassCounts :
       job' = [step   |-> IF entry[f].size = 0 THEN "remove" ELSE "write",
               file   |-> f, passes |-> passes, pass |-> 1, dirty |-> {},
               target |-> ToSet(place[f]), zeroMetadata |-> FALSE, wrote |-> TRUE]
  /\ UNCHANGED volume

\* one pass over the length read at the beginning; an error on the way is a Stop
WritePass ==
  /\ job.step = "write"
  /\ job' = [job EXCEPT !.step = "sync", !.dirty = Target]
  /\ UNCHANGED volume

\* plausible defect: the error of a sync is ignored
SyncPassAnyhow ==
  /\ job.step = "sync"
  /\ Overwrite(job.dirty \ scen.bad, Pattern(job.pass))
  /\ job' = [job EXCEPT !.dirty = {}, !.pass = @ + 1,
                        !.step = IF job.pass = LastPass THEN "truncate" ELSE "write"]
  /\ UNCHANGED <<scen, table, used, entry, place, damaged>>

\* sync_all after every pass; a bad sector makes it fail
SyncPass ==
  /\ job.step = "sync"
  /\ IF job.dirty \cap scen.bad = {}
     THEN /\ Overwrite(job.dirty, Pattern(job.pass))
          /\ job' = [job EXCEPT !.dirty = {}, !.pass = @ + 1,
                                !.step = IF job.pass = LastPass THEN "truncate" ELSE "write"]
     ELSE /\ job' = [job EXCEPT !.step = "stopped"]
          /\ UNCHANGED disk
  /\ UNCHANGED <<scen, table, used, entry, place, damaged>>

\* set_len(0) and its sync: the sectors are free
Truncate ==
  /\ job.step = "truncate"
  /\ job' = [job EXCEPT !.step = "remove"]
  /\ Release(job.file, FALSE)
  /\ entry' = [entry EXCEPT ![job.file] = EntryAt(job.file, <<>>)]
  /\ place' = [place EXCEPT ![job.file] = <<>>]
  /\ UNCHANGED <<scen, disk, damaged>>

\* remove_file
Unlink ==
  /\ job.step = "remove"
  /\ job' = [job EXCEPT !.step = "removed"]
  /\ entry' = [entry EXCEPT ![job.file].deleted = TRUE]
  /\ UNCHANGED <<scen, disk, table, used, place, damaged>>

\* the eraser returns an error, or the process or the host stops: of the data
\* still in the cache some part reaches the medium
Stop ==
  /\ Busy \/ job.step = "stopped"
  /\ \E part \in SUBSET (job.dirty \ scen.bad) : Overwrite(part, Pattern(job.pass))
  /\ Abandon
  /\ UNCHANGED <<scen, table, used, entry, place, damaged>>

----------------------------------------------------------------------------
(* execute_file_erasure_pipeline_destructive *)

\* step 2: the extents, one after the other; the first that cannot be written
\* ends the pipeline, with the ones before it overwritten
PipelineData(f) ==
  LET loc == Locate(f).loc
      sound(i) == CanRead([disk |-> disk, bad |-> scen.bad], loc[i][1], loc[i][2])
      good == {n \in 0..Len(loc) : \A i \in 1..n : sound(i)}
  IN
  /\ scen.erase /\ job = NoJob /\ f \in DOMAIN entry
  /\ ~(IsFat /\ Loops(table, entry[f].start))
  /\ \E passes \in PassCounts, zero \in BOOLEAN :
       /\ Overwrite(Covered(SubSeq(loc, 1, Max(good))), IF passes = 0 THEN Noise ELSE Zero)
       /\ job' = [step   |-> IF Max(good) = Len(loc) THEN "metadata" ELSE "failed",
                  file   |-> f, passes |-> passes, pass |-> 1, dirty |-> {},
                  target |-> IF f \in Live THEN ToSet(place[f]) ELSE {},
                  zeroMetadata |-> zero, wrote |-> Covered(loc) # {} \/ loc = <<>>]
  /\ UNCHANGED <<scen, table, used, entry, place, damaged>>

\* the entries in the sector of f's entry: its directory, or inode table, is one
SameRecordSector(f) ==
  IF scen.kind = "ntfs" THEN {f}
  ELSE {g \in DOMAIN entry : IsFat => (g \in scen.nested <=> f \in scen.nested)}

\* ResidualArtifactScanner::scan, to which the pipeline passes no traces
ResidualScan(data, metadata, journal) ==
  CASE data /\ metadata /\ journal    -> "Sanitized"
    [] data /\ ~(metadata /\ journal) -> "PartiallySanitized"
    [] OTHER                          -> "ResidualTracesDetected"

\* step 3: offset 0 and the length of a block are passed, so the whole sector
\* of the record is zeroed; no record is as good as a zeroed one, and the
\* journal counts as scrubbed
PipelineMetadata ==
  /\ job.step = "metadata"
  /\ job' = [job EXCEPT !.step = ResidualScan(job.wrote, TRUE, TRUE)]
  /\ entry' = IF job.zeroMetadata
              THEN Restrict(entry, DOMAIN entry \ SameRecordSector(job.file)) ELSE entry
  /\ UNCHANGED <<scen, disk, table, used, place, damaged>>

----------------------------------------------------------------------------
(* The host works on while a file is erased; it may append to that file. *)

Host ==
  /\ \/ job = NoJob /\ (MakeDirectory \/ Delete(Dir) \/ \E f \in Files : Store(f) \/ Delete(f))
     \/ Busy /\ job.step # "metadata" /\ entry[job.file].size > 0 /\ Grow(job.file)
     \/ job = NoJob /\ Damage
  /\ UNCHANGED job

ErasureStep ==
  \/ \E f \in Files : BeginLocal(f) \/ PipelineData(f)
  \/ WritePass \/ SyncPass \/ Truncate \/ Unlink \/ Stop \/ PipelineMetadata
=============================================================================
