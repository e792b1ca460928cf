-------------------------- MODULE AcquisitionProofs --------------------------
(* Theorems about Acquisition, for every device, damage, profile and       *)
(* strategy, and for any number of processes.                              *)
EXTENDS Acquisition, FiniteSetTheorems, TLAPS

USE ConstantsAssumption

-----------------------------------------------------------------------------
(* The operators the actions are built from.                               *)

(* What a remainder is: at most the number, and below the divisor.         *)
LEMMA Remainder ==
  ASSUME NEW n \in Nat, NEW m \in Nat \ {0}
  PROVE  n % m \in 0 .. n
BY SMT

(* One iteration asks for no more than a chunk, nor than what remains of   *)
(* the range.                                                              *)
LEMMA ChunkLenBound ==
  ASSUME NEW cur \in Nat, NEW end \in Int, cur <= end, NEW s \in Strategy
  PROVE  /\ ChunkLen(cur, end, s) \in 0 .. end - cur + 1
         /\ ChunkLen(cur, end, s) <= s.chunk
<1>1. end - cur + 1 \in Nat
  OBVIOUS
<1>2. (end - cur + 1) % CountRange \in 0 .. end - cur + 1
  BY <1>1, Remainder
<1>3. s.chunk \in Nat
  BY DEF Strategy
<1> QED
  BY <1>2, <1>3 DEF ChunkLen, Min2

LEMMA OverlayType ==
  ASSUME NEW f \in Image, NEW b \in Image
  PROVE  Overlay(f, b) \in Image
BY DEF Overlay, Image

LEMMA ChunkCellsType ==
  ASSUME NEW start \in Nat, NEW sectors \in SUBSET Lba, NEW marked
  PROVE  ChunkCells(start, sectors, marked) \in Image
BY DEF ChunkCells, Image, Cells

LEMMA ReadOutcomesType ==
  ASSUME NEW sectors \in SUBSET Lba, NEW s, NEW marked \in ReadOutcomes(sectors, s)
  PROVE  marked \subseteq sectors
BY DEF ReadOutcomes

LEMMA LbaBoundsType ==
  ASSUME NEW profile \in Profiles
  PROVE  /\ LbaBounds(profile)[1] \in Nat
         /\ LbaBounds(profile)[2] \in -1 .. TotalBlocks - 1
BY DEF LbaBounds, Min2

-----------------------------------------------------------------------------
(* Type correctness.                                                       *)

LEMMA InitTypeOK == Init => TypeOK
BY DEF Init, TypeOK, EngineType, Empty, Gone, Image

LEMMA NextTypeOK == TypeOK /\ [Next]_vars => TypeOK'
<1> SUFFICES ASSUME TypeOK, [Next]_vars PROVE TypeOK'
  OBVIOUS
<1> USE DEF TypeOK, EngineType
<1>0. Empty \in Image
  BY DEF Empty, Image
<1>1. Gone \in EngineType
  BY <1>0 DEF Gone
<1>2. ASSUME NEW profile \in Profiles, Start(profile) PROVE TypeOK'
  <2> DEFINE bounds == LbaBounds(profile)
  <2>1. bounds[1] \in Nat /\ bounds[2] \in -1 .. TotalBlocks - 1
    BY LbaBoundsType
  <2> HIDE DEF bounds
  <2>2. op' \in [status : {"None", "InProgress", "Completed"}, start : Nat,
                 end : -1 .. TotalBlocks - 1, cur : Nat, bad : SUBSET Lba]
    <3>1. \/ op' = [status |-> "InProgress", start |-> bounds[1],
                    end |-> bounds[2], cur |-> bounds[1], bad |-> {}]
          \/ op' = op
      BY <1>2, Zenon DEF Start, bounds
    <3>2. [status |-> "InProgress", start |-> bounds[1], end |-> bounds[2],
           cur |-> bounds[1], bad |-> {}]
            \in [status : {"None", "InProgress", "Completed"}, start : Nat,
                 end : -1 .. TotalBlocks - 1, cur : Nat, bad : SUBSET Lba]
      BY <2>1
    <3> QED BY <3>1, <3>2
  <2>3. [Gone EXCEPT !.pc = "announce", !.cur = bounds[1],
                     !.saved = bounds[1]] \in EngineType
    BY <1>1, <2>1
  <2>4. eng' \in EngineType
    BY <1>2, <2>3 DEF Start, bounds
  <2>5. file' = Empty /\ runs' = runs + 1
        /\ UNCHANGED <<images, audit, custody, lost>>
    BY <1>2 DEF Start
  <2> QED
    BY <1>0, <2>2, <2>4, <2>5
<1>3. CASE Announce
  BY <1>3 DEF Announce
<1>4. CASE Resume
  <2>1. [Gone EXCEPT !.pc = "copy", !.by = "resume", !.cur = op.cur,
                     !.saved = op.cur, !.bad = op.bad] \in EngineType
    BY <1>1
  <2>2. eng' \in EngineType
    BY <1>4, <2>1 DEF Resume
  <2>3. runs' \in Nat
    BY <1>4 DEF Resume
  <2>4. UNCHANGED <<file, op, images, audit, custody, lost>>
    BY <1>4 DEF Resume
  <2> QED
    BY <2>2, <2>3, <2>4
<1>5. CASE CopyChunk
  <2> DEFINE s       == StrategyOf(eng.by)
             next    == eng.cur + ChunkLen(eng.cur, op.end, s)
             sectors == eng.cur .. next - 1
  <2>1. s \in Strategy
    BY DEF StrategyOf
  <2>2. next \in Nat /\ sectors \in SUBSET Lba
    <3>0. eng.cur \in Nat /\ op.end \in Int /\ eng.cur <= op.end
      BY <1>5 DEF CopyChunk
    <3>1. ChunkLen(eng.cur, op.end, s) \in 0 .. op.end - eng.cur + 1
      <4> HIDE DEF s
      <4> QED BY ONLY <2>1, <3>0, ChunkLenBound
    <3>2. next \in Nat /\ next <= TotalBlocks
      BY <3>1
    <3> QED
      BY <3>2 DEF Lba
  <2>3. PICK marked \in ReadOutcomes(sectors, s) :
          LET data == ChunkCells(op.start, sectors, marked) IN
          eng' = [eng EXCEPT
                    !.cur    = next,
                    !.bad    = @ \cup marked,
                    !.buf    = data,
                    !.hashed = IF eng.by = "acquire" THEN Overlay(@, data)
                                                     ELSE @,
                    !.pc     = IF next - eng.saved >= s.interval
                                 THEN "checkpoint" ELSE "copy"]
    BY <1>5 DEF CopyChunk
  <2> DEFINE data == ChunkCells(op.start, sectors, marked)
  <2>4. data \in Image /\ Overlay(eng.hashed, data) \in Image
    BY <2>2, ChunkCellsType, OverlayType
  <2>5. marked \in SUBSET Lba
    BY <2>2, ReadOutcomesType
  <2>6. eng' \in EngineType
    <3> HIDE DEF next, sectors, data, s
    <3> QED BY <2>2, <2>3, <2>4, <2>5 DEF data
  <2>7. file' \in Image
    BY <1>5, OverlayType DEF CopyChunk
  <2> QED
    BY <1>5, <2>6, <2>7 DEF CopyChunk
<1>6. CASE SaveCheckpoint
  BY <1>6 DEF SaveCheckpoint, Checkpointed
<1>7. CASE Finalize
  BY <1>0, <1>7, OverlayType DEF Finalize
<1>8. CASE Verify
  BY <1>1, <1>8 DEF Verify
<1>9. CASE RecordImage
  <2>1. ImageRow \in [digest : Image, bad : SUBSET Lba,
                      by : {"acquire", "resume"}]
    BY DEF ImageRow
  <2>2. images' \in Seq([digest : Image, bad : SUBSET Lba,
                         by : {"acquire", "resume"}])
    <3>1. CASE images' = Append(images, ImageRow)
      BY <2>1, <3>1
    <3>2. CASE UNCHANGED images
      BY <3>2
    <3> QED
      BY <1>9, <3>1, <3>2 DEF RecordImage
  <2>3. eng' \in EngineType
    BY <1>1, <1>9 DEF RecordImage
  <2> QED
    BY <1>9, <2>2, <2>3 DEF RecordImage
<1>10. CASE CompleteOperation
  <2>1. op' \in [status : {"None", "InProgress", "Completed"}, start : Nat,
                 end : -1 .. TotalBlocks - 1, cur : Nat, bad : SUBSET Lba]
    BY <1>10 DEF CompleteOperation, Checkpointed
  <2>2. eng' \in EngineType
    BY <1>1, <1>10 DEF CompleteOperation
  <2>3. UNCHANGED <<file, images, audit, custody, runs, lost>>
    BY <1>10 DEF CompleteOperation
  <2> QED
    BY <2>1, <2>2, <2>3
<1>11. CASE Report
  BY <1>1, <1>11 DEF Report
<1>12. CASE Cancel
  BY <1>1, <1>12, OverlayType DEF Cancel
<1>13. CASE WriteError
  <2>1. PICK point \in 0 .. TotalBlocks :
          LET kept == [i \in Cells |-> IF i < point THEN eng.buf[i] ELSE None]
          IN /\ file' = Overlay(file, kept)
             /\ lost' = IF kept = eng.buf THEN lost ELSE lost + 1
    BY <1>13 DEF WriteError
  <2>2. [i \in Cells |-> IF i < point THEN eng.buf[i] ELSE None] \in Image
    BY DEF Image
  <2>3. file' \in Image /\ lost' \in Nat
    BY <2>1, <2>2, OverlayType
  <2>4. eng' = Gone /\ UNCHANGED <<op, images, audit, custody, runs>>
    BY <1>13 DEF WriteError
  <2> QED
    BY <1>1, <2>3, <2>4
<1>14. CASE Crash
  BY <1>1, <1>14 DEF Crash
<1>15. CASE Decay
  BY <1>15 DEF Decay, Image
<1>16. CASE UNCHANGED vars
  BY <1>16 DEF vars
<1> QED
  BY <1>2, <1>3, <1>4, <1>5, <1>6, <1>7, <1>8, <1>9, <1>10, <1>11, <1>12,
     <1>13, <1>14, <1>15, <1>16 DEF Next, EngineStep

(* The stores and the engine's locals keep their types, whatever fails.    *)
THEOREM TypeCorrect == Spec => []TypeOK
<1>1. Init => TypeOK
  BY InitTypeOK
<1>2. TypeOK /\ [Next]_vars => TypeOK'
  BY NextTypeOK
<1> QED
  BY <1>1, <1>2, PTL DEF Spec

-----------------------------------------------------------------------------
(* The inductive invariants.                                               *)

Closing == {"verify", "record", "complete", "report"}

(* A position is inside the range, one past its end, or at its start (the  *)
(* range may be empty).                                                    *)
InRange(cur) == op.start <= cur /\ (cur <= op.end + 1 \/ cur = op.start)

(* Where the row and the process stand, and what follows from it.          *)
PositionInv ==
  /\ op.status = "None" => eng.pc = "idle" /\ images = <<>> /\ audit = {}
  /\ op.status # "None" => InRange(op.cur)
  /\ eng.pc # "idle" => InRange(eng.cur) /\ op.cur <= eng.cur
  /\ eng.pc = "idle" => eng.buf = Empty
  /\ eng.pc \in Closing => eng.cur > op.end /\ eng.buf = Empty
  /\ op.status = "Completed" =>
       /\ op.cur > op.end
       /\ eng.buf = Empty
       /\ eng.pc \notin {"announce", "checkpoint"}
  /\ eng.pc = "report" => op.status = "Completed"
  /\ AuditFollowsVault

(* What a cell holds once the sectors below cur are copied with map bad.   *)
Copied(start, i, cur, bad) ==
  IF start + i >= cur THEN None
  ELSE IF start + i \in bad THEN Mark ELSE start + i

CopyOf(img, start, cur, bad) ==
  \A i \in Cells : img[i] = Copied(start, i, cur, bad)

(* The rolling hash covers exactly the sectors a fresh process copied.     *)
FreshInv ==
  /\ eng.pc # "idle" /\ eng.by = "acquire" =>
       /\ eng.bad \subseteq op.start .. eng.cur - 1
       /\ CopyOf(eng.hashed, op.start, eng.cur, eng.bad)
  /\ eng.pc = "record" /\ eng.by = "acquire" => eng.digest = eng.hashed
  /\ FreshImagesFaithful

(* The checkpoint's map is the process's map below the checkpoint, and,    *)
(* unless a buffer was lost, file and buffer together hold what was copied.*)
CleanInv ==
  op.status # "None" =>
    /\ op.bad \subseteq op.start .. op.cur - 1
    /\ eng.pc # "idle" =>
         /\ eng.bad \subseteq op.start .. eng.cur - 1
         /\ op.bad = {l \in eng.bad : l < op.cur}
    /\ lost = 0 /\ eng.pc = "idle" => Kept(file, op.bad, op.cur - 1)
    /\ lost = 0 /\ eng.pc # "idle" =>
         Kept(Overlay(file, eng.buf), eng.bad, eng.cur - 1)

-----------------------------------------------------------------------------
(* The positions.                                                          *)

(* What one iteration of the copy loop does to the process.                *)
LEMMA CopyStep ==
  ASSUME TypeOK, CopyChunk
  PROVE  \E next \in eng.cur .. op.end + 1, marked \in SUBSET Lba :
           LET data == ChunkCells(op.start, eng.cur .. next - 1, marked) IN
           /\ marked \subseteq eng.cur .. next - 1
           /\ next - eng.cur <= StrategyOf(eng.by).chunk
           /\ data \in Image
           /\ eng'.pc \in {"copy", "checkpoint"}
           /\ eng'.by = eng.by /\ eng'.cur = next
           /\ eng'.saved = eng.saved /\ eng'.digest = eng.digest
           /\ eng'.bad = eng.bad \cup marked
           /\ eng'.buf = data
           /\ eng'.hashed = IF eng.by = "acquire" THEN Overlay(eng.hashed, data)
                                                  ELSE eng.hashed
<1> DEFINE s       == StrategyOf(eng.by)
           next    == eng.cur + ChunkLen(eng.cur, op.end, s)
           sectors == eng.cur .. next - 1
<1>1. s \in Strategy
  BY DEF StrategyOf
<1>2. /\ ChunkLen(eng.cur, op.end, s) \in 0 .. op.end - eng.cur + 1
      /\ ChunkLen(eng.cur, op.end, s) <= s.chunk
  <2>1. eng.cur \in Nat
    BY DEF TypeOK, EngineType
  <2>2. op.end \in Int
    BY DEF TypeOK
  <2>3. eng.cur <= op.end
    BY DEF CopyChunk
  <2> HIDE DEF s
  <2> QED
    BY ONLY <1>1, <2>1, <2>2, <2>3, ChunkLenBound
<1>3. /\ next \in eng.cur .. op.end + 1 /\ next <= TotalBlocks
      /\ next - eng.cur <= s.chunk
  <2>1. eng.cur \in Nat /\ TotalBlocks \in Nat /\ op.end \in Int /\ op.end < TotalBlocks
    BY ConstantsAssumption DEF TypeOK, EngineType
  <2>2. s.chunk \in Nat
    BY <1>1 DEF Strategy
  <2> HIDE DEF s
  <2> QED BY ONLY <1>2, <2>1, <2>2
<1>4. sectors \in SUBSET Lba
  BY <1>3 DEF Lba, TypeOK, EngineType
<1>5. PICK marked \in ReadOutcomes(sectors, s) :
        LET data == ChunkCells(op.start, sectors, marked) IN
        eng' = [eng EXCEPT
                  !.cur    = next,
                  !.bad    = @ \cup marked,
                  !.buf    = data,
                  !.hashed = IF eng.by = "acquire" THEN Overlay(@, data)
                                                   ELSE @,
                  !.pc     = IF next - eng.saved >= s.interval
                               THEN "checkpoint" ELSE "copy"]
  BY DEF CopyChunk
<1>6. marked \subseteq sectors
  BY <1>4, ReadOutcomesType
<1>7. ChunkCells(op.start, sectors, marked) \in Image
  BY <1>4, ChunkCellsType DEF TypeOK
<1> HIDE DEF next
<1> QED
  BY <1>3, <1>4, <1>5, <1>6, <1>7 DEF TypeOK, EngineType

LEMMA InitPositionInv == Init => PositionInv
BY DEF Init, PositionInv, Gone, Closing, AuditFollowsVault

LEMMA NextPositionInv == TypeOK /\ PositionInv /\ [Next]_vars => PositionInv'
<1> SUFFICES ASSUME TypeOK, PositionInv, [Next]_vars PROVE PositionInv'
  OBVIOUS
<1> USE DEF PositionInv, InRange, Closing, AuditFollowsVault
<1>1. Gone.pc = "idle" /\ Gone.buf = Empty
  BY DEF Gone
<1>2. ASSUME NEW profile \in Profiles, Start(profile) PROVE PositionInv'
  <2>1. CASE UNCHANGED <<op, eng>>
    BY <1>2, <2>1 DEF Start
  <2> DEFINE bounds == LbaBounds(profile)
  <2>2. CASE /\ op' = [status |-> "InProgress", start |-> bounds[1],
                       end |-> bounds[2], cur |-> bounds[1], bad |-> {}]
             /\ eng' = [Gone EXCEPT !.pc = "announce", !.cur = bounds[1],
                                    !.saved = bounds[1]]
    <3>1. /\ op'.start = bounds[1] /\ op'.cur = op'.start
          /\ op'.status = "InProgress"
          /\ eng'.pc = "announce" /\ eng'.cur = op'.start
          /\ op.status = "None" /\ UNCHANGED <<images, audit>>
      BY <1>2, <2>2 DEF Start, Gone
    <3>2. op'.start \in Nat
      BY <3>1, LbaBoundsType
    <3> QED
      BY <3>1, <3>2
  <2> HIDE DEF bounds
  <2> QED
    BY <1>2, <2>1, <2>2 DEF Start, bounds
<1>3. CASE Announce
  BY <1>3 DEF Announce, TypeOK, EngineType
<1>4. CASE Resume
  BY <1>4 DEF Resume, Gone, TypeOK
<1>5. CASE CopyChunk
  <2>1. UNCHANGED <<op, images, audit>> /\ eng.pc = "copy" /\ eng.cur <= op.end
    BY <1>5 DEF CopyChunk
  <2>2. PICK next \in eng.cur .. op.end + 1 :
          eng'.pc \in {"copy", "checkpoint"} /\ eng'.cur = next
    BY <1>5, CopyStep
  <2>3. op.start \in Nat /\ op.end \in Int /\ op.cur \in Nat /\ eng.cur \in Nat /\ next \in Nat
    BY DEF TypeOK, EngineType
  <2> QED
    BY <2>1, <2>2, <2>3
<1>6. CASE SaveCheckpoint
  <2>1. /\ op'.start = op.start /\ op'.end = op.end
        /\ op'.cur \in {op.cur, eng.cur}
        /\ op'.status \in {op.status, "InProgress"}
    BY <1>6 DEF SaveCheckpoint, Checkpointed, TypeOK
  <2>2. eng.pc = "checkpoint" /\ eng'.pc = "copy" /\ eng'.cur = eng.cur
        /\ UNCHANGED <<images, audit>>
    BY <1>6 DEF SaveCheckpoint, TypeOK, EngineType
  <2> QED
    BY <2>1, <2>2 DEF TypeOK, EngineType
<1>7. CASE Finalize
  BY <1>7 DEF Finalize, TypeOK, EngineType
<1>8. CASE Verify
  BY <1>1, <1>8 DEF Verify, TypeOK, EngineType
<1>9. CASE RecordImage
  BY <1>1, <1>9 DEF RecordImage, TypeOK, EngineType
<1>10. CASE CompleteOperation
  <2>1. CASE op' = op /\ eng' = Gone
    BY <1>1, <1>10, <2>1 DEF CompleteOperation
  <2>2. CASE op' = Checkpointed("Completed")
             /\ eng' = [eng EXCEPT !.pc = "report"]
    <3>1. /\ op'.start = op.start /\ op'.end = op.end
          /\ op'.cur = eng.cur /\ op'.status = "Completed"
      BY <2>2 DEF Checkpointed, TypeOK
    <3>2. eng.pc = "complete" /\ eng'.pc = "report" /\ eng'.buf = Empty
          /\ eng'.cur = eng.cur /\ UNCHANGED <<images, audit>>
      BY <1>10, <2>2 DEF CompleteOperation, TypeOK, EngineType
    <3> QED
      BY <3>1, <3>2 DEF TypeOK, EngineType
  <2> QED
    BY <1>10, <2>1, <2>2 DEF CompleteOperation
<1>11. CASE Report
  BY <1>1, <1>11 DEF Report, TypeOK, EngineType
<1>12. CASE Cancel
  BY <1>1, <1>12 DEF Cancel
<1>13. CASE WriteError
  BY <1>1, <1>13 DEF WriteError
<1>14. CASE Crash
  BY <1>1, <1>14 DEF Crash
<1>15. CASE Decay
  BY <1>15 DEF Decay
<1>16. CASE UNCHANGED vars
  BY <1>16 DEF vars
<1> QED
  BY <1>2, <1>3, <1>4, <1>5, <1>6, <1>7, <1>8, <1>9, <1>10, <1>11, <1>12,
     <1>13, <1>14, <1>15, <1>16 DEF Next, EngineStep

-----------------------------------------------------------------------------
(* The rolling hash and the image rows of fresh acquisitions.              *)

(* A chunk written over the copy of the sectors below it is the copy of    *)
(* the sectors below its end.                                              *)
LEMMA OverlayCopied ==
  ASSUME NEW start \in Nat, NEW cur \in Nat, NEW next \in Nat,
         start <= cur, cur <= next, next <= TotalBlocks,
         NEW bad \in SUBSET (start .. cur - 1),
         NEW marked \in SUBSET (cur .. next - 1),
         NEW f \in Image,
         CopyOf(f, start, cur, bad)
  PROVE  CopyOf(Overlay(f, ChunkCells(start, cur .. next - 1, marked)),
                start, next, bad \cup marked)
<1> SUFFICES ASSUME NEW i \in Cells
             PROVE  Overlay(f, ChunkCells(start, cur .. next - 1, marked))[i]
                      = Copied(start, i, next, bad \cup marked)
  BY DEF CopyOf
<1>0. f[i] = Copied(start, i, cur, bad)
  BY DEF CopyOf
<1> DEFINE data == ChunkCells(start, cur .. next - 1, marked)
<1>1. i \in Nat /\ Cells \subseteq Nat
  BY DEF Cells
<1>2. \A j \in Cells : data[j] # None => start + j \in cur .. next - 1
  BY DEF ChunkCells
<1>3. \A j \in Cells : start + j \in cur .. next - 1 => data[j] # None
  BY ContentAssumption, next <= TotalBlocks DEF ChunkCells, Lba
<1>4. Overlay(f, data)[i] =
        IF data[i] # None THEN data[i]
        ELSE IF f[i] = None /\ \E j \in Cells : j > i /\ data[j] # None
          THEN Hole ELSE f[i]
  BY DEF Overlay
<1>5. CASE start + i \in cur .. next - 1
  <2>1. data[i] = IF start + i \in marked THEN Mark ELSE start + i
    BY <1>5 DEF ChunkCells
  <2> QED
    BY <1>1, <1>3, <1>4, <1>5, <2>1 DEF Copied
<1>6. CASE start + i < cur
  <2>1. data[i] = None
    BY <1>1, <1>2, <1>6
  <2>2. f[i] # None
    BY <1>0, <1>1, <1>6, ContentAssumption DEF Copied, Lba
  <2>3. start + i \notin marked
    BY <1>1, <1>6
  <2> QED
    BY <1>0, <1>1, <1>4, <1>6, <2>1, <2>2, <2>3 DEF Copied
<1>7. CASE start + i >= next
  <2>1. data[i] = None
    BY <1>1, <1>2, <1>7
  <2>2. \A j \in Cells : j > i => data[j] = None
    BY <1>1, <1>2, <1>7
  <2>3. f[i] = None
    BY <1>0, <1>1, <1>7 DEF Copied
  <2> QED
    BY <1>1, <1>4, <1>7, <2>1, <2>2, <2>3 DEF Copied
<1> QED
  BY <1>1, <1>5, <1>6, <1>7

(* Steps that leave the range, the image rows and the process's copy alone.*)
LEMMA FreshFrame ==
  ASSUME FreshInv, op'.start = op.start, op'.end = op.end, images' = images,
         \/ eng'.pc = "idle"
         \/ eng'.by = "resume"
         \/ /\ eng.pc # "idle"
            /\ eng'.by = eng.by /\ eng'.cur = eng.cur /\ eng'.bad = eng.bad
            /\ eng'.hashed = eng.hashed /\ eng'.digest = eng.digest
            /\ eng'.pc = "record" => eng.pc = "record"
  PROVE  FreshInv'
<1>1. FreshImagesFaithful'
  BY DEF FreshInv, FreshImagesFaithful, Faithful, FaithfulCell
<1> QED
  BY <1>1 DEF FreshInv

LEMMA InitFreshInv == Init => FreshInv
BY DEF Init, FreshInv, Gone, FreshImagesFaithful

LEMMA NextFreshInv ==
  TypeOK /\ PositionInv /\ FreshInv /\ [Next]_vars => FreshInv'
<1> SUFFICES ASSUME TypeOK, PositionInv, FreshInv, [Next]_vars
             PROVE  FreshInv'
  OBVIOUS
<1>1. Gone.pc = "idle"
  BY DEF Gone
<1>2. ASSUME NEW profile \in Profiles, Start(profile) PROVE FreshInv'
  <2> DEFINE bounds == LbaBounds(profile)
  <2>1. images = <<>> /\ images' = images /\ op.status = "None"
    BY <1>2 DEF Start, PositionInv
  <2>2. CASE UNCHANGED <<op, eng>>
    BY <2>1, <2>2, FreshFrame DEF PositionInv
  <2>3. CASE /\ op' = [status |-> "InProgress", start |-> bounds[1],
                       end |-> bounds[2], cur |-> bounds[1], bad |-> {}]
             /\ eng' = [Gone EXCEPT !.pc = "announce", !.cur = bounds[1],
                                    !.saved = bounds[1]]
    <3>1. /\ eng'.pc = "announce" /\ eng'.cur = op'.start /\ eng'.bad = {}
          /\ eng'.hashed = Empty /\ op'.start \in Nat
      BY <2>3, LbaBoundsType DEF Gone
    <3>2. CopyOf(Empty, op'.start, op'.start, {})
      BY <3>1 DEF Empty, CopyOf, Copied, Cells
    <3> QED
      BY <2>1, <3>1, <3>2 DEF FreshInv, FreshImagesFaithful
  <2> HIDE DEF bounds
  <2> QED
    BY <1>2, <2>2, <2>3 DEF Start, bounds
<1>3. CASE Announce
  BY <1>3, FreshFrame DEF Announce, TypeOK, EngineType
<1>4. CASE Resume
  BY <1>4, FreshFrame DEF Resume, Gone
<1>5. CASE CopyChunk
  <2>1. PICK next \in eng.cur .. op.end + 1, marked \in SUBSET Lba :
          LET data == ChunkCells(op.start, eng.cur .. next - 1, marked) IN
          /\ marked \subseteq eng.cur .. next - 1
          /\ eng'.pc \in {"copy", "checkpoint"}
          /\ eng'.by = eng.by /\ eng'.cur = next
          /\ eng'.bad = eng.bad \cup marked
          /\ eng'.hashed = IF eng.by = "acquire" THEN Overlay(eng.hashed, data)
                                                 ELSE eng.hashed
    BY <1>5, CopyStep
  <2>2. UNCHANGED <<op, images>> /\ eng.pc = "copy" /\ eng.cur <= op.end
    BY <1>5 DEF CopyChunk
  <2>3. FreshImagesFaithful'
    BY <2>2 DEF FreshInv, FreshImagesFaithful, Faithful, FaithfulCell
  <2>4. CASE eng.by = "resume"
    BY <2>1, <2>2, <2>3, <2>4 DEF FreshInv
  <2>5. CASE eng.by = "acquire"
    <3>1. /\ eng.cur \in Nat /\ next \in Nat /\ op.start \in Nat
          /\ op.start <= eng.cur /\ eng.cur <= next /\ next <= TotalBlocks
          /\ eng.hashed \in Image
      BY <2>2 DEF TypeOK, EngineType, PositionInv, InRange
    <3>2. /\ eng.bad \in SUBSET (op.start .. eng.cur - 1)
          /\ CopyOf(eng.hashed, op.start, eng.cur, eng.bad)
      BY <2>2, <2>5 DEF FreshInv
    <3>3. marked \in SUBSET (eng.cur .. next - 1)
      BY <2>1
    <3>4. CopyOf(Overlay(eng.hashed,
                         ChunkCells(op.start, eng.cur .. next - 1, marked)),
                 op.start, next, eng.bad \cup marked)
      BY <3>1, <3>2, <3>3, OverlayCopied
    <3>5. eng.bad \cup marked \subseteq op.start .. next - 1
      BY <3>1, <3>2, <3>3
    <3> QED
      BY <2>1, <2>2, <2>3, <2>5, <3>4, <3>5 DEF FreshInv
  <2> QED
    BY <2>4, <2>5 DEF TypeOK, EngineType
<1>6. CASE SaveCheckpoint
  <2>1. op'.start = op.start /\ op'.end = op.end
    BY <1>6 DEF SaveCheckpoint, Checkpointed, TypeOK
  <2> QED
    BY <1>6, <2>1, FreshFrame DEF SaveCheckpoint, TypeOK, EngineType
<1>7. CASE Finalize
  BY <1>7, FreshFrame DEF Finalize, TypeOK, EngineType
<1>8. CASE Verify
  <2>1. CASE eng' = Gone
    BY <1>1, <1>8, <2>1, FreshFrame DEF Verify
  <2>2. CASE Accepts /\ eng' = [eng EXCEPT !.pc = "record", !.digest = file]
    <3>1. /\ eng'.by = eng.by /\ eng'.cur = eng.cur /\ eng'.bad = eng.bad
          /\ eng'.hashed = eng.hashed /\ eng'.digest = file
      BY <2>2 DEF TypeOK, EngineType
    <3>2. eng.by = "acquire" => eng'.digest = eng'.hashed
      BY <2>2, <3>1 DEF Accepts
    <3>3. UNCHANGED <<op, images>> /\ eng.pc = "verify"
      BY <1>8 DEF Verify
    <3>4. FreshImagesFaithful'
      BY <3>3 DEF FreshInv, FreshImagesFaithful, Faithful, FaithfulCell
    <3> QED
      BY <3>1, <3>2, <3>3, <3>4 DEF FreshInv
  <2> QED
    BY <1>8, <2>1, <2>2 DEF Verify
<1>9. CASE RecordImage
  <2>1. CASE eng' = Gone /\ UNCHANGED images
    BY <1>1, <1>9, <2>1, FreshFrame DEF RecordImage
  <2>2. CASE /\ images' = Append(images, ImageRow)
             /\ eng' = [eng EXCEPT !.pc = "complete"]
    <3>1. UNCHANGED op /\ eng.pc = "record"
      BY <1>9 DEF RecordImage
    <3>2. /\ eng'.pc = "complete" /\ eng'.by = eng.by /\ eng'.cur = eng.cur
          /\ eng'.bad = eng.bad /\ eng'.hashed = eng.hashed
      BY <2>2 DEF TypeOK, EngineType
    <3>3. ASSUME eng.by = "acquire"
          PROVE  /\ Faithful(eng.digest, eng.bad, op.end)
                 /\ \A i \in Cells : op.start + i > op.end
                                       => eng.digest[i] = None
      <4>1. \A i \in Cells :
              eng.digest[i] = Copied(op.start, i, eng.cur, eng.bad)
        BY <3>1, <3>3 DEF FreshInv, CopyOf
      <4>2. /\ op.start \in Nat /\ op.end \in -1 .. TotalBlocks - 1
            /\ eng.cur \in Nat /\ eng.cur > op.end
            /\ eng.cur <= op.end + 1 \/ eng.cur = op.start
        BY <3>1 DEF TypeOK, EngineType, PositionInv, InRange, Closing
      <4>3. ASSUME NEW l \in op.start .. op.end
            PROVE  FaithfulCell(eng.digest, eng.bad, l)
        <5>1. l - op.start \in Cells /\ op.start + (l - op.start) = l
          BY <4>2 DEF Cells
        <5>2. eng.digest[l - op.start] = Copied(op.start, l - op.start, eng.cur, eng.bad)
          BY <4>1, <5>1
        <5> QED
          BY <4>2, <5>1, <5>2 DEF FaithfulCell, Copied
      <4>4. ASSUME NEW i \in Cells, op.start + i > op.end
            PROVE  eng.digest[i] = None
        BY <4>1, <4>2, <4>4 DEF Copied, Cells
      <4> QED
        BY <4>3, <4>4 DEF Faithful
    <3>4. FreshImagesFaithful'
      <4> SUFFICES ASSUME NEW k \in 1 .. Len(images'),
                          images'[k].by = "acquire"
                   PROVE  /\ Faithful(images'[k].digest, images'[k].bad, op.end)
                          /\ \A i \in Cells : op.start + i > op.end
                                                => images'[k].digest[i] = None
        BY <3>1 DEF FreshImagesFaithful, Faithful, FaithfulCell
      <4>1. Len(images') = Len(images) + 1 /\ Len(images) \in Nat
        BY <2>2 DEF TypeOK
      <4>2. CASE k \in 1 .. Len(images)
        <5>1. images'[k] = images[k]
          BY <2>2, <4>2 DEF TypeOK
        <5> QED
          BY <4>2, <5>1 DEF FreshInv, FreshImagesFaithful
      <4>3. CASE k = Len(images) + 1
        <5>1. images'[k] = ImageRow
          BY <2>2, <4>3 DEF TypeOK
        <5> QED
          BY <3>3, <5>1 DEF ImageRow
      <4> QED
        BY <4>1, <4>2, <4>3
    <3> QED
      BY <3>1, <3>2, <3>4 DEF FreshInv
  <2> QED
    BY <1>9, <2>1, <2>2 DEF RecordImage
<1>10. CASE CompleteOperation
  <2>1. op'.start = op.start /\ op'.end = op.end
    BY <1>10 DEF CompleteOperation, Checkpointed, TypeOK
  <2> QED
    BY <1>1, <1>10, <2>1, FreshFrame DEF CompleteOperation, TypeOK, EngineType
<1>11. CASE Report
  BY <1>1, <1>11, FreshFrame DEF Report
<1>12. CASE Cancel
  BY <1>1, <1>12, FreshFrame DEF Cancel
<1>13. CASE WriteError
  BY <1>1, <1>13, FreshFrame DEF WriteError
<1>14. CASE Crash
  BY <1>1, <1>14, FreshFrame DEF Crash
<1>15. CASE Decay
  <2>1. UNCHANGED <<op, images, eng>>
    BY <1>15 DEF Decay
  <2> QED
    BY <2>1 DEF FreshInv, FreshImagesFaithful, Faithful, FaithfulCell
<1>16. CASE UNCHANGED vars
  <2>1. UNCHANGED <<op, images, eng>>
    BY <1>16 DEF vars
  <2> QED
    BY <2>1 DEF FreshInv, FreshImagesFaithful, Faithful, FaithfulCell
<1> QED
  BY <1>2, <1>3, <1>4, <1>5, <1>6, <1>7, <1>8, <1>9, <1>10, <1>11, <1>12,
     <1>13, <1>14, <1>15, <1>16 DEF Next, EngineStep

(* Whatever crashes, write errors, vault errors and storage decay occur,   *)
(* an image row written by a fresh acquisition carries the hash of a       *)
(* complete copy of the range, in which exactly the sectors of the row's   *)
(* bad-sector map are placeholders (engine.rs, phase 2).                   *)
THEOREM FreshImagesAreFaithful == Spec => []FreshImagesFaithful
<1>1. Init => TypeOK /\ PositionInv /\ FreshInv
  BY InitTypeOK, InitPositionInv, InitFreshInv
<1>2. TypeOK /\ PositionInv /\ FreshInv /\ [Next]_vars
        => TypeOK' /\ PositionInv' /\ FreshInv'
  BY NextTypeOK, NextPositionInv, NextFreshInv
<1>3. FreshInv => FreshImagesFaithful
  BY DEF FreshInv
<1> QED
  BY <1>1, <1>2, <1>3, PTL DEF Spec

(* No completion entry is in the audit log unless the operation row says   *)
(* Completed: the log is written last and the status never goes back.      *)
THEOREM AuditNeverAhead == Spec => []AuditFollowsVault
<1>1. Init => TypeOK /\ PositionInv
  BY InitTypeOK, InitPositionInv
<1>2. TypeOK /\ PositionInv /\ [Next]_vars => TypeOK' /\ PositionInv'
  BY NextTypeOK, NextPositionInv
<1>3. PositionInv => AuditFollowsVault
  BY DEF PositionInv
<1> QED
  BY <1>1, <1>2, <1>3, PTL DEF Spec

(* No process, fresh or resumed, ever stores a checkpoint below the stored *)
(* one.                                                                    *)
THEOREM CheckpointsAdvance == Spec => CheckpointMonotone
<1>1. Init => TypeOK /\ PositionInv
  BY InitTypeOK, InitPositionInv
<1>2. TypeOK /\ PositionInv /\ [Next]_vars => TypeOK' /\ PositionInv'
  BY NextTypeOK, NextPositionInv
<1>3. TypeOK /\ PositionInv /\ [Next]_vars
        => [op.status # "None" => op'.cur >= op.cur]_vars
  <2> SUFFICES ASSUME TypeOK, PositionInv, [Next]_vars, op.status # "None"
               PROVE  op'.cur >= op.cur
    OBVIOUS
  <2>1. op.cur \in Nat
    BY DEF TypeOK
  <2>2. CASE UNCHANGED op
    BY <2>1, <2>2
  <2>3. CASE SaveCheckpoint \/ CompleteOperation
    <3>1. op'.cur \in {op.cur, eng.cur} /\ eng.pc # "idle"
      BY <2>3 DEF SaveCheckpoint, CompleteOperation, Checkpointed, TypeOK
    <3> QED
      BY <2>1, <3>1 DEF PositionInv
  <2>4. ~ \E profile \in Profiles : Start(profile)
    BY DEF Start
  <2> QED
    BY <2>2, <2>3, <2>4 DEF Next, EngineStep, Announce, Resume, CopyChunk,
       Finalize, Verify, RecordImage, Report, Cancel, WriteError, Crash,
       Decay, vars
<1> QED
  BY <1>1, <1>2, <1>3, PTL DEF Spec, CheckpointMonotone

-----------------------------------------------------------------------------
(* Checkpoints and completed images when no buffer is lost.                *)

LEMMA OverlayEmpty ==
  ASSUME NEW f \in Image
  PROVE  Overlay(f, Empty) = f
<1>1. \A i \in Cells : Empty[i] = None
  BY DEF Empty
<1>2. \A i \in Cells : Overlay(f, Empty)[i] = f[i]
  BY <1>1 DEF Overlay
<1>3. Overlay(f, Empty) \in Image
  BY OverlayType DEF Empty, Image
<1> QED
  BY <1>2, <1>3 DEF Image

(* The next chunk written over a copy of the sectors below cur: its own    *)
(* sectors are kept, and so is every sector that was.                      *)
LEMMA OverlayKeptCell ==
  ASSUME TypeOK,
         NEW cur \in Nat, NEW next \in Nat,
         op.start <= cur, cur <= next, next <= op.end + 1,
         NEW bad \in SUBSET (op.start .. cur - 1),
         NEW marked \in SUBSET (cur .. next - 1),
         NEW f \in Image,
         NEW l \in op.start .. next - 1,
         l < cur => KeptCell(f, bad, l)
  PROVE  KeptCell(Overlay(f, ChunkCells(op.start, cur .. next - 1, marked)),
                  bad \cup marked, l)
<1> DEFINE data == ChunkCells(op.start, cur .. next - 1, marked)
<1>0. op.start \in Nat /\ op.end \in -1 .. TotalBlocks - 1
  BY DEF TypeOK
<1> DEFINE i == l - op.start
<1>1. i \in Cells /\ op.start + i = l /\ l \in Lba
  BY <1>0 DEF Cells, Lba
<1>2. Overlay(f, data)[i] =
        IF data[i] # None THEN data[i]
        ELSE IF f[i] = None /\ \E j \in Cells : j > i /\ data[j] # None
          THEN Hole ELSE f[i]
  BY <1>1 DEF Overlay
<1>3. CASE l >= cur
  <2>1. data[i] = IF l \in marked THEN Mark ELSE l
    BY <1>0, <1>1, <1>3 DEF ChunkCells
  <2>2. data[i] # None /\ l \notin bad
    BY <1>1, <1>3, <2>1, ContentAssumption
  <2> QED
    BY <1>2, <2>1, <2>2 DEF KeptCell, FaithfulCell
<1>4. CASE l < cur
  <2>1. data[i] = None /\ l \notin marked
    BY <1>0, <1>1, <1>4 DEF ChunkCells
  <2>2. f[i] = Rot \/ f[i] = IF l \in bad THEN Mark ELSE l
    BY <1>4, <1>0 DEF KeptCell, FaithfulCell
  <2>3. f[i] # None
    BY <1>1, <2>2, ContentAssumption
  <2> QED
    BY <1>2, <2>1, <2>2, <2>3 DEF KeptCell, FaithfulCell
<1> QED
  BY <1>0, <1>3, <1>4

(* A kept copy of the sectors below cur, overlaid with the next chunk, is  *)
(* a kept copy of the sectors below its end.                               *)
LEMMA OverlayKept ==
  ASSUME TypeOK,
         NEW cur \in Nat, NEW next \in Nat,
         op.start <= cur, cur <= next, next <= op.end + 1,
         NEW bad \in SUBSET (op.start .. cur - 1),
         NEW marked \in SUBSET (cur .. next - 1),
         NEW f \in Image,
         Kept(f, bad, cur - 1)
  PROVE  Kept(Overlay(f, ChunkCells(op.start, cur .. next - 1, marked)),
              bad \cup marked, next - 1)
<1> SUFFICES ASSUME NEW l \in op.start .. next - 1
             PROVE  KeptCell(Overlay(f, ChunkCells(op.start, cur .. next - 1, marked)),
                             bad \cup marked, l)
  BY DEF Kept
<1>1. l < cur => KeptCell(f, bad, l)
  BY DEF Kept, TypeOK
<1> QED
  BY <1>1, OverlayKeptCell

(* A running process that touches neither the row nor what file and buffer *)
(* hold together.                                                          *)
LEMMA CleanFrame ==
  ASSUME CleanInv, op' = op, eng.pc # "idle", eng'.pc # "idle",
         eng'.bad = eng.bad, eng'.cur = eng.cur, lost' = lost,
         Overlay(file', eng'.buf) = Overlay(file, eng.buf)
  PROVE  CleanInv'
BY DEF CleanInv, Kept, KeptCell, FaithfulCell

(* A process that ends, and either leaves its buffer in the file or counts *)
(* as one that lost it.                                                    *)
LEMMA CleanReturn ==
  ASSUME TypeOK, PositionInv, CleanInv, op' = op, eng.pc # "idle", eng' = Gone,
         lost' = 0 => lost = 0 /\ file' = Overlay(file, eng.buf)
  PROVE  CleanInv'
<1>1. eng'.pc = "idle"
  BY DEF Gone
<1>2. op.status # "None"
  BY DEF PositionInv
<1>3. /\ op.bad \subseteq op.start .. op.cur - 1
      /\ op.bad = {l \in eng.bad : l < op.cur}
  BY <1>2 DEF CleanInv
<1>4. /\ op.cur \in Nat /\ eng.cur \in Nat /\ op.cur <= eng.cur
      /\ op.start \in Nat
  BY <1>2 DEF TypeOK, EngineType, PositionInv
<1>5. ASSUME lost' = 0, NEW l \in op.start .. op.cur - 1
      PROVE  KeptCell(file', op.bad, l)
  <2>1. l \in op.start .. eng.cur - 1 /\ l < op.cur
    BY <1>4
  <2>2. KeptCell(file', eng.bad, l)
    BY <1>2, <1>5, <2>1 DEF CleanInv, Kept
  <2> QED
    BY <1>3, <2>1, <2>2 DEF KeptCell, FaithfulCell
<1>6. lost' = 0 => Kept(file', op.bad, op.cur - 1)
  BY <1>5 DEF Kept
<1> QED
  BY <1>1, <1>2, <1>3, <1>6 DEF CleanInv, Kept, KeptCell, FaithfulCell

(* The same for the steps after the flush, when the buffer is empty.       *)
LEMMA CleanClose ==
  ASSUME TypeOK, PositionInv, CleanInv, op' = op, file' = file, lost' = lost,
         eng.pc \in Closing, eng' = Gone
  PROVE  CleanInv'
BY CleanReturn, OverlayEmpty DEF PositionInv, Closing, TypeOK

(* Damage to a written cell leaves every cell kept that was.               *)
LEMMA DecayKept ==
  ASSUME TypeOK, NEW b \in Image, NEW bad, Decay,
         NEW l \in op.start .. op.end, KeptCell(Overlay(file, b), bad, l)
  PROVE  KeptCell(Overlay(file', b), bad, l)
<1>1. PICK k \in Cells : file[k] # None /\ file' = [file EXCEPT ![k] = Rot]
  BY DEF Decay
<1> DEFINE i == l - op.start
<1>2. i \in Cells
  BY DEF Cells, TypeOK
<1>3. /\ file'[i] = IF i = k THEN Rot ELSE file[i]
      /\ file'[i] = None <=> file[i] = None
  BY <1>1, <1>2, ContentAssumption DEF TypeOK, Image
<1>4. Overlay(file', b)[i] \in {Overlay(file, b)[i], Rot}
  BY <1>2, <1>3 DEF Overlay
<1>5. UNCHANGED op
  BY DEF Decay
<1> QED
  BY <1>4, <1>5 DEF KeptCell, FaithfulCell

LEMMA InitCleanInv == Init => CleanInv
BY DEF Init, CleanInv

LEMMA NextCleanInv ==
  TypeOK /\ PositionInv /\ CleanInv /\ [Next]_vars => CleanInv'
<1> SUFFICES ASSUME TypeOK, PositionInv, CleanInv, [Next]_vars
             PROVE  CleanInv'
  OBVIOUS
<1>1. Gone.pc = "idle" /\ Gone.buf = Empty
  BY DEF Gone
<1>2. ASSUME NEW profile \in Profiles, Start(profile) PROVE CleanInv'
  <2> DEFINE bounds == LbaBounds(profile)
  <2>1. CASE UNCHANGED op
    BY <1>2, <2>1 DEF Start, CleanInv
  <2>2. CASE /\ op' = [status |-> "InProgress", start |-> bounds[1],
                       end |-> bounds[2], cur |-> bounds[1], bad |-> {}]
             /\ eng' = [Gone EXCEPT !.pc = "announce", !.cur = bounds[1],
                                    !.saved = bounds[1]]
    <3>1. /\ op'.start \in Nat /\ op'.cur = op'.start /\ op'.bad = {}
          /\ eng'.pc = "announce" /\ eng'.cur = op'.start /\ eng'.bad = {}
      BY <2>2, LbaBoundsType DEF Gone
    <3>2. op'.start .. op'.start - 1 = {}
      BY <3>1
    <3> QED
      BY <3>1, <3>2 DEF CleanInv, Kept
  <2> HIDE DEF bounds
  <2> QED
    BY <1>2, <2>1, <2>2 DEF Start, bounds
<1>3. CASE Announce
  BY <1>3, CleanFrame DEF Announce, TypeOK, EngineType
<1>4. CASE Resume
  <2>1. /\ eng.pc = "idle" /\ op.status # "None" /\ UNCHANGED <<file, op, lost>>
        /\ eng'.pc = "copy" /\ eng'.cur = op.cur /\ eng'.bad = op.bad
        /\ eng'.buf = Empty
    BY <1>4 DEF Resume, Gone
  <2>2. Overlay(file', eng'.buf) = file
    BY <2>1, OverlayEmpty DEF TypeOK
  <2>3. /\ op.bad \subseteq op.start .. op.cur - 1
        /\ lost = 0 => Kept(file, op.bad, op.cur - 1)
    BY <2>1 DEF CleanInv
  <2>4. op.bad = {l \in op.bad : l < op.cur}
    BY <2>3 DEF TypeOK
  <2> QED
    BY <2>1, <2>2, <2>3, <2>4 DEF CleanInv, Kept, KeptCell, FaithfulCell
<1>5. CASE CopyChunk
  <2>1. PICK next \in eng.cur .. op.end + 1, marked \in SUBSET Lba :
          LET data == ChunkCells(op.start, eng.cur .. next - 1, marked) IN
          /\ marked \subseteq eng.cur .. next - 1
          /\ eng'.pc \in {"copy", "checkpoint"}
          /\ eng'.cur = next
          /\ eng'.bad = eng.bad \cup marked
          /\ eng'.buf = data
    BY <1>5, CopyStep
  <2>2. UNCHANGED <<op, lost>> /\ eng.pc = "copy" /\ eng.cur <= op.end
        /\ file' = Overlay(file, eng.buf)
    BY <1>5 DEF CopyChunk
  <2>3. /\ op.status # "None" /\ op.start \in Nat /\ op.cur \in Nat
        /\ eng.cur \in Nat /\ next \in Nat /\ next <= op.end + 1
        /\ op.start <= eng.cur /\ op.cur <= eng.cur /\ eng.cur <= next
    BY <2>2 DEF TypeOK, EngineType, PositionInv, InRange
  <2>4. /\ op.bad \subseteq op.start .. op.cur - 1
        /\ eng.bad \in SUBSET (op.start .. eng.cur - 1)
        /\ op.bad = {l \in eng.bad : l < op.cur}
        /\ lost = 0 => Kept(file', eng.bad, eng.cur - 1)
    BY <2>2, <2>3 DEF CleanInv
  <2>5. marked \in SUBSET (eng.cur .. next - 1)
    BY <2>1
  <2>6. file' \in Image
    BY <2>2, OverlayType DEF TypeOK, EngineType
  <2>7. lost = 0 =>
          Kept(Overlay(file', ChunkCells(op.start, eng.cur .. next - 1, marked)),
               eng.bad \cup marked, next - 1)
    BY <2>3, <2>4, <2>5, <2>6, OverlayKept
  <2>8. eng.bad \cup marked \subseteq op.start .. next - 1
    <3>1. /\ op.start .. eng.cur - 1 \subseteq op.start .. next - 1
          /\ eng.cur .. next - 1 \subseteq op.start .. next - 1
      BY <2>3
    <3> QED
      BY <2>4, <2>5, <3>1
  <2>9. op.bad = {l \in eng.bad \cup marked : l < op.cur}
    <3>1. \A l \in marked : ~ (l < op.cur)
      BY <2>3, <2>5
    <3>2. op.bad = {l \in eng.bad : l < op.cur}
      BY <2>4
    <3> QED
      BY <3>1, <3>2
  <2> QED
    BY <2>1, <2>2, <2>3, <2>4, <2>7, <2>8, <2>9
    DEF CleanInv, Kept, KeptCell, FaithfulCell
<1>6. CASE SaveCheckpoint
  <2>1. /\ eng.pc = "checkpoint" /\ eng'.pc = "copy" /\ file' = file
        /\ lost' = lost
        /\ eng'.bad = eng.bad /\ eng'.cur = eng.cur /\ eng'.buf = eng.buf
    BY <1>6 DEF SaveCheckpoint, TypeOK, EngineType
  <2>2. CASE UNCHANGED op
    BY <2>1, <2>2, CleanFrame
  <2>3. CASE op' = Checkpointed("InProgress")
    <3>1. op'.start = op.start /\ op'.cur = eng.cur /\ op'.bad = eng.bad
      BY <2>3 DEF Checkpointed, TypeOK
    <3>2. op.status # "None"
      BY <2>1 DEF PositionInv
    <3>3. /\ eng.bad \subseteq op.start .. eng.cur - 1
          /\ lost = 0 => Kept(Overlay(file, eng.buf), eng.bad, eng.cur - 1)
      BY <2>1, <3>2 DEF CleanInv
    <3>4. eng.bad = {l \in eng.bad : l < eng.cur}
      BY <3>3 DEF TypeOK, EngineType
    <3> QED
      BY <2>1, <3>1, <3>3, <3>4 DEF CleanInv, Kept, KeptCell, FaithfulCell
  <2> QED
    BY <1>6, <2>2, <2>3 DEF SaveCheckpoint
<1>7. CASE Finalize
  <2>1. /\ eng.pc = "copy" /\ eng'.pc = "verify" /\ op' = op
        /\ lost' = lost
        /\ eng'.bad = eng.bad /\ eng'.cur = eng.cur /\ eng'.buf = Empty
        /\ file' = Overlay(file, eng.buf)
    BY <1>7 DEF Finalize, TypeOK, EngineType
  <2>2. Overlay(file', eng'.buf) = Overlay(file, eng.buf)
    BY <2>1, OverlayType, OverlayEmpty DEF TypeOK, EngineType
  <2> QED
    BY <2>1, <2>2, CleanFrame
<1>8. CASE Verify
  <2>1. CASE eng' = Gone
    BY <1>8, <2>1, CleanClose DEF Verify, Closing
  <2>2. CASE eng' = [eng EXCEPT !.pc = "record", !.digest = file]
    BY <1>8, <2>2, CleanFrame DEF Verify, TypeOK, EngineType
  <2> QED
    BY <1>8, <2>1, <2>2 DEF Verify
<1>9. CASE RecordImage
  <2>1. CASE eng' = Gone
    BY <1>9, <2>1, CleanClose DEF RecordImage, Closing
  <2>2. CASE eng' = [eng EXCEPT !.pc = "complete"]
    BY <1>9, <2>2, CleanFrame DEF RecordImage, TypeOK, EngineType
  <2> QED
    BY <1>9, <2>1, <2>2 DEF RecordImage
<1>10. CASE CompleteOperation
  <2>1. CASE op' = op /\ eng' = Gone
    BY <1>10, <2>1, CleanClose DEF CompleteOperation, Closing
  <2>2. CASE op' = Checkpointed("Completed")
             /\ eng' = [eng EXCEPT !.pc = "report"]
    <3>1. op'.start = op.start /\ op'.cur = eng.cur /\ op'.bad = eng.bad
      BY <2>2 DEF Checkpointed, TypeOK
    <3>2. /\ eng.pc = "complete" /\ eng'.pc = "report" /\ file' = file
          /\ lost' = lost
          /\ eng'.bad = eng.bad /\ eng'.cur = eng.cur /\ eng'.buf = eng.buf
      BY <1>10, <2>2 DEF CompleteOperation, TypeOK, EngineType
    <3>3. op.status # "None"
      BY <3>2 DEF PositionInv
    <3>4. /\ eng.bad \subseteq op.start .. eng.cur - 1
          /\ lost = 0 => Kept(Overlay(file, eng.buf), eng.bad, eng.cur - 1)
      BY <3>2, <3>3 DEF CleanInv
    <3>5. eng.bad = {l \in eng.bad : l < eng.cur}
      BY <3>4 DEF TypeOK, EngineType
    <3> QED
      BY <3>1, <3>2, <3>4, <3>5 DEF CleanInv, Kept, KeptCell, FaithfulCell
  <2> QED
    BY <1>10, <2>1, <2>2 DEF CompleteOperation
<1>11. CASE Report
  BY <1>11, CleanClose DEF Report, Closing
<1>12. CASE Cancel
  BY <1>12, CleanReturn DEF Cancel
<1>13. CASE WriteError
  <2>1. PICK point \in 0 .. TotalBlocks :
          LET kept == [i \in Cells |-> IF i < point THEN eng.buf[i] ELSE None]
          IN /\ file' = Overlay(file, kept)
             /\ lost' = IF kept = eng.buf THEN lost ELSE lost + 1
    BY <1>13 DEF WriteError
  <2>2. lost' = 0 => lost = 0 /\ file' = Overlay(file, eng.buf)
    BY <2>1 DEF TypeOK
  <2> QED
    BY <1>13, <2>2, CleanReturn DEF WriteError
<1>14. CASE Crash
  <2>1. lost' = 0 => lost = 0 /\ eng.buf = Empty /\ file' = file
    BY <1>14 DEF Crash, TypeOK
  <2>2. lost' = 0 => lost = 0 /\ file' = Overlay(file, eng.buf)
    BY <2>1, OverlayEmpty DEF TypeOK
  <2> QED
    BY <1>14, <2>2, CleanReturn DEF Crash
<1>15. CASE Decay
  <2>1. UNCHANGED <<op, eng, lost>>
    BY <1>15 DEF Decay
  <2>2. CASE op.status = "None"
    BY <2>1, <2>2 DEF CleanInv
  <2>3. CASE op.status # "None" /\ eng.pc = "idle"
    <3>1. Overlay(file, Empty) = file /\ Overlay(file', Empty) = file'
      BY <1>15, NextTypeOK, OverlayEmpty DEF TypeOK, Next
    <3>2. Empty \in Image
      BY DEF Empty, Image
    <3>3. op.cur \in Nat /\ op.start \in Nat /\ op.end \in Int
          /\ InRange(op.cur)
      BY <2>3 DEF TypeOK, PositionInv
    <3>4. CASE op.cur <= op.end + 1
      <4>1. lost = 0 => Kept(file', op.bad, op.cur - 1)
        BY <1>15, <2>3, <3>1, <3>2, <3>3, <3>4, DecayKept DEF CleanInv, Kept
      <4> QED
        BY <2>1, <2>3, <4>1 DEF CleanInv, Kept, KeptCell, FaithfulCell
    <3>5. CASE op.cur = op.start
      BY <2>1, <2>3, <3>3, <3>5 DEF CleanInv, Kept
    <3> QED
      BY <3>3, <3>4, <3>5 DEF InRange
  <2>4. CASE op.status # "None" /\ eng.pc # "idle"
    <3>1. eng.cur \in Nat /\ op.start \in Nat /\ op.end \in Int
          /\ eng.buf \in Image /\ InRange(eng.cur)
      BY <2>4 DEF TypeOK, EngineType, PositionInv
    <3>2. CASE eng.cur <= op.end + 1
      <4>1. lost = 0 => Kept(Overlay(file', eng.buf), eng.bad, eng.cur - 1)
        BY <1>15, <2>4, <3>1, <3>2, DecayKept DEF CleanInv, Kept
      <4> QED
        BY <2>1, <2>4, <4>1 DEF CleanInv, Kept, KeptCell, FaithfulCell
    <3>3. CASE eng.cur = op.start
      BY <2>1, <2>4, <3>1, <3>3 DEF CleanInv, Kept
    <3> QED
      BY <3>1, <3>2, <3>3 DEF InRange
  <2> QED
    BY <2>2, <2>3, <2>4
<1>16. CASE UNCHANGED vars
  BY <1>16 DEF vars, CleanInv, Kept, KeptCell, FaithfulCell
<1> QED
  BY <1>2, <1>3, <1>4, <1>5, <1>6, <1>7, <1>8, <1>9, <1>10, <1>11, <1>12,
     <1>13, <1>14, <1>15, <1>16 DEF Next, EngineStep

LEMMA CleanSafety ==
  ASSUME TypeOK, PositionInv, CleanInv
  PROVE  CompletedImageFaithful
<1> SUFFICES ASSUME op.status = "Completed", lost = 0
             PROVE  Kept(file, op.bad, op.end)
  BY DEF CompletedImageFaithful
<1>1. /\ op.cur \in Nat /\ op.end \in Int /\ op.start \in Nat
      /\ op.cur > op.end
  BY DEF TypeOK, PositionInv
<1>2. CASE eng.pc = "idle"
  BY <1>1, <1>2 DEF CleanInv, Kept
<1>3. CASE eng.pc # "idle"
  <2>1. /\ op.bad = {l \in eng.bad : l < op.cur}
        /\ Kept(Overlay(file, eng.buf), eng.bad, eng.cur - 1)
    BY <1>3 DEF CleanInv
  <2>2. Overlay(file, eng.buf) = file
    BY OverlayEmpty DEF PositionInv, TypeOK
  <2>3. eng.cur \in Nat /\ op.cur <= eng.cur
    BY <1>3 DEF TypeOK, EngineType, PositionInv
  <2> SUFFICES ASSUME NEW l \in op.start .. op.end
               PROVE  KeptCell(file, op.bad, l)
    BY DEF Kept
  <2>4. l \in op.start .. eng.cur - 1 /\ l < op.cur
    BY <1>1, <2>3
  <2> QED
    BY <2>1, <2>2, <2>4 DEF Kept, KeptCell, FaithfulCell
<1> QED
  BY <1>2, <1>3

(* Unless a process lost its buffer, a completed image was given every     *)
(* sector of its range, over any number of cancellations, resumptions,     *)
(* vault errors and damage.  It fails with a lost buffer: acq_crash.       *)
THEOREM ResumeIsExact == Spec => []CompletedImageFaithful
<1>1. Init => TypeOK /\ PositionInv /\ CleanInv
  BY InitTypeOK, InitPositionInv, InitCleanInv
<1>2. TypeOK /\ PositionInv /\ CleanInv /\ [Next]_vars
        => TypeOK' /\ PositionInv' /\ CleanInv'
  BY NextTypeOK, NextPositionInv, NextCleanInv
<1>3. TypeOK /\ PositionInv /\ CleanInv => CompletedImageFaithful
  BY CleanSafety
<1> QED
  BY <1>1, <1>2, <1>3, PTL DEF Spec

-----------------------------------------------------------------------------
(* The newest image row and the file.                                      *)

(* What a digest says of the file, up to what decayed since it was taken.  *)
Matches(digest) == \A i \in Cells : file[i] # Rot => digest[i] = file[i]

NewestRow(bad) ==
  /\ images # <<>>
  /\ Matches(images[Len(images)].digest)
  /\ images[Len(images)].bad = bad

(* The row is made of the digest, and a process that works on a completed  *)
(* operation has its map and nothing to write.                             *)
RowInv ==
  /\ eng.pc = "record" => Matches(eng.digest)
  /\ eng.pc = "complete" => NewestRow(eng.bad)
  /\ op.status = "Completed" =>
       /\ NewestRow(op.bad)
       /\ eng.pc # "idle" => eng.bad = op.bad

(* A step that writes neither rows nor, once it counts, the file.          *)
LEMMA RowFrame ==
  ASSUME RowInv, op' = op, images' = images,
         op.status = "Completed" => file' = file,
         eng'.pc \notin {"record", "complete"},
         op.status = "Completed" /\ eng'.pc # "idle" => eng'.bad = op.bad
  PROVE  RowInv'
BY DEF RowInv, NewestRow, Matches

LEMMA AppendedIsNewest ==
  ASSUME TypeOK, images' = Append(images, ImageRow)
  PROVE  images' # <<>> /\ images'[Len(images')] = ImageRow
<1>1. Len(images) \in Nat /\ Len(images') = Len(images) + 1
  BY DEF TypeOK
<1>2. images'[Len(images) + 1] = ImageRow
  BY DEF TypeOK
<1> QED
  BY <1>1, <1>2

LEMMA DecayMatches ==
  ASSUME TypeOK, Decay, NEW digest, Matches(digest)
  PROVE  Matches(digest)'
BY DEF Decay, Matches, TypeOK, Image

LEMMA InitRowInv == Init => RowInv
BY DEF Init, RowInv, Gone

LEMMA NextRowInv == TypeOK /\ PositionInv /\ RowInv /\ [Next]_vars => RowInv'
<1> SUFFICES ASSUME TypeOK, PositionInv, RowInv, [Next]_vars PROVE RowInv'
  OBVIOUS
<1>1. Gone.pc = "idle"
  BY DEF Gone
<1>2. op.status = "Completed" => eng.buf = Empty /\ op.cur > op.end
  BY DEF PositionInv
<1>3. op.status = "Completed" /\ eng.pc # "idle" => eng.cur > op.end
  BY <1>2 DEF PositionInv, TypeOK, EngineType
<1>4. ASSUME NEW profile \in Profiles, Start(profile) PROVE RowInv'
  <2>1. op.status = "None" /\ eng.pc = "idle"
    BY <1>4 DEF Start
  <2>2. \/ op' = op /\ eng' = eng
        \/ op'.status = "InProgress" /\ eng'.pc = "announce"
    <3> DEFINE bounds == LbaBounds(profile)
    <3>1. CASE UNCHANGED <<op, eng>>
      BY <3>1
    <3>2. CASE /\ op' = [status |-> "InProgress", start |-> bounds[1],
                         end |-> bounds[2], cur |-> bounds[1], bad |-> {}]
               /\ eng' = [Gone EXCEPT !.pc = "announce", !.cur = bounds[1],
                                      !.saved = bounds[1]]
      <4> HIDE DEF bounds
      <4> QED
        BY <3>2 DEF Gone
    <3> QED
      BY <1>4, <3>1, <3>2 DEF Start
  <2> QED
    BY <2>1, <2>2 DEF RowInv
<1>5. CASE Announce
  BY <1>5, RowFrame DEF Announce, PositionInv, TypeOK, EngineType, RowInv
<1>6. CASE Resume
  BY <1>6, RowFrame DEF Resume, Gone
<1>7. CASE CopyChunk
  <2>1. op.status # "Completed" /\ op' = op /\ images' = images
    BY <1>3, <1>7 DEF CopyChunk, TypeOK, EngineType
  <2>2. eng'.pc \in {"copy", "checkpoint"}
    BY <1>7, CopyStep
  <2> QED
    BY <2>1, <2>2, RowFrame
<1>8. CASE SaveCheckpoint
  <2>1. op.status # "Completed" /\ eng'.pc = "copy" /\ images' = images
    BY <1>8 DEF SaveCheckpoint, PositionInv, TypeOK, EngineType
  <2>2. op'.status # "Completed"
    BY <1>8, <2>1 DEF SaveCheckpoint, Checkpointed, TypeOK
  <2> QED
    BY <2>1, <2>2 DEF RowInv
<1>9. CASE Finalize
  <2>1. op.status = "Completed" => file' = file
    BY <1>2, <1>9, OverlayEmpty DEF Finalize, TypeOK
  <2> QED
    BY <1>9, <2>1, RowFrame DEF Finalize, RowInv, TypeOK, EngineType
<1>10. CASE Verify
  <2>1. CASE eng' = Gone
    BY <1>1, <1>10, <2>1, RowFrame DEF Verify
  <2>2. CASE eng' = [eng EXCEPT !.pc = "record", !.digest = file]
    <3>1. eng'.pc = "record" /\ eng'.digest = file /\ eng'.bad = eng.bad
      BY <2>2 DEF TypeOK, EngineType
    <3>2. UNCHANGED <<file, op, images>> /\ eng.pc = "verify"
      BY <1>10 DEF Verify
    <3> QED
      BY <3>1, <3>2 DEF RowInv, NewestRow, Matches
  <2> QED
    BY <1>10, <2>1, <2>2 DEF Verify
<1>11. CASE RecordImage
  <2>1. CASE eng' = Gone /\ UNCHANGED images
    BY <1>1, <1>11, <2>1, RowFrame DEF RecordImage
  <2>2. CASE images' = Append(images, ImageRow) /\ eng' = [eng EXCEPT !.pc = "complete"]
    <3>1. eng'.pc = "complete" /\ eng'.bad = eng.bad
      BY <2>2 DEF TypeOK, EngineType
    <3>2. UNCHANGED <<file, op>> /\ eng.pc = "record"
      BY <1>11 DEF RecordImage
    <3>3. images' # <<>> /\ images'[Len(images')] = ImageRow
      BY <2>2, AppendedIsNewest
    <3>4. NewestRow(eng.bad)'
      BY <3>1, <3>2, <3>3 DEF RowInv, NewestRow, Matches, ImageRow
    <3> QED
      BY <3>1, <3>2, <3>4 DEF RowInv
  <2> QED
    BY <1>11, <2>1, <2>2 DEF RecordImage
<1>12. CASE CompleteOperation
  <2>1. UNCHANGED <<file, images>> /\ eng.pc = "complete"
    BY <1>12 DEF CompleteOperation
  <2>2. CASE eng' = Gone /\ UNCHANGED op
    BY <1>1, <2>1, <2>2, RowFrame
  <2>3. CASE op' = Checkpointed("Completed") /\ eng' = [eng EXCEPT !.pc = "report"]
    <3>1. op'.bad = eng.bad /\ eng'.bad = eng.bad /\ eng'.pc = "report"
      BY <2>3 DEF Checkpointed, TypeOK, EngineType
    <3> QED
      BY <2>1, <3>1 DEF RowInv, NewestRow, Matches
  <2> QED
    BY <1>12, <2>2, <2>3 DEF CompleteOperation
<1>13. CASE Report
  BY <1>1, <1>13, RowFrame DEF Report
<1>14. CASE Cancel
  BY <1>1, <1>3, <1>14, RowFrame DEF Cancel, TypeOK, EngineType
<1>15. CASE WriteError
  <2>1. PICK point \in 0 .. TotalBlocks :
          file' = Overlay(file, [i \in Cells |-> IF i < point THEN eng.buf[i] ELSE None])
    BY <1>15 DEF WriteError
  <2>2. ASSUME op.status = "Completed" PROVE file' = file
    <3>1. [i \in Cells |-> IF i < point THEN eng.buf[i] ELSE None] = Empty
      BY <1>2, <2>2 DEF Empty
    <3> QED
      BY <2>1, <3>1, OverlayEmpty DEF TypeOK
  <2> QED
    BY <1>1, <1>15, <2>2, RowFrame DEF WriteError
<1>16. CASE Crash
  BY <1>1, <1>16, RowFrame DEF Crash
<1>17. CASE Decay
  <2>1. UNCHANGED <<op, images, eng>>
    BY <1>17 DEF Decay
  <2>2. \A digest : Matches(digest) => Matches(digest)'
    BY <1>17, DecayMatches
  <2>3. images # <<>> /\ Matches(images[Len(images)].digest)
          => Matches(images[Len(images)].digest)'
    BY <2>1, <2>2 DEF Matches
  <2>4. Matches(eng.digest) => Matches(eng.digest)'
    BY <2>1, <2>2 DEF Matches
  <2> QED
    BY <2>1, <2>3, <2>4 DEF RowInv, NewestRow
<1>18. CASE UNCHANGED vars
  BY <1>18 DEF vars, RowInv, NewestRow, Matches
<1> QED
  BY <1>4, <1>5, <1>6, <1>7, <1>8, <1>9, <1>10, <1>11, <1>12, <1>13, <1>14, <1>15, <1>16, <1>17,
     <1>18 DEF Next, EngineStep

(* A completed operation's newest image row has the hash of the file, but  *)
(* for decay, and the operation's bad-sector map, over any number of       *)
(* further resumptions that change neither (engine.rs, phases 2 and 3).    *)
THEOREM CompletedRowIsCurrent == Spec => []CompletedRowMatchesFile
<1>1. Init => TypeOK /\ PositionInv /\ RowInv
  BY InitTypeOK, InitPositionInv, InitRowInv
<1>2. TypeOK /\ PositionInv /\ RowInv /\ [Next]_vars
        => TypeOK' /\ PositionInv' /\ RowInv'
  BY NextTypeOK, NextPositionInv, NextRowInv
<1>3. RowInv => CompletedRowMatchesFile
  BY DEF RowInv, NewestRow, Matches, CompletedRowMatchesFile
<1> QED
  BY <1>1, <1>2, <1>3, PTL DEF Spec

-----------------------------------------------------------------------------
(* What interruptions cost.                                                *)

(* The sectors the buffer holds.                                           *)
Pending ==
  {l \in Lba : l - op.start \in Cells /\ eng.buf[l - op.start] # None}

LossInv ==
  /\ LossBound
  /\ Cardinality(Pending) <= LargestChunk
  /\ op.status = "None" => op.cur <= op.start

LEMMA LargestChunkBounds ==
  /\ LargestChunk \in Nat
  /\ \A by : StrategyOf(by).chunk <= LargestChunk
BY DEF LargestChunk, StrategyOf, Strategy

LEMMA MissingFinite ==
  ASSUME TypeOK
  PROVE  IsFiniteSet(Missing) /\ Cardinality(Missing) \in Nat
<1>1. \A n \in Nat : IsFiniteSet(op.start .. n - 1)
  BY FS_Interval DEF TypeOK
<1>2. op.cur \in Nat /\ eng.cur \in Nat
  BY DEF TypeOK, EngineType
<1>3. Missing \subseteq op.start .. op.cur - 1
      \/ Missing \subseteq op.start .. eng.cur - 1
  BY DEF Missing
<1>4. IsFiniteSet(Missing)
  BY <1>1, <1>2, <1>3, FS_Subset
<1> QED
  BY <1>4, FS_CardinalityType

LEMMA PendingFinite ==
  IsFiniteSet(Pending) /\ Cardinality(Pending) \in Nat
<1>1. Lba = 0 .. TotalBlocks - 1
  BY DEF Lba
<1>2. IsFiniteSet(Lba)
  BY <1>1, FS_Interval
<1>3. Pending \subseteq Lba
  BY DEF Pending
<1>4. IsFiniteSet(Pending)
  BY <1>2, <1>3, FS_Subset
<1> QED
  BY <1>4, FS_CardinalityType

(* A process without a buffer has nothing pending.                         *)
LEMMA NothingPending ==
  ASSUME eng.buf = Empty
  PROVE  Pending = {} /\ Cardinality(Pending) <= LargestChunk
<1>1. \A i \in Cells : eng.buf[i] = None
  BY DEF Empty
<1>2. Pending = {}
  BY <1>1 DEF Pending
<1>3. Cardinality(Pending) = 0
  BY <1>2, FS_EmptySet
<1> QED
  BY <1>2, <1>3, LargestChunkBounds

(* A step after which no more is missing than before keeps the bound.      *)
LEMMA BoundKept ==
  ASSUME TypeOK, LossBound, Missing' \subseteq Missing, lost' = lost
  PROVE  LossBound'
<1>1. Cardinality(Missing') <= Cardinality(Missing)
  BY MissingFinite, FS_Subset
<1>2. Cardinality(Missing') \in Nat
  BY MissingFinite, FS_Subset, FS_CardinalityType
<1>3. LargestChunk \in Nat /\ lost \in Nat /\ Cardinality(Missing) \in Nat
  BY LargestChunkBounds, MissingFinite DEF TypeOK
<1>4. LargestChunk * lost \in Nat
  BY <1>3
<1>5. LargestChunk' = LargestChunk
  BY DEF LargestChunk
<1> QED
  BY <1>1, <1>2, <1>3, <1>4, <1>5 DEF LossBound

(* A step that loses the buffer, and nothing else, keeps it too.           *)
LEMMA BoundPaid ==
  ASSUME TypeOK, LossInv, Missing' \subseteq Missing \cup Pending,
         lost' = lost + 1
  PROVE  LossBound'
<1>1. /\ IsFiniteSet(Missing \cup Pending)
      /\ Cardinality(Missing \cup Pending)
           <= Cardinality(Missing) + Cardinality(Pending)
  <2>1. /\ IsFiniteSet(Missing \cup Pending)
        /\ Cardinality(Missing \cup Pending)
             = Cardinality(Missing) + Cardinality(Pending)
                 - Cardinality(Missing \cap Pending)
    BY MissingFinite, PendingFinite, FS_Union
  <2>2. Cardinality(Missing \cap Pending) \in Nat
    BY MissingFinite, FS_Subset, FS_CardinalityType
  <2> QED
    BY <2>1, <2>2, MissingFinite, PendingFinite
<1>2. /\ Cardinality(Missing') <= Cardinality(Missing \cup Pending)
      /\ Cardinality(Missing') \in Nat
      /\ Cardinality(Missing \cup Pending) \in Nat
  BY <1>1, FS_Subset, FS_CardinalityType
<1>3. LargestChunk \in Nat /\ lost \in Nat /\ Cardinality(Missing) \in Nat
      /\ Cardinality(Pending) \in Nat
  BY LargestChunkBounds, MissingFinite, PendingFinite DEF TypeOK
<1>4. LargestChunk * lost \in Nat
      /\ LargestChunk * (lost + 1) = LargestChunk * lost + LargestChunk
  BY <1>3
<1>5. Cardinality(Missing) <= LargestChunk * lost
      /\ Cardinality(Pending) <= LargestChunk
  BY DEF LossInv, LossBound
<1>6. LargestChunk' = LargestChunk
  BY DEF LargestChunk
<1>7. Cardinality(Missing') <= LargestChunk * lost + LargestChunk
  BY <1>1, <1>2, <1>3, <1>4, <1>5
<1> QED
  BY <1>4, <1>6, <1>7 DEF LossBound

(* A process ends and kept, the part of its buffer below some point, is in *)
(* the file: only what was pending can be missing anew.                    *)
LEMMA ReturnMissing ==
  ASSUME TypeOK, PositionInv, CleanInv, eng.pc # "idle", eng' = Gone, op' = op,
         NEW kept \in Image, file' = Overlay(file, kept),
         \A i \in Cells : kept[i] \in {eng.buf[i], None}
  PROVE  /\ Missing' \subseteq Missing \cup Pending
         /\ kept = eng.buf => Missing' \subseteq Missing
<1>1. /\ eng'.pc = "idle" /\ op.status # "None"
  BY DEF Gone, PositionInv
<1>2. /\ op.cur \in Nat /\ eng.cur \in Nat /\ op.cur <= eng.cur
      /\ op.start \in Nat /\ op.end \in -1 .. TotalBlocks - 1
      /\ op.bad = {l \in eng.bad : l < op.cur}
      /\ InRange(op.cur)
  BY <1>1 DEF TypeOK, EngineType, PositionInv, CleanInv
<1>3. ASSUME NEW l \in Missing', kept = eng.buf \/ l \notin Pending
      PROVE  l \in Missing
  <2>1. l \in op.start .. op.cur - 1 /\ ~ KeptCell(file, op.bad, l)'
    BY <1>1 DEF Missing
  <2>2. ~ KeptCell(file', eng.bad, l)
    BY <1>2, <2>1 DEF KeptCell, FaithfulCell
  <2> DEFINE i == l - op.start
  <2>3. i \in Cells /\ l \in Lba /\ l \in op.start .. eng.cur - 1
    BY <1>2, <2>1 DEF InRange, Cells, Lba
  <2>4. SUFFICES ASSUME KeptCell(Overlay(file, eng.buf), eng.bad, l)
                 PROVE  FALSE
    BY <1>1, <2>3 DEF Missing
  <2>5. CASE kept = eng.buf
    BY <2>2, <2>4, <2>5
  <2>6. CASE l \notin Pending
    <3>1. eng.buf[i] = None /\ kept[i] = None
      BY <2>3, <2>6 DEF Pending
    <3>2. Overlay(file, eng.buf)[i] \notin {None, Hole}
      BY <2>3, <2>4, ContentAssumption DEF KeptCell, FaithfulCell
    <3>3. Overlay(file, eng.buf)[i] = file[i] /\ file[i] # None
      BY <2>3, <3>1, <3>2 DEF Overlay
    <3>4. file'[i] = file[i]
      BY <2>3, <3>1, <3>3 DEF Overlay
    <3> QED
      BY <2>2, <2>4, <3>3, <3>4 DEF KeptCell, FaithfulCell
  <2> QED
    BY <1>3, <2>5, <2>6
<1> QED
  BY <1>3

(* The steps after the flush end without anything pending.                 *)
LEMMA CloseMissing ==
  ASSUME TypeOK, PositionInv, CleanInv, LossInv, eng.pc \in Closing,
         eng' = Gone, op' = op, file' = file, lost' = lost
  PROVE  LossInv'
<1>1. eng.buf = Empty /\ eng'.buf = Empty /\ eng.pc # "idle"
  BY DEF PositionInv, Gone, Closing
<1>2. file' = Overlay(file, eng.buf) /\ eng.buf \in Image
  BY <1>1, OverlayEmpty DEF TypeOK, EngineType
<1>3. Missing' \subseteq Missing
  BY <1>1, <1>2, ReturnMissing
<1>4. LossBound'
  BY <1>3, BoundKept DEF LossInv
<1>5. Pending' \subseteq Pending
  BY <1>1 DEF Pending, Empty
<1>6. Cardinality(Pending') <= LargestChunk
  BY <1>5, PendingFinite, LargestChunkBounds, FS_Subset, FS_CardinalityType
     DEF LossInv
<1> QED
  BY <1>4, <1>6 DEF LossInv, LargestChunk

(* A running process that keeps its buffer, its map and its position.      *)
LEMMA FrameMissing ==
  ASSUME TypeOK, LossInv, eng.pc # "idle", eng'.pc # "idle", file' = file,
         lost' = lost, eng'.buf = eng.buf, eng'.bad = eng.bad,
         eng'.cur = eng.cur, op'.start = op.start, op'.status # "None"
  PROVE  LossInv'
<1>1. Missing' = Missing
  BY DEF Missing, KeptCell, FaithfulCell
<1>2. LossBound'
  BY <1>1, BoundKept DEF LossInv
<1>3. Pending' = Pending
  BY DEF Pending
<1> QED
  BY <1>2, <1>3 DEF LossInv, LargestChunk

LEMMA CopyChunkLossInv ==
  ASSUME TypeOK, PositionInv, CleanInv, LossInv, CopyChunk
  PROVE  LossInv'
<1>1. PICK next \in eng.cur .. op.end + 1, marked \in SUBSET Lba :
        LET data == ChunkCells(op.start, eng.cur .. next - 1, marked) IN
        /\ marked \subseteq eng.cur .. next - 1
        /\ next - eng.cur <= StrategyOf(eng.by).chunk
        /\ eng'.pc \in {"copy", "checkpoint"}
        /\ eng'.cur = next
        /\ eng'.bad = eng.bad \cup marked
        /\ eng'.buf = data
  BY CopyStep
<1>2. UNCHANGED <<op, lost>> /\ eng.pc = "copy" /\ file' = Overlay(file, eng.buf)
  BY DEF CopyChunk
<1>3. /\ op.status # "None" /\ op.start \in Nat /\ op.end \in Int
      /\ eng.cur \in Nat /\ next \in Nat /\ next <= op.end + 1
      /\ op.start <= eng.cur /\ eng.cur <= next
  BY <1>2 DEF TypeOK, EngineType, PositionInv, InRange
<1>4. /\ eng.bad \in SUBSET (op.start .. eng.cur - 1)
      /\ marked \in SUBSET (eng.cur .. next - 1)
      /\ file' \in Image
  BY <1>1, <1>2, <1>3, OverlayType DEF CleanInv, TypeOK, EngineType
<1>5. Missing' \subseteq Missing
  <2> SUFFICES ASSUME NEW l \in Missing' PROVE l \in Missing
    OBVIOUS
  <2>1. l \in op.start .. next - 1
        /\ ~ KeptCell(Overlay(file', ChunkCells(op.start, eng.cur .. next - 1, marked)),
                      eng.bad \cup marked, l)
    BY <1>1, <1>2 DEF Missing, KeptCell, FaithfulCell
  <2>2. l < eng.cur /\ ~ KeptCell(file', eng.bad, l)
    BY <1>3, <1>4, <2>1, OverlayKeptCell
  <2>3. l \in op.start .. eng.cur - 1
    BY <1>3, <2>1, <2>2
  <2> QED
    BY <1>2, <2>2, <2>3 DEF Missing
<1>6. LossBound'
  BY <1>2, <1>5, BoundKept DEF LossInv
<1>7. Cardinality(Pending') <= LargestChunk
  <2>1. Pending' \subseteq eng.cur .. next - 1
    BY <1>1, <1>2, <1>3 DEF Pending, ChunkCells, Lba
  <2>2. IsFiniteSet(eng.cur .. next - 1)
        /\ Cardinality(eng.cur .. next - 1) = next - eng.cur
    <3>1. eng.cur \in Int /\ next - 1 \in Int
      BY <1>3
    <3>2. (IF eng.cur > next - 1 THEN 0 ELSE (next - 1) - eng.cur + 1)
            = next - eng.cur
      BY <1>3
    <3> QED
      BY <3>1, <3>2, FS_Interval
  <2>3. Cardinality(Pending') <= next - eng.cur /\ Cardinality(Pending') \in Nat
    <3>1. /\ IsFiniteSet(Pending')
          /\ Cardinality(Pending') <= Cardinality(eng.cur .. next - 1)
      BY <2>1, <2>2, FS_Subset
    <3> QED
      BY <2>2, <3>1, FS_CardinalityType
  <2>4. StrategyOf(eng.by).chunk \in Nat
    BY DEF StrategyOf, Strategy
  <2> QED
    BY <1>1, <1>3, <2>3, <2>4, LargestChunkBounds
<1> QED
  BY <1>2, <1>3, <1>6, <1>7 DEF LossInv, LargestChunk

LEMMA NextLossInv ==
  TypeOK /\ PositionInv /\ CleanInv /\ LossInv /\ [Next]_vars => LossInv'
<1> SUFFICES ASSUME TypeOK, PositionInv, CleanInv, LossInv, [Next]_vars
             PROVE  LossInv'
  OBVIOUS
<1>1. ASSUME NEW profile \in Profiles, Start(profile) PROVE LossInv'
  <2> DEFINE bounds == LbaBounds(profile)
  <2>1. bounds[1] \in Nat
    BY LbaBoundsType
  <2>2. eng'.buf = Empty /\ lost' = lost /\ eng.pc = "idle" /\ op.status = "None"
    <3>1. eng.buf = Empty
      BY <1>1 DEF Start, PositionInv
    <3> QED
      BY <1>1, <3>1 DEF Start, Gone
  <2>3. \/ op' = op /\ eng'.pc = "idle"
        \/ op'.cur = op'.start /\ eng'.cur = op'.start /\ op'.start = bounds[1]
           /\ eng'.pc # "idle" /\ op'.status # "None"
    <3>1. CASE UNCHANGED <<op, eng>>
      BY <1>1, <3>1 DEF Start
    <3>2. CASE /\ op' = [status |-> "InProgress", start |-> bounds[1],
                         end |-> bounds[2], cur |-> bounds[1], bad |-> {}]
               /\ eng' = [Gone EXCEPT !.pc = "announce", !.cur = bounds[1],
                                      !.saved = bounds[1]]
      BY <3>2 DEF Gone
    <3> HIDE DEF bounds
    <3> QED
      BY <1>1, <3>1, <3>2 DEF Start, bounds
  <2>4. Missing' = {}
    BY <2>1, <2>2, <2>3 DEF Missing, LossInv, TypeOK
  <2>5. LossBound'
    BY <2>2, <2>4, BoundKept DEF LossInv
  <2>6. Pending' = {}
    BY <2>2 DEF Pending, Empty
  <2>7. Cardinality(Pending') <= LargestChunk
    BY <2>6, FS_EmptySet, LargestChunkBounds
  <2>8. op'.status = "None" => op'.cur <= op'.start
    BY <2>2, <2>3 DEF LossInv
  <2> QED
    BY <2>5, <2>7, <2>8 DEF LossInv, LargestChunk
<1>2. CASE Resume
  <2>1. /\ eng.pc = "idle" /\ op.status # "None" /\ UNCHANGED <<file, op, lost>>
        /\ eng'.pc = "copy" /\ eng'.cur = op.cur /\ eng'.bad = op.bad
        /\ eng'.buf = Empty
    BY <1>2 DEF Resume, Gone
  <2>2. Overlay(file', eng'.buf) = file
    BY <2>1, OverlayEmpty DEF TypeOK
  <2>3. Missing' = Missing
    BY <2>1, <2>2 DEF Missing, KeptCell, FaithfulCell
  <2>4. LossBound'
    BY <2>1, <2>3, BoundKept DEF LossInv
  <2>5. Pending' = {}
    BY <2>1 DEF Pending, Empty
  <2>6. Cardinality(Pending') <= LargestChunk
    BY <2>5, FS_EmptySet, LargestChunkBounds
  <2> QED
    BY <2>1, <2>4, <2>6 DEF LossInv, LargestChunk
<1>3. CASE Announce
  BY <1>3, FrameMissing DEF Announce, TypeOK, EngineType, PositionInv
<1>4. CASE CopyChunk
  BY <1>4, CopyChunkLossInv
<1>5. CASE SaveCheckpoint
  <2>1. op'.start = op.start /\ op'.status # "None"
    BY <1>5 DEF SaveCheckpoint, Checkpointed, TypeOK, PositionInv
  <2> QED
    BY <1>5, <2>1, FrameMissing DEF SaveCheckpoint, TypeOK, EngineType
<1>6. CASE Finalize
  <2>1. /\ eng.pc = "copy" /\ eng'.pc = "verify" /\ op' = op /\ lost' = lost
        /\ eng'.bad = eng.bad /\ eng'.cur = eng.cur /\ eng'.buf = Empty
        /\ file' = Overlay(file, eng.buf)
    BY <1>6 DEF Finalize, TypeOK, EngineType
  <2>2. Overlay(file', eng'.buf) = Overlay(file, eng.buf)
    BY <2>1, OverlayType, OverlayEmpty DEF TypeOK, EngineType
  <2>3. Missing' = Missing
    BY <2>1, <2>2 DEF Missing, KeptCell, FaithfulCell
  <2>4. LossBound'
    BY <2>1, <2>3, BoundKept DEF LossInv
  <2>5. Pending' = {}
    BY <2>1 DEF Pending, Empty
  <2>6. Cardinality(Pending') <= LargestChunk
    BY <2>5, FS_EmptySet, LargestChunkBounds
  <2> QED
    BY <2>1, <2>4, <2>6 DEF LossInv, LargestChunk
<1>7. CASE Verify
  <2>1. CASE eng' = Gone
    BY <1>7, <2>1, CloseMissing DEF Verify, Closing
  <2>2. CASE eng' = [eng EXCEPT !.pc = "record", !.digest = file]
    BY <1>7, <2>2, FrameMissing DEF Verify, TypeOK, EngineType, PositionInv
  <2> QED
    BY <1>7, <2>1, <2>2 DEF Verify
<1>8. CASE RecordImage
  <2>1. CASE eng' = Gone
    BY <1>8, <2>1, CloseMissing DEF RecordImage, Closing
  <2>2. CASE eng' = [eng EXCEPT !.pc = "complete"]
    BY <1>8, <2>2, FrameMissing DEF RecordImage, TypeOK, EngineType, PositionInv
  <2> QED
    BY <1>8, <2>1, <2>2 DEF RecordImage
<1>9. CASE CompleteOperation
  <2>1. CASE op' = op /\ eng' = Gone
    BY <1>9, <2>1, CloseMissing DEF CompleteOperation, Closing
  <2>2. CASE op' = Checkpointed("Completed")
             /\ eng' = [eng EXCEPT !.pc = "report"]
    <3>1. op'.start = op.start /\ op'.status # "None"
      BY <2>2 DEF Checkpointed, TypeOK
    <3> QED
      BY <1>9, <2>2, <3>1, FrameMissing DEF CompleteOperation, TypeOK, EngineType
  <2> QED
    BY <1>9, <2>1, <2>2 DEF CompleteOperation
<1>10. CASE Report
  BY <1>10, CloseMissing DEF Report, Closing
<1>11. ASSUME NEW kept \in Image, eng.pc # "idle", eng' = Gone, op' = op,
              file' = Overlay(file, kept),
              \A i \in Cells : kept[i] \in {eng.buf[i], None},
              \/ kept = eng.buf /\ lost' = lost
              \/ lost' = lost + 1
       PROVE  LossInv'
  <2>1. /\ Missing' \subseteq Missing \cup Pending
        /\ kept = eng.buf => Missing' \subseteq Missing
    BY <1>11, ReturnMissing
  <2>2. LossBound'
    BY <1>11, <2>1, BoundKept, BoundPaid DEF LossInv
  <2>3. Pending' = {}
    BY <1>11 DEF Pending, Gone, Empty
  <2>4. Cardinality(Pending') <= LargestChunk
    BY <2>3, FS_EmptySet, LargestChunkBounds
  <2> QED
    BY <1>11, <2>2, <2>4 DEF LossInv, LargestChunk
<1>12. CASE Cancel
  BY <1>11, <1>12 DEF Cancel, TypeOK, EngineType
<1>13. CASE WriteError
  <2>1. PICK point \in 0 .. TotalBlocks :
          LET kept == [i \in Cells |-> IF i < point THEN eng.buf[i] ELSE None]
          IN /\ file' = Overlay(file, kept)
             /\ lost' = IF kept = eng.buf THEN lost ELSE lost + 1
    BY <1>13 DEF WriteError
  <2> DEFINE kept == [i \in Cells |-> IF i < point THEN eng.buf[i] ELSE None]
  <2>2. kept \in Image /\ \A i \in Cells : kept[i] \in {eng.buf[i], None}
    BY DEF TypeOK, EngineType, Image
  <2>3. eng.pc # "idle" /\ eng' = Gone /\ op' = op
    BY <1>13 DEF WriteError
  <2> HIDE DEF kept
  <2>4. file' = Overlay(file, kept)
        /\ ((kept = eng.buf /\ lost' = lost) \/ lost' = lost + 1)
    BY <2>1 DEF kept
  <2> QED
    BY <1>11, <2>2, <2>3, <2>4
<1>14. CASE Crash
  <2>1. /\ eng.pc # "idle" /\ eng' = Gone /\ op' = op
        /\ file' = Overlay(file, Empty)
        /\ (Empty = eng.buf /\ lost' = lost) \/ lost' = lost + 1
    BY <1>14, OverlayEmpty DEF Crash, TypeOK
  <2>2. Empty \in Image /\ \A i \in Cells : Empty[i] \in {eng.buf[i], None}
    BY DEF Empty, Image
  <2> QED
    BY <1>11, <2>1, <2>2
<1>15. CASE Decay
  <2>1. UNCHANGED <<op, eng, lost>> /\ file' \in Image
    BY <1>15, NextTypeOK DEF Decay, Next, TypeOK
  <2>2. Missing' \subseteq Missing
    <3> SUFFICES ASSUME NEW l \in Missing' PROVE l \in Missing
      OBVIOUS
    <3>1. CASE eng.pc = "idle"
      <4>1. l \in op.start .. op.cur - 1 /\ ~ KeptCell(file', op.bad, l)
        BY <2>1, <3>1 DEF Missing, KeptCell, FaithfulCell
      <4>2. op.status # "None" /\ l \in op.start .. op.end
        BY <4>1 DEF LossInv, PositionInv, InRange, TypeOK
      <4>3. Overlay(file, Empty) = file /\ Overlay(file', Empty) = file'
            /\ Empty \in Image
        BY <2>1, OverlayEmpty DEF TypeOK, Empty, Image
      <4>4. ~ KeptCell(file, op.bad, l)
        BY <1>15, <4>1, <4>2, <4>3, DecayKept
      <4> QED
        BY <3>1, <4>1, <4>4 DEF Missing
    <3>2. CASE eng.pc # "idle"
      <4>1. l \in op.start .. eng.cur - 1
            /\ ~ KeptCell(Overlay(file', eng.buf), eng.bad, l)
        BY <2>1, <3>2 DEF Missing, KeptCell, FaithfulCell
      <4>2. l \in op.start .. op.end /\ eng.buf \in Image
        BY <3>2, <4>1 DEF PositionInv, InRange, TypeOK, EngineType
      <4>3. ~ KeptCell(Overlay(file, eng.buf), eng.bad, l)
        BY <1>15, <4>1, <4>2, DecayKept
      <4> QED
        BY <3>2, <4>1, <4>3 DEF Missing
    <3> QED
      BY <3>1, <3>2
  <2>3. LossBound'
    BY <2>1, <2>2, BoundKept DEF LossInv
  <2>4. Pending' = Pending
    BY <2>1 DEF Pending
  <2> QED
    BY <2>1, <2>3, <2>4 DEF LossInv, LargestChunk
<1>16. CASE UNCHANGED vars
  <2>1. Missing' = Missing
    BY <1>16 DEF vars, Missing, KeptCell, FaithfulCell
  <2>2. Pending' = Pending
    BY <1>16 DEF vars, Pending
  <2>3. UNCHANGED <<op, lost>>
    BY <1>16 DEF vars
  <2> QED
    BY <2>1, <2>2, <2>3 DEF LossInv, LossBound, LargestChunk
<1> QED
  BY <1>1, <1>2, <1>3, <1>4, <1>5, <1>6, <1>7, <1>8, <1>9, <1>10, <1>12,
     <1>13, <1>14, <1>15, <1>16 DEF Next, EngineStep

LEMMA InitLossInv == Init => LossInv
<1> SUFFICES ASSUME Init PROVE LossInv
  OBVIOUS
<1>1. TypeOK /\ lost = 0 /\ eng.buf = Empty /\ op.cur <= op.start
      /\ Missing = {}
  BY InitTypeOK DEF Init, Gone, Missing
<1>2. Cardinality(Missing) = 0 /\ LargestChunk * lost = 0
  BY <1>1, FS_EmptySet, LargestChunkBounds
<1>3. Cardinality(Pending) <= LargestChunk
  BY <1>1, NothingPending
<1> QED
  BY <1>1, <1>2, <1>3 DEF LossInv, LossBound

(* However often an acquisition is interrupted, refused or damaged, at     *)
(* most one chunk is missing for every process that lost its buffer.       *)
THEOREM InterruptionsCostOneChunk == Spec => []LossBound
<1>1. Init => TypeOK /\ PositionInv /\ CleanInv /\ LossInv
  BY InitTypeOK, InitPositionInv, InitCleanInv, InitLossInv
<1>2. TypeOK /\ PositionInv /\ CleanInv /\ LossInv /\ [Next]_vars
        => TypeOK' /\ PositionInv' /\ CleanInv' /\ LossInv'
  BY NextTypeOK, NextPositionInv, NextCleanInv, NextLossInv
<1>3. LossInv => LossBound
  BY DEF LossInv
<1> QED
  BY <1>1, <1>2, <1>3, PTL DEF Spec
=============================================================================
