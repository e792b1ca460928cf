---------------------------- MODULE FileLocation ----------------------------
(***************************************************************************)
(* Where the file system parsers say a file lies: the FAT chain walk, the  *)
(* NTFS run list and the ext4 extent node or direct pointers, each with    *)
(* the confidence the parser gives its answer.  An allocation unit         *)
(* (cluster or block) is one sector here, so the multiplication by         *)
(* sectors_per_cluster is left out of every extent.                        *)
(* An extent is <<first LBA, sectors>>; a location is a sequence of them:  *)
(* <<>> is Unresolved, one extent Contiguous, more of them Fragmented.     *)
(***************************************************************************)
EXTENDS Integers, Sequences, SequencesExt, FiniteSetsExt

CONSTANT DirectPointers   \* direct block pointers of an inode (12 in the code)

ASSUME DirectAssumption == DirectPointers \in Nat

----------------------------------------------------------------------------
(* Extents *)

\* what a loop that passes over some elements keeps of s, in order
Subsequence(s, kept) ==
  LET upTo[n \in 0..Len(s)] ==
        IF n = 0 THEN <<>>
        ELSE IF n \in kept THEN Append(upTo[n - 1], s[n]) ELSE upTo[n - 1]
  IN  upTo[Len(s)]

Sectors(extent) == extent[1] .. extent[1] + extent[2] - 1

\* every sector a location names
Covered(location) == UNION {Sectors(location[i]) : i \in DOMAIN location}

\* the sectors in the order they are read
SectorSeq(location) ==
  LET upTo[n \in 0..Len(location)] ==
        IF n = 0 THEN <<>>
        ELSE upTo[n - 1] \o [k \in 1..location[n][2] |-> location[n][1] + k - 1]
  IN  upTo[Len(location)]

----------------------------------------------------------------------------
(* FAT: clusters are numbered from 2; the table maps a cluster to a value *)

FreeCell == 0
BadCell  == -1
EndCell  == -2

ClusterToLba(c) == c - 2

IsClusterFree(table, c) == c \in DOMAIN table /\ table[c] = FreeCell

\* get_next_cluster; 0 stands for None, which like the value 1 ends the walk
NextCluster(table, c) ==
  IF c \notin DOMAIN table \/ table[c] \in {FreeCell, BadCell, EndCell} THEN 0 ELSE table[c]

\* follow_chain: the n-th cluster after the start, 0 when the walk has ended
ChainCell(table, start) ==
  LET cell[n \in 0..Cardinality(DOMAIN table) + 1] ==
        IF n = 0 THEN start
        ELSE LET c == cell[n - 1] IN IF c < 2 THEN 0 ELSE NextCluster(table, c)
  IN  cell

\* a walk that never ends comes back to a cluster it has visited: ChainLoop
Loops(table, start) == start >= 2 /\ \A n \in DOMAIN ChainCell(table, start) :
                                        ChainCell(table, start)[n] >= 2

FollowChain(table, start) ==
  LET cell  == ChainCell(table, start)
      ended == {n \in DOMAIN cell : cell[n] < 2}
  IN  [n \in 1..(IF ended = {} THEN Cardinality(DOMAIN cell) ELSE Min(ended)) |-> cell[n - 1]]

\* clusters_to_extents: a cluster next to the one before it lengthens its run
Extended(runs, lba) ==
  IF runs # <<>> /\ lba = Last(runs)[1] + Last(runs)[2]
  THEN [runs EXCEPT ![Len(runs)] = <<@[1], @[2] + 1>>]
  ELSE Append(runs, <<lba, 1>>)

ClustersToExtents(clusters) ==
  LET runs[n \in 0..Len(clusters)] ==
        IF n = 0 THEN <<>> ELSE Extended(runs[n - 1], ClusterToLba(clusters[n]))
  IN  runs[Len(clusters)]

\* build_recoverable_entry of the FAT parser.  Its branch for a chain that is
\* empty is never taken: follow_chain returns at least the start cluster.
LocateFat(table, e) ==
  LET chain == FollowChain(table, e.start) IN
  IF e.start < 2
  THEN IF e.size = 0 THEN [loc |-> <<<<0, 0>>>>, conf |-> "Confirmed"]
                     ELSE [loc |-> <<>>, conf |-> "Low"]
  ELSE [loc  |-> ClustersToExtents(chain),
        conf |-> IF e.deleted /\ \E c \in ToSet(chain) : ~IsClusterFree(table, c)
                 THEN "Partial" ELSE "Confirmed"]

----------------------------------------------------------------------------
(* NTFS and ext4: extents beside an allocation bitmap *)

\* plausible defect: only where the file begins is looked up
ExtentsConfidenceByFirst(used, location) ==
  IF location[1][1] \in used THEN "Low" ELSE "Confirmed"

\* evaluate_extents_confidence of both parsers
ExtentsConfidence(used, location) ==
  LET sectors == Covered(location) IN
  CASE sectors \cap used = {}                        -> "Confirmed"
    [] sectors \cap used # {} /\ sectors \ used # {} -> "Partial"
    [] OTHER                                         -> "Low"

\* plausible defect: the starts of the runs are taken as absolute
DecodeRunsAbsolute(runs) ==
  LET kept == Subsequence(runs, {i \in DOMAIN runs : ~runs[i].sparse /\ runs[i].delta >= 0})
  IN  [i \in DOMAIN kept |-> <<kept[i].delta, kept[i].count>>]

\* decode_data_runs: each run's start is relative to the one before it; a
\* sparse run takes no sectors, and leaves no trace of its length either
Decoded(acc, run) ==
  IF run.sparse THEN acc
  ELSE [lcn  |-> acc.lcn + run.delta,
        exts |-> IF acc.lcn + run.delta >= 0 /\ run.count > 0
                 THEN Append(acc.exts, <<acc.lcn + run.delta, run.count>>)
                 ELSE acc.exts]

DecodeRuns(runs) ==
  LET acc[n \in 0..Len(runs)] ==
        IF n = 0 THEN [lcn |-> 0, exts |-> <<>>] ELSE Decoded(acc[n - 1], runs[n])
  IN  acc[Len(runs)].exts

\* build_recoverable_entry of the NTFS parser, for data outside the record
LocateNtfs(hasBitmap, used, e) ==
  LET exts == DecodeRuns(e.runs)
  IN  [loc  |-> exts,
       conf |-> IF exts = <<>> THEN "Low"
                ELSE IF ~hasBitmap THEN "Partial"
                ELSE IF e.deleted THEN ExtentsConfidence(used, exts) ELSE "Confirmed"]

BlockToLba(b) == b - 1

\* get_block_extents: the leaf of an extent tree, or the direct pointers of an
\* old inode; an entry that names block 0 is skipped.  Blocks reached through
\* an indirect pointer are not looked for.
BlockExtents(e) ==
  LET direct == [i \in 1..Min({Len(e.blocks), DirectPointers}) |-> <<e.blocks[i], 1>>]
      listed == IF e.extents THEN e.leaf ELSE direct
  IN  Subsequence(listed, {i \in DOMAIN listed : listed[i][1] > 0 /\ listed[i][2] > 0})

\* build_entry_from_inode
LocateExt4(hasBitmap, used, e) ==
  LET exts == BlockExtents(e)
      loc  == [i \in DOMAIN exts |-> <<BlockToLba(exts[i][1]), exts[i][2]>>]
  IN  IF exts = <<>>
      THEN IF e.size = 0 THEN [loc |-> <<<<0, 0>>>>, conf |-> "Confirmed"]
                         ELSE [loc |-> <<>>, conf |-> "Low"]
      ELSE [loc  |-> loc,
            conf |-> IF ~e.deleted THEN "Confirmed"
                     ELSE IF hasBitmap THEN ExtentsConfidence(used, loc) ELSE "Partial"]
=============================================================================
