------------------------------- MODULE Volume -------------------------------
(***************************************************************************)
(* The medium that is examined: a file system some host wrote.  Nothing    *)
(* here is the project's code; the host is modelled as far as the parsers  *)
(* in the crates vajra-fs-fat, vajra-fs-ntfs and vajra-fs-ext4 rely on it: *)
(* what a stored, a grown and a deleted file leaves in the data area, in   *)
(* the allocation structure and in its entry.                              *)
(***************************************************************************)
EXTENDS Carving

\* A scenario: the kind of file system, the files that may be stored and those
\* of them that lie in the directory, the type of each file, the sectors that
\* cannot be read, whether a bitmap is there, whether a cell of the FAT may be
\* damaged and whether a file may be erased; boot: whether the boot sector, which
\* lies outside the data area, can be read; marks: the signatures on the volume,
\* its own and those an earlier file system left; shape and cut: a file that is not
\* "dense" has behind its first cut sectors a "hole" of one sector, which has no
\* place on the medium, or ends in a part that is "unwritten", which has a place
\* and holds what lay there before; the host reads zeros in either
CONSTANT Scenarios

VARIABLES scen,      \* the scenario, fixed
          disk,      \* content of each sector of the data area
          table,     \* the FAT, <<>> on another file system
          used,      \* the allocation bitmap, {} on a FAT volume
          entry,     \* the entry of every file that is listed
          place,     \* the sectors of each file stored so far, in order
          damaged    \* whether a cell of the FAT was damaged

volume == <<scen, disk, table, used, entry, place, damaged>>

\* the one directory beside the root; its sector holds the entries of the files
\* in it, which are readable as long as no file is stored there
Dir == "dir"

\* detect_filesystem: the signatures in the order they are tried
Priority == <<"ntfs", "exfat", "ext", "apfs", "fat">>
Mark(kind) == IF kind \in {"ext4", "ext2"} THEN "ext" ELSE kind

\* what may lie on a disk: a mapped file has its directory beside its header,
\* making a file system clears the signatures that are tried before its own, and
\* a FAT knows neither holes nor unwritten parts.  Only dense files are erased,
\* and only a FAT without a directory beside the root is damaged here.
ASSUME ScenarioAssumption ==
  /\ Dir \notin Files
  /\ \A s \in Scenarios :
       /\ s.kind \in {"fat", "ntfs", "ext4", "ext2"}
       /\ s.nested \subseteq s.files /\ s.files \subseteq Files
       /\ s.class \in [Files -> FileTypes]
       /\ \A f \in Files : s.class[f] = "mapped" => FileLen[f] > 1
       /\ {s.bitmap, s.damage, s.erase, s.boot} \subseteq BOOLEAN
       /\ s.shape \in [Files -> {"dense", "hole", "unwritten"}] /\ s.cut \in [Files -> Nat]
       /\ \A f \in Files :
            /\ s.shape[f] = "hole" => s.kind # "fat" /\ s.cut[f] < FileLen[f] /\ FileLen[f] > 1
            /\ s.shape[f] = "unwritten" => s.kind \in {"ntfs", "ext4"}
            /\ s.erase => s.shape[f] = "dense"
       /\ s.damage => s.nested = {}
       /\ \E i \in DOMAIN Priority :
            /\ Priority[i] = Mark(s.kind) /\ Priority[i] \in s.marks
            /\ \A j \in 1..i - 1 : Priority[j] \notin s.marks

IsFat == scen.kind = "fat"

VolumeInit ==
  /\ scen \in Scenarios
  /\ disk = [l \in Lba |-> Zero]
  /\ table = IF IsFat THEN [c \in 2..Total + 1 |-> FreeCell] ELSE <<>>
  /\ used = {}
  /\ entry = <<>>
  /\ place = [f \in Files \cup {Dir} |-> <<>>]
  /\ damaged = FALSE

Live == {f \in DOMAIN entry : ~entry[f].deleted}

FreeSectors == IF IsFat THEN {l \in Lba : IsClusterFree(table, l + 2)} ELSE Lba \ used

\* the cells of a file that lies at p
Chained(cells, p) ==
  [c \in DOMAIN cells |->
     IF c - 2 \notin ToSet(p) THEN cells[c]
     ELSE LET i == CHOOSE i \in DOMAIN p : p[i] = c - 2
          IN  IF i = Len(p) THEN EndCell ELSE p[i + 1] + 2]

Freed(cells, sectors) ==
  [c \in DOMAIN cells |-> IF c - 2 \in sectors THEN FreeCell ELSE cells[c]]

Runs(p) == ClustersToExtents([i \in DOMAIN p |-> p[i] + 2])

\* a file that was truncated to nothing has no hole either
Holed(f, p) == f \in Files /\ p # <<>> /\ scen.shape[f] = "hole"
SizeAt(f, p) == IF Holed(f, p) THEN Len(p) + 1 ELSE Len(p)

\* the sectors of f before its mapping breaks off: at a hole and, on ext4, where
\* the extents begin that are marked unwritten (an NTFS record has a length for it)
Break(f, p) ==
  IF /\ f \in Files /\ scen.cut[f] <= Len(p)
     /\ Holed(f, p) \/ (scen.shape[f] = "unwritten" /\ scen.kind = "ext4")
  THEN scen.cut[f] ELSE Len(p)

Lead(f, p) == Runs(SubSeq(p, 1, Break(f, p)))
Pieces(f, p) == Lead(f, p) \o Runs(SubSeq(p, Break(f, p) + 1, Len(p)))

\* a mapping of f with an element for the hole, behind the first n of it
WithHole(f, p, mapping, n, hole) ==
  IF Holed(f, p) THEN InsertAt(mapping, n + 1, hole) ELSE mapping

\* an NTFS run list: each start is relative to the one before it
RunList(exts) ==
  [i \in DOMAIN exts |-> [sparse |-> FALSE, count |-> exts[i][2],
                          delta |-> exts[i][1] - (IF i = 1 THEN 0 ELSE exts[i - 1][1])]]
SparseRun == [sparse |-> TRUE, count |-> 1, delta |-> 0]

\* the entry of f when it lies at p; an NTFS directory has no data and a FAT
\* directory no size.  Of an ext4 extent the logical block and the unwritten flag
\* are left out, on which nothing in the code depends: a hole is a step in the one.
EntryAt(f, p) ==
  LET pieces == Pieces(f, p) IN
  CASE scen.kind = "fat"  ->
         [deleted |-> FALSE, size |-> IF f = Dir THEN 0 ELSE SizeAt(f, p),
          start |-> IF p = <<>> THEN 0 ELSE p[1] + 2]
    [] scen.kind = "ntfs" ->
         [deleted |-> FALSE, size |-> SizeAt(f, p),
          runs |-> IF f = Dir THEN <<>>
                   ELSE WithHole(f, p, RunList(pieces), Len(Lead(f, p)), SparseRun)]
    [] OTHER ->
         [deleted |-> FALSE, size |-> SizeAt(f, p), extents |-> scen.kind = "ext4",
          leaf   |-> [i \in DOMAIN pieces |-> <<pieces[i][1] + 1, pieces[i][2]>>],
          blocks |-> WithHole(f, p, [i \in DOMAIN p |-> p[i] + 1], Break(f, p), 0)]

\* the file system after f lies at p, having lain at old
Occupy(f, p) ==
  /\ place' = [place EXCEPT ![f] = p]
  /\ entry' = [g \in DOMAIN entry \cup {f} |-> IF g = f THEN EntryAt(f, p) ELSE entry[g]]
  /\ table' = IF IsFat THEN Chained(table, p) ELSE table
  /\ used' = IF IsFat THEN used ELSE used \cup ToSet(p)

Placements(n) == {p \in [1..n -> FreeSectors] : IsInjective(p)}

\* how many sectors f needs, which of them are written, and with which part of it
Needed(f) == IF scen.shape[f] = "hole" THEN FileLen[f] - 1 ELSE FileLen[f]
Written(f, p) ==
  ToSet(IF scen.shape[f] = "unwritten" THEN SubSeq(p, 1, Min({scen.cut[f], Len(p)})) ELSE p)
PartOf(f, k) == IF scen.shape[f] = "hole" /\ k > scen.cut[f] THEN k + 1 ELSE k

Store(f) ==
  /\ f \in scen.files /\ place[f] = <<>> /\ f \notin DOMAIN entry
  /\ f \in scen.nested => Dir \in Live
  /\ \E p \in Placements(Needed(f)) :
       /\ Occupy(f, p)
       /\ disk' = [l \in Lba |-> IF l \in Written(f, p)
                                 THEN <<f, PartOf(f, CHOOSE k \in DOMAIN p : p[k] = l)>> ELSE disk[l]]
  /\ UNCHANGED <<scen, damaged>>

MakeDirectory ==
  /\ scen.nested # {} /\ place[Dir] = <<>>
  /\ \E l \in FreeSectors :
       /\ Occupy(Dir, <<l>>)
       /\ disk' = [disk EXCEPT ![l] = <<Dir, 1>>]
  /\ UNCHANGED <<scen, damaged>>

\* one more sector at the end of a live file
Grow(f) ==
  /\ f \in Live /\ Len(place[f]) = FileLen[f]
  /\ \E l \in FreeSectors :
       /\ Occupy(f, Append(place[f], l))
       /\ disk' = [disk EXCEPT ![l] = <<f, FileLen[f] + 1>>]
  /\ UNCHANGED <<scen, damaged>>

\* the file's sectors are free again; keep: what the FAT or the inode said of
\* them is left behind
Release(f, keep) ==
  /\ table' = IF IsFat /\ ~keep THEN Freed(table, ToSet(place[f])) ELSE table
  /\ used' = IF IsFat THEN used ELSE used \ ToSet(place[f])

\* a directory is deleted when nothing lives in it
Delete(f) ==
  /\ f \in Live
  /\ f = Dir => Live \cap scen.nested = {}
  /\ \E keep \in BOOLEAN :
       /\ Release(f, keep)
       /\ entry' = [entry EXCEPT ![f] = IF ~keep /\ scen.kind \in {"ext4", "ext2"}
                                        THEN [@ EXCEPT !.deleted = TRUE, !.leaf = <<>>, !.blocks = <<>>]
                                        ELSE [@ EXCEPT !.deleted = TRUE]]
  /\ UNCHANGED <<scen, disk, place, damaged>>

\* a cell of the FAT is damaged, once
Damage ==
  /\ IsFat /\ scen.damage /\ ~damaged
  /\ \E c \in DOMAIN table, v \in 2..Total + 2 :
       /\ table[c] # FreeCell
       /\ table' = [table EXCEPT ![c] = v]
  /\ damaged' = TRUE
  /\ UNCHANGED <<scen, disk, used, entry, place>>

\* an unreadable boot sector is an error the callers take for Unknown
Detected ==
  LET found == {i \in DOMAIN Priority : Priority[i] \in scen.marks}
  IN  IF ~scen.boot \/ found = {} THEN "unknown" ELSE Priority[Min(found)]

\* the parser that is asked is the one for this volume
Recognized == Detected = Mark(scen.kind)

\* what the parser of the file system says of a listed file
Locate(f) ==
  CASE scen.kind = "fat"  -> LocateFat(table, entry[f])
    [] scen.kind = "ntfs" -> LocateNtfs(scen.bitmap, used, entry[f])
    [] OTHER              -> LocateExt4(scen.bitmap, used, entry[f])
=============================================================================
