------------------------------ MODULE Recovery ------------------------------
(***************************************************************************)
(* The recovery pipeline over an image of the medium: files the parsers    *)
(* list (tier 1), files with a known header that a validator accepts       *)
(* (tier 2), files in two fragments (tier 3).  The sectors tier 1 is sure  *)
(* of and those of complete finds are claimed, and not searched again.     *)
(***************************************************************************)
EXTENDS FileErasure

CONSTANT Options      \* the tiers of a run: subsets of 1..3

VARIABLES phase,      \* "use", then the tier that runs, then "done" or "failed"
          tiers,      \* the tiers this run enables
          pos,        \* where the search of a carving tier goes on
          claimed,    \* AllocatedBlockMap
          arts,       \* artifacts of tiers 1 and 2
          rebuilt     \* artifacts of tier 3, until the run ends

pipeline == <<phase, tiers, pos, claimed, arts, rebuilt>>
vars == <<volume, job, pipeline>>

medium == [disk |-> disk, bad |-> scen.bad]

Init ==
  /\ VolumeInit /\ ErasureInit
  /\ phase = "use" /\ tiers = {} /\ pos = 0
  /\ claimed = {} /\ arts = {} /\ rebuilt = {}

\* the medium is taken out of use and imaged
Start ==
  /\ phase = "use" /\ ~Busy /\ job.step # "stopped"
  /\ tiers' \in Options
  /\ phase' = "tier1"
  /\ UNCHANGED <<volume, job, pos, claimed, arts, rebuilt>>

----------------------------------------------------------------------------
(* Tier 1: recover_tier1 *)

\* one extent is read whole or not at all; of several, those that can be read
Payload(loc, size) ==
  LET readable == Subsequence(loc, {i \in DOMAIN loc : CanRead(medium, loc[i][1], loc[i][2])})
      data == [i \in DOMAIN SectorSeq(readable) |-> disk[SectorSeq(readable)[i]]]
  IN  SubSeq(data, 1, Min({size, Len(data)}))

ListedArtifact(f) ==
  LET at   == Locate(f)
      data == Payload(at.loc, entry[f].size)
  IN  Artifact(1, f, at.loc, at.conf, data, data = <<>> /\ entry[f].size > 0)

Reachable(f) == f \notin scen.nested \/ Dir \in Live
DirReadable == ToSet(place[Dir]) \cap scen.bad = {}

\* enumerate_all of the FAT parser: the tree of the live directories, in which
\* a sector that cannot be read or a chain that loops, of whichever entry, ends
\* the parser, the tier and the run; then the entries of deleted files that
\* are left in free clusters, where such a chain is passed over
ParserFails ==
  /\ Recognized /\ IsFat
  /\ \/ Dir \in Live /\ ~DirReadable
     \/ \E f \in DOMAIN entry : Reachable(f) /\ Loops(table, entry[f].start)

ListedFat ==
  {f \in DOMAIN entry :
     \/ Reachable(f)
     \/ /\ entry[f].deleted /\ entry[f].start >= 2 /\ entry[f].size > 0
        /\ DirReadable /\ disk[place[Dir][1]] = <<Dir, 1>>
        /\ IsClusterFree(table, place[Dir][1] + 2)
        /\ ~Loops(table, entry[f].start)}

\* scan_directory_tree passes over a sector that cannot be read, and does not
\* list live directories; scan_all_inode_tables finds what is deleted
ListedExt4 ==
  {f \in DOMAIN entry \ (Live \cap {Dir}) :
     \/ Reachable(f) /\ (f \in scen.nested => DirReadable)
     \/ entry[f].deleted /\ entry[f].size > 0}

\* scan_mft_records: every record, wherever its file hangs
ListedNtfs == DOMAIN entry

\* a volume that no parser is asked about lists nothing, and that is no error
Listed == CASE ~Recognized          -> {}
            [] Detected = "fat"     -> ListedFat
            [] Detected = "ntfs"    -> ListedNtfs
            [] OTHER                -> ListedExt4

\* cmd_fs_dump, which writes one file: unlike recover_tier1 it fails when an
\* extent cannot be read or the location is not known
DumpFails(f) ==
  LET loc == Locate(f).loc
  IN  ParserFails \/ f \notin Listed \/ loc = <<>>
      \/ \E i \in DOMAIN loc : ~CanRead(medium, loc[i][1], loc[i][2])

Dump(f) ==
  LET sectors == SectorSeq(Locate(f).loc)
  IN  [i \in 1..Min({entry[f].size, Len(sectors)}) |-> disk[sectors[i]]]

Claims(as) == UNION {Covered(a.loc) : a \in {b \in as : b.conf \in {"Confirmed", "Partial"}}}

RunTier1 ==
  /\ phase = "tier1"
  /\ IF 1 \in tiers /\ ParserFails
     THEN phase' = "failed" /\ UNCHANGED <<arts, claimed>>
     ELSE /\ phase' = "tier2"
          /\ arts' = IF 1 \in tiers THEN {ListedArtifact(f) : f \in Listed} ELSE {}
          /\ claimed' = Claims(arts')
  /\ UNCHANGED <<volume, job, tiers, pos, rebuilt>>

----------------------------------------------------------------------------
(* Tiers 2 and 3: the sectors that are neither claimed nor unreadable are   *)
(* visited in order; only a header leads to anything.                       *)

Headers == {l \in Lba : l >= pos /\ l \notin claimed /\ l \notin scen.bad /\ IsHeader(disk[l])}

\* carve_tier2_with_analyzer: a complete find is claimed and passed over, a
\* truncated one is kept with its limitation and its sectors stay open
CarveSignature ==
  /\ phase = "tier2" /\ 2 \in tiers /\ Headers # {}
  /\ LET lba   == Min(Headers)
         found == Tier2Artifact(scen.class, medium, lba)
         whole == {a \in found : ~a.limited}
     IN  /\ arts' = arts \cup found
         /\ claimed' = claimed \cup UNION {Covered(a.loc) : a \in whole}
         /\ pos' = Max({lba + 1} \cup {a.loc[1][1] + a.loc[1][2] : a \in whole})
  /\ UNCHANGED <<volume, job, phase, tiers, rebuilt>>

EndTier2 ==
  /\ phase = "tier2" /\ (2 \notin tiers \/ Headers = {})
  /\ phase' = "tier3" /\ pos' = 0
  /\ UNCHANGED <<volume, job, tiers, claimed, arts, rebuilt>>

\* carve_tier3_with_analyzer
CarveFragments ==
  /\ phase = "tier3" /\ 3 \in tiers /\ Headers # {}
  /\ LET lba   == Min(Headers)
         found == Tier3Artifact(scen.class, medium, claimed, lba)
     IN  /\ rebuilt' = rebuilt \cup found
         /\ claimed' = claimed \cup UNION {Covered(a.loc) : a \in found}
         /\ pos' = lba + 1
  /\ UNCHANGED <<volume, job, phase, tiers, arts>>

Starts(as) == {a.loc[1][1] : a \in {b \in as : b.loc # <<>>}}

\* what starts where a rebuilt file starts and has a limitation is dropped
Finish ==
  /\ phase = "tier3" /\ (3 \notin tiers \/ Headers = {})
  /\ phase' = "done"
  /\ arts' = {a \in arts : ~(a.limited /\ Starts({a}) \cap Starts(rebuilt) # {})} \cup rebuilt
  /\ UNCHANGED <<volume, job, tiers, pos, claimed, rebuilt>>

----------------------------------------------------------------------------

InUse == phase = "use" /\ UNCHANGED pipeline /\ (Host \/ ErasureStep)
Next == \/ InUse
        \/ Start \/ RunTier1 \/ CarveSignature \/ EndTier2 \/ CarveFragments \/ Finish

Spec == Init /\ [][Next]_vars

----------------------------------------------------------------------------
(* Properties *)

Done == phase = "done"

\* the indirect blocks of an old inode are never looked for
Resolvable(sectors) == scen.kind = "ext2" => Cardinality(sectors) <= DirectPointers

\* What the carving tiers find lies on the medium, and every find holds contents
\* of its sectors.  A damaged table may place a listed file outside, of which
\* nothing is read.
TypeOK ==
  /\ phase \in {"use", "tier1", "tier2", "tier3", "done", "failed"}
  /\ disk \in [Lba -> (((Files \cup {Dir}) \X (1..(Max({FileLen[f] : f \in Files}) + 1))) \cup {Zero, Noise})]
  /\ \A a \in arts \cup rebuilt :
       /\ a.tier \in 1..3 /\ a.limited \in BOOLEAN
       /\ a.tier > 1 => Covered(a.loc) \subseteq Lba
       /\ \A i \in DOMAIN a.payload : a.payload[i] \in {disk[l] : l \in Lba}

\* What tier 1 and the dump of one file give of a live file are the sectors the
\* host laid it in, in order and none missing, claimed against carving; of a dense
\* file that is what the host reads, and the rest of a damaged FAT does not matter.
\* It is not of a file with a hole, which is closed up so that what follows is
\* shifted and the end is short, nor of one with an unwritten part, of which what
\* lay there before is given: the find has no limitation in either case.  Outside
\* the property are a file whose own chain is damaged, a sector of the file or of
\* its directory that cannot be read (the dump then fails), a directory whose
\* entry went with that of an erased file beside it, an old inode's indirect
\* blocks, a run that a looping chain has ended and, for tier 1, a volume whose
\* boot sector cannot be read.
LiveFilesAreRecovered ==
  Done =>
    \A f \in Live \ {Dir} :
      LET stored  == [k \in DOMAIN place[f] |-> disk[place[f][k]]]
          sound   == /\ ToSet(place[f]) \cap scen.bad = {}
                     /\ f \in scen.nested => Dir \in DOMAIN entry /\ DirReadable
          mapped  == /\ IsFat => Chained(table, place[f]) = table
                     /\ scen.kind = "ext2" => entry[f].size <= DirectPointers
      IN  /\ entry[f].size > 0 /\ mapped
          => /\ DumpFails(f) \/ Dump(f) = stored
             /\ 1 \in tiers /\ sound /\ scen.boot =>
                  /\ ~DumpFails(f)
                  /\ \E a \in arts : /\ a.tier = 1 /\ a.file = f /\ ~a.limited
                                     /\ a.payload = stored
                                     /\ ToSet(place[f]) \subseteq claimed

\* A deleted file whose location is called Confirmed shares no sector with a
\* live file: what was stored over it is noticed.
ConfirmedBlocksAreFree ==
  ~damaged => \A a \in arts : a.tier = 1 /\ a.conf = "Confirmed" /\ a.file \in DOMAIN entry \ Live
                 => \A g \in Live : Covered(a.loc) \cap ToSet(place[g]) = {}

\* The precedence of the tiers: carving starts in no sector tier 1 is sure of
\* and tier 3 takes none of them; complete finds and rebuilt files share no
\* sector; where a file was rebuilt no truncated find is left.
TiersKeepApart ==
  LET sure   == Claims({a \in arts : a.tier = 1})
      carved == {a \in arts : a.tier = 2}
      third  == rebuilt
  IN  /\ Starts(carved) \cap sure = {}
      /\ \A a \in third : Covered(a.loc) \cap sure = {}
      /\ \A a, b \in third \cup {c \in carved : ~c.limited} :
           a # b => Covered(a.loc) \cap Covered(b.loc) = {}
      /\ Done => Starts(carved) \cap Starts(third) = {}

\* A file whose validator checks its contents is found by the carving tiers
\* alone when it lies whole on the medium: in one piece, or in two with a gap
\* of at most the search radius, nothing of it claimed, the windows readable,
\* and with a sector of the medium behind the second piece.  Of an OLE2 file the
\* validator looks at three parts, so that a longer one may be cut wrongly.
Sound(sectors) == sectors \cap (Claims({a \in arts : a.tier = 1}) \cup scen.bad) = {}
TakenByOthers(f) ==
  UNION {Covered(a.loc) : a \in {b \in arts : b.tier > 1 /\ b.file # f
                                    /\ (~b.limited \/ b.tier = 3)}}
LiesAt(f, loc) == SectorSeq(loc) \in [1..FileLen[f] -> Lba]
                  /\ \A k \in 1..FileLen[f] : disk[SectorSeq(loc)[k]] = <<f, k>>
Found(f) == \E a \in arts : a.tier > 1 /\ a.payload = Whole(f)

IntactFilesAreCarved ==
  Done /\ {2, 3} \subseteq tiers =>
    \A f \in Files : scen.class[f] \in {"chunked", "mapped"} /\ scen.bad = {} =>
      /\ \A l \in 0 .. Total - FileLen[f] :
           LET loc == <<<<l, FileLen[f]>>>> IN
           /\ LiesAt(f, loc) /\ Sound({l}) /\ l \notin TakenByOthers(f)
           /\ FileLen[f] <= Min({MaxObject, FullWindow})
           => Found(f)
      /\ \A l \in Lba, cut \in 1 .. FileLen[f] - 1, gap \in 1..Radius :
           LET loc == Bifragment(l, FileLen[f], cut, gap) IN
           /\ scen.class[f] = "mapped" => FileLen[f] <= 3
           /\ l + FileLen[f] + gap < Total /\ FileLen[f] <= MaxPieces
           /\ LiesAt(f, loc) /\ Sound(Covered(loc)) /\ Covered(loc) \cap TakenByOthers(f) = {}
           => Found(f)

\* Erasure is overwriting: a file is unlinked, its sectors are freed or it is
\* reported erased only when no sector it had when the erasure began holds its
\* data any more, whatever fails or stops on the way, and whatever the host
\* appends meanwhile.  A damaged FAT or an old inode's indirect blocks may hide
\* sectors from the pipeline, which reports Sanitized all the same.
ErasedIsGone ==
  job # NoJob =>
    LET f == job.file
        letGo == \/ job.step \in {"remove", "removed", "Sanitized"}
                 \/ f \in DOMAIN entry /\ (entry[f].deleted \/ entry[f].size = 0)
    IN  letGo /\ ~damaged /\ Resolvable(Target) => Wiped(f, Target)
=============================================================================
