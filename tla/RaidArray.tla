----------------------------- MODULE RaidArray -----------------------------
(***************************************************************************)
(* An array assembled from the disks an examiner has, some of which are    *)
(* missing, belong elsewhere, are stale or cannot be read everywhere, and  *)
(* one read of it (vajra-raid, array.rs).                                  *)
(***************************************************************************)
EXTENDS GaloisField, RaidLayout, Sequences, FiniteSets

CONSTANTS
  Geometries,    (* geometries the superblocks may describe                *)
  Found(_),      (* for a geometry, the sequences of disks to assemble     *)
  Unreadable(_), (* for a sequence of disks, what of them may not be read  *)
  Content(_, _), (* what the array of a set held at an LBA                 *)
  MaxCount       (* bound: sectors of one read                             *)

ASSUME GeometryAssumption == Geometries \subseteq Geometry
ASSUME CountAssumption == MaxCount \in Nat

(* detect_mdadm_superblock comes to a set, a slot in it, or nothing.  A    *)
(* disk is read from an image file or is a drive.                          *)
Disk == [sb : BOOLEAN, set : {"array", "other"}, slot : Nat, current : BOOLEAN,
         image : BOOLEAN, capacity : Nat]

ASSUME FoundAssumption == \A g \in Geometries : Found(g) \subseteq Seq(Disk)

VARIABLES
  pc,      (* "detect", "ready", "reading", "ok", "failed" or "refused"    *)
  disks,   (* candidate_members: their superblocks and sizes               *)
  geom,    (* the geometry of the array                                    *)
  bad,     (* pairs of a disk and a sector that cannot be read             *)
  members, (* for every slot the index of its disk, 0 for none             *)
  req,     (* start and length of the read                                 *)
  out      (* the sectors read so far                                      *)

vars == <<pc, disks, geom, bad, members, req, out>>

Init ==
  /\ pc = "detect"
  /\ geom \in Geometries
  /\ disks \in Found(geom)
  /\ bad \in Unreadable(disks)
  /\ members = [i \in 0 .. geom.n - 1 |-> 0]
  /\ req = [start |-> 0, count |-> 0]
  /\ out = <<>>

Greatest(s) == CHOOSE i \in s : \A j \in s : j <= i
Least(s) == CHOOSE i \in s : \A j \in s : i <= j

-----------------------------------------------------------------------------
(* Assembly.                                                               *)

Detected == { i \in DOMAIN disks : disks[i].sb }

(* The disks that fit the first superblock found, and a plausible defect:  *)
(* the set is not compared.                                                *)
FittingSlot(i) == disks[i].slot < geom.n
Fitting(i) ==
  disks[i].slot < geom.n /\ disks[i].set = disks[Least(Detected)].set

(* Of two disks for one slot the later one is taken.                       *)
Placed ==
  [slot \in 0 .. geom.n - 1 |->
     LET these == { i \in Detected : Fitting(i) /\ disks[i].slot = slot }
     IN  IF these = {} THEN 0 ELSE Greatest(these)]

Missing(slots) == { i \in DOMAIN slots : slots[i] = 0 }

(* What RaidArray::new tolerates.                                          *)
Tolerated(slots) ==
  Cardinality(Missing(slots)) <= ParityDisks(geom.level)

(* auto_detect and new.  The members' capacity is taken of the first disk, *)
(* whether or not it has a superblock.                                     *)
AutoDetect ==
  /\ pc = "detect"
  /\ LET sized == IF disks = <<>> THEN geom
                  ELSE [geom EXCEPT !.capacity = disks[1].capacity]
     IN  IF Detected # {} /\ Accepted(sized) /\ Tolerated(Placed)
         THEN pc' = "ready" /\ members' = Placed /\ geom' = sized
         ELSE pc' = "refused" /\ UNCHANGED <<members, geom>>
  /\ UNCHANGED <<disks, bad, req, out>>

-----------------------------------------------------------------------------
(* What the members hold: the content as a controller of this geometry     *)
(* writes it, with P and Q.  A disk that is not current has what was there *)
(* before.                                                                 *)
Truth(i, row, col, within) ==
  IF disks[i].current
  THEN Content(disks[i].set, (row * DataDisks(geom) + col) * geom.chunk + within)
  ELSE 0

Stored(i, row, within) ==
  LET D(col) == Truth(i, row, col, within)
      GD(col) == Mul(GPow(col), D(col))
      Cols == 0 .. DataDisks(geom) - 1
      slot == disks[i].slot
  IN  IF slot \notin ParityOf(geom, row)
      THEN D(CHOOSE col \in Cols : MemberOf(geom, row, col) = slot)
      ELSE IF slot = ParityP(geom, row) THEN Sum([col \in Cols |-> D(col)])
      ELSE Sum([col \in Cols |-> GD(col)])

(* A drive reads all or fails; an image that has the first of the sectors  *)
(* fills up with zeros what it has not.                                    *)
Readable(slot, lba, count) ==
  LET disk == disks[members[slot]]
  IN  /\ IF disk.image THEN lba < disk.capacity ELSE lba + count <= disk.capacity
      /\ \A s \in lba .. lba + count - 1 : <<members[slot], s>> \notin bad

Sector(i, row, within) ==
  IF geom.offset + row * geom.chunk + within < disks[i].capacity
  THEN Stored(i, row, within) ELSE 0

Lost == Missing(members)
Present == DOMAIN members \ Lost
DataCols(row) ==
  { col \in 0 .. DataDisks(geom) - 1 : MemberOf(geom, row, col) \in Present }

(* The members reconstruct_block reads.                                    *)
ByXor(loc) ==
  geom.level = "Raid5" \/ (Cardinality(Lost) = 1 /\ ParityP(geom, loc.row) \notin Lost)
Consulted(loc) ==
  IF geom.level = "Raid6" /\ ByXor(loc) THEN Present \ {ParityQ(geom, loc.row)}
  ELSE Present

(* A sector of a missing member, from those that are there.                *)
Reconstructed(loc, within) ==
  LET At(slot) == Sector(members[slot], loc.row, within)
      D(col) == At(MemberOf(geom, loc.row, col))
      GD(col) == Mul(GPow(col), D(col))
      p == ParityP(geom, loc.row)
      q == ParityQ(geom, loc.row)
      cols == DataCols(loc.row)
      gone == (0 .. DataDisks(geom) - 1) \ cols
  IN  IF ByXor(loc) THEN Sum([slot \in Consulted(loc) |-> At(slot)])
      ELSE IF p \in Lost THEN WithQ(At(q), Sum([col \in cols |-> GD(col)]), loc.col)
      ELSE IF q \in Lost THEN WithP(At(p), Sum([col \in cols |-> D(col)]))
      ELSE LET x == Least(gone)
               y == Greatest(gone)
               pxy == Add(At(p), Sum([col \in cols |-> D(col)]))
               qxy == Add(At(q), Sum([col \in cols |-> GD(col)]))
           IN  IF loc.col = x THEN FirstOf(pxy, qxy, x, y) ELSE SecondOf(pxy, qxy, x, y)

-----------------------------------------------------------------------------
(* Reading.                                                                *)

(* The bound read_blocks checks.                                           *)
Outside(start, count) == start + count > Total(geom)

Request ==
  /\ pc = "ready"
  /\ \E start \in 0 .. Total(geom), count \in 1 .. MaxCount :
       /\ req' = [start |-> start, count |-> count]
       /\ pc' = IF Outside(start, count) THEN "failed" ELSE "reading"
  /\ UNCHANGED <<disks, geom, bad, members, out>>

(* Sectors taken at a time: up to the end of the chunk, and a plausible    *)
(* defect, to run on into the next.                                        *)
TakenOver(loc) == req.count - Len(out)
Taken(loc) ==
  LET left == req.count - Len(out)
  IN  IF left < geom.chunk - loc.within THEN left ELSE geom.chunk - loc.within

(* One turn of the loop of read_blocks: a member that is there is read and *)
(* its error is final; a missing one is reconstructed.                     *)
ReadExtent ==
  /\ pc = "reading" /\ Len(out) < req.count
  /\ LET loc == Location(geom, req.start + Len(out))
         take == Taken(loc)
         from == IF loc.member \in Present THEN {loc.member} ELSE Consulted(loc)
         Got(k) ==
           IF loc.member \in Present
           THEN Sector(members[loc.member],
                       loc.row + (loc.within + k - 1) \div geom.chunk,
                       (loc.within + k - 1) % geom.chunk)
           ELSE Reconstructed(loc, loc.within + k - 1)
     IN  IF \A slot \in from : Readable(slot, loc.lba, take)
         THEN out' = out \o [k \in 1 .. take |-> Got(k)] /\ UNCHANGED pc
         ELSE pc' = "failed" /\ UNCHANGED out
  /\ UNCHANGED <<disks, geom, bad, members, req>>

EndRead ==
  /\ pc = "reading" /\ Len(out) = req.count
  /\ pc' = "ok"
  /\ UNCHANGED <<disks, geom, bad, members, req, out>>

Next == AutoDetect \/ Request \/ ReadExtent \/ EndRead

Spec == Init /\ [][Next]_vars

-----------------------------------------------------------------------------
Assembled == pc \notin {"detect", "refused"}

(* The array has members of one set only, each in the slot its superblock  *)
(* names, and no more of them are missing than parity makes up for.        *)
AssemblyIsOneSet ==
  Assembled =>
    /\ \A i, j \in Present :
         /\ disks[members[i]].slot = i
         /\ disks[members[i]].set = disks[members[j]].set
    /\ Cardinality(Lost) <= ParityDisks(geom.level)

(* A member that holds what the array wrote to it, and all of it unless it *)
(* is a drive, which says so.                                              *)
Sound(disk) == disk.current /\ (disk.image => disk.capacity >= geom.capacity)

(* What has been read is what the array held, whichever members are        *)
(* missing, as long as none that is there is stale or an image cut short.  *)
ReadIsExact ==
  Assembled /\ (\A i \in Present : Sound(disks[members[i]])) =>
    \A k \in DOMAIN out :
      out[k] = Content(disks[Least(Detected)].set, req.start + k - 1)

(* A read inside of the array fails only where the member it lies on, or   *)
(* one of those it is reconstructed from, has no readable sector.          *)
FailuresAreForced ==
  pc = "failed" /\ req.start + req.count <= Total(geom) =>
    \E a \in req.start .. req.start + req.count - 1 :
      LET loc == Location(geom, a)
      IN  \E i \in (IF loc.member \in Present THEN {loc.member} ELSE Present) :
            \/ <<members[i], loc.lba>> \in bad
            \/ loc.lba >= disks[members[i]].capacity

(* Distinct sectors of the array have places of their own, inside of the   *)
(* members and never on a row's parity.                                    *)
PlacesAreDistinct ==
  pc = "ready" =>
    \A a \in 0 .. Total(geom) - 1 :
      LET loc == Location(geom, a)
      IN  /\ loc.member \in 0 .. geom.n - 1 /\ loc.lba < geom.capacity
          /\ loc.member \notin ParityOf(geom, loc.row)
          /\ \A b \in 0 .. Total(geom) - 1 :
               /\ Location(geom, b).member = loc.member
               /\ Location(geom, b).lba = loc.lba
               => a = b

=============================================================================
