----------------------------- MODULE RaidLayout -----------------------------
(***************************************************************************)
(* Where a sector of a RAID array lies on its members (vajra-raid,         *)
(* layout.rs).  A geometry g has its level, layout, number n of members,   *)
(* chunk size and data offset in sectors, and the members' capacity.       *)
(***************************************************************************)
EXTENDS Integers

Level == {"Raid0", "Raid5", "Raid6"}
Layout == {"LeftSymmetric", "LeftAsymmetric", "RightSymmetric", "RightAsymmetric"}

Geometry == [level : Level, layout : Layout, n : Nat, chunk : Nat,
             offset : Nat, capacity : Nat]

ParityDisks(level) == IF level = "Raid0" THEN 0 ELSE IF level = "Raid5" THEN 1 ELSE 2

(* RaidGeometry::new; that the chunk is a power of two is left out.        *)
Accepted(g) ==
  /\ g.chunk > 0
  /\ g.n >= (IF g.level = "Raid0" THEN 2 ELSE ParityDisks(g.level) + 2)

DataDisks(g) == g.n - ParityDisks(g.level)

Rows(g) == (IF g.offset < g.capacity THEN g.capacity - g.offset ELSE 0) \div g.chunk
Total(g) == Rows(g) * g.chunk * DataDisks(g)

Left(g) == g.layout \in {"LeftSymmetric", "LeftAsymmetric"}
Symmetric(g) == g.layout \in {"LeftSymmetric", "RightSymmetric"}

ParityP(g, row) ==
  IF g.level = "Raid0" THEN 0
  ELSE IF ~ Left(g) THEN row % g.n
  ELSE IF g.level = "Raid5" THEN (g.n - 1 - (row % g.n)) % g.n
  ELSE IF row % g.n = g.n - 1 THEN g.n - 1 ELSE g.n - 2 - (row % g.n)

ParityQ(g, row) == (ParityP(g, row) + 1) % g.n

(* The asymmetric column steps over the parity disks, lower one first; in  *)
(* the other order it may land on the upper one.                           *)
SteppedOver(col, low, high) ==
  LET once == IF col >= low THEN col + 1 ELSE col
  IN  IF once >= high THEN once + 1 ELSE once

Lower(a, b) == IF a < b THEN a ELSE b
Upper(a, b) == IF a < b THEN b ELSE a

Member5(g, row, col) ==
  LET p == ParityP(g, row)
  IN  IF Symmetric(g) THEN (p + 1 + col) % g.n
      ELSE IF col < p THEN col ELSE col + 1

(* map_raid6_member.                                                       *)
Member6(g, row, col) ==
  LET p == ParityP(g, row)
      q == ParityQ(g, row)
  IN  IF Symmetric(g) THEN (q + 1 + col) % g.n
      ELSE SteppedOver(col, Lower(p, q), Upper(p, q)) % g.n

MemberOf(g, row, col) ==
  IF g.level = "Raid0" THEN col
  ELSE IF g.level = "Raid5" THEN Member5(g, row, col)
  ELSE Member6(g, row, col)

(* map_lba.                                                                *)
Location(g, lba) ==
  LET index == lba \div g.chunk
      row == index \div DataDisks(g)
      col == index % DataDisks(g)
  IN  [row |-> row, col |-> col, member |-> MemberOf(g, row, col),
       lba |-> g.offset + row * g.chunk + (lba % g.chunk),
       within |-> lba % g.chunk]

(* The members of a row that hold no data.                                 *)
ParityOf(g, row) ==
  IF g.level = "Raid0" THEN {}
  ELSE IF g.level = "Raid5" THEN {ParityP(g, row)}
  ELSE {ParityP(g, row), ParityQ(g, row)}

=============================================================================
