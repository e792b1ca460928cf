-------------------------- MODULE RaidArrayProofs --------------------------
(* Proofs about the mapping of an array's sectors to its members and about *)
(* its assembly (modules RaidLayout and RaidArray), for arrays of any      *)
(* level, layout, number of members and size of chunk.                     *)
EXTENDS RaidArray, WellFoundedInduction, TLAPS

LEMMA Division ==
  \A a, b \in Nat : b > 0 =>
    a \div b \in Nat /\ a % b \in 0 .. b - 1 /\ a = b * (a \div b) + (a % b)
<1>1. \A a, b \in Nat : b > 0 => a = b * (a \div b) + (a % b)
  BY SMT
<1>2. \A a, b \in Nat : b > 0 => a % b \in 0 .. b - 1
  BY SMT
<1>3. \A a, b \in Nat : b > 0 => a \div b \in Nat
  BY SMT
<1> QED BY <1>1, <1>2, <1>3

LEMMA ProductGrows ==
  ASSUME NEW b \in Nat, NEW x \in Nat, NEW y \in Nat, x < y
  PROVE  b * x + b <= b * y
<1> DEFINE d == y - x - 1
<1>1. d \in Nat /\ y = x + 1 + d
  OBVIOUS
<1>2. b * y = b * x + b + b * d
  BY <1>1
<1>3. b * d >= 0
  BY <1>1
<1> QED BY <1>2, <1>3, <1>1

LEMMA DivisionIsUnique ==
  ASSUME NEW b \in Nat, b > 0, NEW x \in Nat, NEW y \in Nat,
         NEW r \in 0 .. b - 1, NEW s \in 0 .. b - 1, b * x + r = b * y + s
  PROVE  x = y /\ r = s
<1>1. b * x \in Nat /\ b * y \in Nat
  OBVIOUS
<1>2. ~ (x < y)
  <2> SUFFICES ASSUME x < y PROVE FALSE
    OBVIOUS
  <2> QED BY ProductGrows, <1>1
<1>3. ~ (y < x)
  <2> SUFFICES ASSUME y < x PROVE FALSE
    OBVIOUS
  <2>1. b * y + b <= b * x
    BY ProductGrows
  <2> QED BY <2>1, <1>1
<1> QED BY <1>2, <1>3

LEMMA ColumnsOfRows ==
  ASSUME NEW c \in Nat, NEW d \in Nat, NEW row \in Nat, NEW col \in Nat
  PROVE  c * (d * row + col) \in Nat /\ (row * d + col) * c = c * (d * row + col)
<1>1. d * row \in Nat /\ row * d = d * row
  OBVIOUS
<1> DEFINE x == d * row
           y == row * d
<1> HIDE DEF x, y
<1>2. x \in Nat /\ y = x
  BY <1>1 DEF x, y
<1>3. c * (x + col) \in Nat /\ (y + col) * c = c * (x + col)
  BY <1>2
<1> QED BY <1>3 DEF x, y

LEMMA SmallMod ==
  ASSUME NEW n \in Nat, n > 0, NEW a \in 0 .. 2 * n - 1
  PROVE  a % n = (IF a < n THEN a ELSE a - n)
<1> DEFINE x == IF a < n THEN 0 ELSE 1
           r == IF a < n THEN a ELSE a - n
<1>1. x \in Nat /\ r \in 0 .. n - 1 /\ a = n * x + r
  BY Z3
<1>2. a \div n \in Nat /\ a % n \in 0 .. n - 1 /\ a = n * (a \div n) + (a % n)
  BY Division
<1> HIDE DEF x
<1>3. a % n = r
  BY <1>1, <1>2, DivisionIsUnique
<1> QED BY <1>3

-----------------------------------------------------------------------------
(* The members of a row.                                                   *)

(* A geometry that was accepted.                                           *)
LEMMA AcceptedIsSound ==
  ASSUME NEW g \in Geometry, Accepted(g)
  PROVE  /\ g.n \in Nat /\ g.chunk \in Nat /\ g.chunk > 0
         /\ g.offset \in Nat /\ g.capacity \in Nat
         /\ g.level \in Level /\ g.n >= 2
         /\ g.level = "Raid5" => g.n >= 3
         /\ g.level = "Raid6" => g.n >= 4
         /\ DataDisks(g) \in Nat /\ DataDisks(g) > 0
         /\ DataDisks(g) = g.n - ParityDisks(g.level)
BY DEF Geometry, Level, Accepted, ParityDisks, DataDisks

LEMMA ParityIsOnAMember ==
  ASSUME NEW g \in Geometry, Accepted(g), NEW row \in Nat
  PROVE  /\ ParityP(g, row) \in 0 .. g.n - 1
         /\ ParityQ(g, row) =
              (IF ParityP(g, row) = g.n - 1 THEN 0 ELSE ParityP(g, row) + 1)
<1> DEFINE n == g.n
           r == row % n
           p == ParityP(g, row)
<1>1. n \in Nat /\ n >= 2 /\ g.level \in Level
  BY AcceptedIsSound
<1>2. r \in 0 .. n - 1
  BY <1>1, Division
<1> HIDE DEF r, n
<1>3. p \in 0 .. n - 1
  <2>1. n - 1 - r \in 0 .. n - 1 /\ (n - 1 - r) % n = n - 1 - r
    <3>1. n - 1 - r \in 0 .. 2 * n - 1 /\ n - 1 - r < n
      BY <1>1, <1>2
    <3> QED BY <3>1, <1>1, <1>2, SmallMod
  <2>2. p = IF g.level = "Raid0" THEN 0
            ELSE IF ~ Left(g) THEN r
            ELSE IF g.level = "Raid5" THEN (n - 1 - r) % n
            ELSE IF r = n - 1 THEN n - 1 ELSE n - 2 - r
    BY DEF ParityP, r, n
  <2> QED BY <2>1, <2>2, <1>1, <1>2
<1> HIDE DEF p
<1>4. (p + 1) % n = (IF p = n - 1 THEN 0 ELSE p + 1)
  <2>1. p + 1 \in 0 .. 2 * n - 1
    BY <1>1, <1>3
  <2> QED BY <2>1, <1>1, <1>3, SmallMod
<1> QED BY <1>3, <1>4 DEF ParityQ, p, n

(* Every column of a row has a member of its own that is not the row's     *)
(* parity.                                                                 *)
LEMMA ColumnHasAMember ==
  ASSUME NEW g \in Geometry, Accepted(g), NEW row \in Nat,
         NEW col \in 0 .. DataDisks(g) - 1
  PROVE  /\ MemberOf(g, row, col) \in 0 .. g.n - 1
         /\ MemberOf(g, row, col) \notin ParityOf(g, row)
         /\ \A other \in 0 .. DataDisks(g) - 1 :
              MemberOf(g, row, other) = MemberOf(g, row, col) => other = col
<1> DEFINE n == g.n
           p == ParityP(g, row)
           q == ParityQ(g, row)
           Cols == 0 .. DataDisks(g) - 1
<1>1. n \in Nat /\ n >= 2 /\ g.level \in Level /\ DataDisks(g) = n - ParityDisks(g.level)
  BY AcceptedIsSound
<1>2. p \in 0 .. n - 1 /\ q = (IF p = n - 1 THEN 0 ELSE p + 1)
  BY ParityIsOnAMember
<1> HIDE DEF n, p, q
<1>3. \A x \in 0 .. 2 * n - 1 : x % n = (IF x < n THEN x ELSE x - n)
  BY <1>1, SmallMod
<1>4. CASE g.level = "Raid0"
  BY <1>1, <1>4 DEF MemberOf, ParityOf, ParityDisks, n
<1>5. CASE g.level = "Raid5"
  <2>1. n >= 3 /\ DataDisks(g) = n - 1
    BY <1>1, <1>5, AcceptedIsSound DEF ParityDisks, n
  <2>2. ParityOf(g, row) = {p}
    BY <1>5 DEF ParityOf, p
  <2>3. CASE Symmetric(g)
    <3>1. \A c \in Cols : MemberOf(g, row, c) = (IF p + 1 + c < n THEN p + 1 + c ELSE p + 1 + c - n)
      <4> TAKE c \in Cols
      <4>1. MemberOf(g, row, c) = (p + 1 + c) % n
        BY <1>5, <2>3 DEF MemberOf, Member5, p, n
      <4>2. PICK s \in 0 .. 2 * n - 1 : s = p + 1 + c
        BY <1>1, <1>2, <2>1
      <4>3. s % n = (IF s < n THEN s ELSE s - n)
        BY <1>3
      <4> QED BY <4>1, <4>2, <4>3, <1>1, <1>2, <2>1
    <3> QED BY <3>1, <2>1, <2>2, <1>1, <1>2 DEF n
  <2>4. CASE ~ Symmetric(g)
    <3>1. \A c \in Cols : MemberOf(g, row, c) = (IF c < p THEN c ELSE c + 1)
      BY <1>5, <2>4 DEF MemberOf, Member5, p
    <3> QED BY <3>1, <2>1, <2>2, <1>1, <1>2 DEF n
  <2> QED BY <2>3, <2>4
<1>6. CASE g.level = "Raid6"
  <2>1. n >= 4 /\ DataDisks(g) = n - 2
    BY <1>1, <1>6, AcceptedIsSound DEF ParityDisks, n
  <2>2. ParityOf(g, row) = {p, q}
    BY <1>6 DEF ParityOf, p, q
  <2>3. CASE Symmetric(g)
    <3>1. \A c \in Cols : MemberOf(g, row, c) = (IF q + 1 + c < n THEN q + 1 + c ELSE q + 1 + c - n)
      <4> TAKE c \in Cols
      <4>1. MemberOf(g, row, c) = (q + 1 + c) % n
        BY <1>6, <2>3 DEF MemberOf, Member6, q, n
      <4>2. PICK s \in 0 .. 2 * n - 1 : s = q + 1 + c
        BY <1>1, <1>2, <2>1
      <4>3. s % n = (IF s < n THEN s ELSE s - n)
        BY <1>3
      <4> QED BY <4>1, <4>2, <4>3, <1>1, <1>2, <2>1
    <3> QED BY <3>1, <2>1, <2>2, <1>1, <1>2 DEF n
  <2>4. CASE ~ Symmetric(g)
    <3> DEFINE low == Lower(p, q)
               high == Upper(p, q)
    <3>1. /\ low \in 0 .. n - 1 /\ high \in 0 .. n - 1 /\ low < high
          /\ {p, q} = {low, high}
      BY <1>1, <1>2, <2>1 DEF Lower, Upper
    <3> HIDE DEF low, high
    <3>2. \A c \in Cols : /\ SteppedOver(c, low, high) \in 0 .. n - 1
                          /\ SteppedOver(c, low, high) \notin {low, high}
                          /\ \A d \in Cols : d < c =>
                               SteppedOver(d, low, high) < SteppedOver(c, low, high)
      BY <3>1, <1>1, <2>1 DEF SteppedOver
    <3>3. \A c \in Cols : MemberOf(g, row, c) = SteppedOver(c, low, high)
      <4>1. \A c \in Cols : MemberOf(g, row, c) = SteppedOver(c, low, high) % n
        BY <1>6, <2>4 DEF MemberOf, Member6, p, q, n, low, high
      <4>2. \A c \in Cols : SteppedOver(c, low, high) % n = SteppedOver(c, low, high)
        <5> TAKE c \in Cols
        <5> DEFINE s == SteppedOver(c, low, high)
        <5>1. s \in 0 .. n - 1
          BY <3>2
        <5> HIDE DEF s
        <5>2. s % n = s
          BY <5>1, <1>1, <1>3
        <5> QED BY <5>2 DEF s
      <4> QED BY <4>1, <4>2
    <3>4. \A other \in Cols : SteppedOver(other, low, high) = SteppedOver(col, low, high) => other = col
      <4> TAKE other \in Cols
      <4>1. other \in Int /\ col \in Int
        BY <2>1, <1>1
      <4>2. SteppedOver(other, low, high) \in Int /\ SteppedOver(col, low, high) \in Int
        BY <3>2, <1>1
      <4> QED BY <4>1, <4>2, <3>2
    <3> QED BY <3>1, <3>2, <3>3, <3>4, <2>2 DEF n
  <2> QED BY <2>3, <2>4
<1> QED BY <1>1, <1>4, <1>5, <1>6 DEF Level

-----------------------------------------------------------------------------
(* Where sectors lie.                                                      *)

(* A sector of the array is one column of one row of its members, inside   *)
(* of them.                                                                *)
LEMMA SectorInRow ==
  ASSUME NEW g \in Geometry, Accepted(g), NEW a \in 0 .. Total(g) - 1
  PROVE  LET loc == Location(g, a)
         IN  /\ loc.row \in Nat /\ loc.row < Rows(g)
             /\ loc.col \in 0 .. DataDisks(g) - 1
             /\ loc.within \in 0 .. g.chunk - 1
             /\ loc.member = MemberOf(g, loc.row, loc.col)
             /\ loc.lba = g.offset + (g.chunk * loc.row + loc.within)
             /\ a = g.chunk * (DataDisks(g) * loc.row + loc.col) + loc.within
             /\ loc.lba < g.capacity
<1> DEFINE c == g.chunk
           d == DataDisks(g)
           usable == IF g.offset < g.capacity THEN g.capacity - g.offset ELSE 0
           rows == Rows(g)
           index == a \div c
           within == a % c
           row == index \div d
           col == index % d
<1>1. c \in Nat /\ c > 0 /\ d \in Nat /\ d > 0 /\ usable \in Nat
      /\ g.offset \in Nat /\ g.capacity \in Nat
  BY AcceptedIsSound
<1>2. rows \in Nat /\ c * rows <= usable
  <2>1. rows = usable \div c
    BY DEF Rows
  <2> HIDE DEF usable, c, rows
  <2>2. usable \div c \in Nat /\ usable % c \in Nat /\ usable = c * (usable \div c) + (usable % c)
    BY <1>1, Division
  <2>3. c * rows \in Nat
    BY <2>1, <2>2, <1>1
  <2> QED BY <2>1, <2>2, <2>3, <1>1
<1>3. a \in Nat /\ a < rows * c * d
  <2>1. Total(g) = rows * c * d
    BY DEF Total
  <2>2. rows * c * d \in Nat
    BY <1>1, <1>2
  <2> QED BY <2>1, <2>2
<1>4. Location(g, a) =
        [row |-> row, col |-> col, member |-> MemberOf(g, row, col),
         lba |-> g.offset + row * c + within, within |-> within]
  BY DEF Location
<1> HIDE DEF c, d, usable, rows
<1>5. index \in Nat /\ within \in 0 .. c - 1 /\ a = c * index + within
  BY <1>1, <1>3, Division
<1> HIDE DEF index, within
<1>6. row \in Nat /\ col \in 0 .. d - 1 /\ index = d * row + col
  BY <1>1, <1>5, Division
<1> HIDE DEF row, col
<1>7. row < rows
  <2> SUFFICES ASSUME rows <= row PROVE FALSE
    BY <1>2, <1>6
  <2>1. d * rows <= d * row
    <3>1. CASE rows < row
      BY <3>1, ProductGrows, <1>1, <1>2, <1>6
    <3>2. CASE rows = row
      BY <3>2, <1>1, <1>2
    <3> QED BY <3>1, <3>2, <1>2, <1>6
  <2>2. d * rows \in Nat /\ d * row \in Nat
    BY <1>1, <1>2, <1>6
  <2> DEFINE x == d * rows
             y == index
  <2>3. x \in Nat /\ x <= y
    BY <2>1, <2>2, <1>6
  <2>4. rows * c * d = c * x
    BY <1>1, <1>2
  <2> HIDE DEF x, y
  <2>5. c * x <= c * y
    <3>1. CASE x < y
      BY <3>1, <2>3, ProductGrows, <1>1, <1>5 DEF y
    <3>2. CASE x = y
      BY <3>2, <1>1, <2>3
    <3> QED BY <3>1, <3>2, <2>3, <1>5 DEF y
  <2>6. c * x \in Nat /\ c * y \in Nat
    BY <1>1, <2>3, <1>5 DEF y
  <2>7. a = c * y + within /\ a < c * x
    BY <1>3, <1>5, <2>4 DEF y
  <2> QED BY <2>5, <2>6, <2>7, <1>3, <1>5
<1>8. row * c = c * row /\ c * row \in Nat /\ c * row + c <= c * rows /\ c * rows \in Nat
  BY <1>1, <1>2, <1>6, <1>7, ProductGrows
<1>9. g.offset + row * c + within < g.capacity
  BY <1>1, <1>2, <1>5, <1>8 DEF usable
<1>10. g.offset + row * c + within = g.offset + (c * row + within)
  BY <1>1, <1>5, <1>8
<1> QED BY <1>4, <1>5, <1>6, <1>7, <1>9, <1>10, <1>2 DEF c, d, rows

(* Sectors with one place are one sector.                                  *)
LEMMA PlacesDiffer ==
  ASSUME NEW g \in Geometry, Accepted(g),
         NEW a \in 0 .. Total(g) - 1, NEW b \in 0 .. Total(g) - 1,
         Location(g, a).member = Location(g, b).member,
         Location(g, a).lba = Location(g, b).lba
  PROVE  a = b
<1> DEFINE x == Location(g, a)
           y == Location(g, b)
           c == g.chunk
           d == DataDisks(g)
<1>1. c \in Nat /\ c > 0 /\ d \in Nat /\ g.offset \in Nat
  BY AcceptedIsSound
<1>2. /\ x.row \in Nat /\ x.col \in 0 .. d - 1 /\ x.within \in 0 .. c - 1
      /\ x.member = MemberOf(g, x.row, x.col)
      /\ x.lba = g.offset + (c * x.row + x.within)
      /\ a = c * (d * x.row + x.col) + x.within
  BY SectorInRow
<1>3. /\ y.row \in Nat /\ y.col \in 0 .. d - 1 /\ y.within \in 0 .. c - 1
      /\ y.member = MemberOf(g, y.row, y.col)
      /\ y.lba = g.offset + (c * y.row + y.within)
      /\ b = c * (d * y.row + y.col) + y.within
  BY SectorInRow
<1>4. x.member = y.member /\ x.lba = y.lba
  OBVIOUS
<1> HIDE DEF x, y, c, d
<1>6. c * x.row + x.within = c * y.row + y.within
  <2>1. c * x.row \in Nat /\ c * y.row \in Nat
    BY <1>1, <1>2, <1>3
  <2> QED BY <1>1, <1>2, <1>3, <1>4, <2>1
<1>7. x.row = y.row /\ x.within = y.within
  <2> DEFINE r == x.row
             s == y.row
             v == x.within
             w == y.within
  <2>1. r \in Nat /\ s \in Nat /\ v \in 0 .. c - 1 /\ w \in 0 .. c - 1 /\ c * r + v = c * s + w
    BY <1>2, <1>3, <1>6
  <2> HIDE DEF r, s, v, w
  <2>2. r = s /\ v = w
    BY <2>1, <1>1, DivisionIsUnique
  <2> QED BY <2>2 DEF r, s, v, w
<1>8. x.col = y.col
  BY <1>2, <1>3, <1>4, <1>7, ColumnHasAMember DEF d
<1> QED BY <1>2, <1>3, <1>7, <1>8

-----------------------------------------------------------------------------
(* Assembly.                                                               *)

(* A set of positions that is not empty has a last one.                    *)
LEMMA GreatestIsIn ==
  ASSUME NEW k \in Nat, NEW s \in SUBSET (1 .. k), s # {}
  PROVE  Greatest(s) \in s
<1> DEFINE fromEnd == { d \in Nat : \E i \in s : d = k - i }
<1>1. fromEnd \subseteq Nat /\ fromEnd # {}
  <2>1. PICK i \in s : TRUE
    OBVIOUS
  <2>2. i \in 1 .. k
    OBVIOUS
  <2>3. k - i \in Nat
    BY <2>2
  <2>4. k - i \in fromEnd
    BY <2>3
  <2> QED BY <2>4
<1>2. PICK least \in fromEnd : \A m \in fromEnd : least <= m
  <2> DEFINE less == OpToRel(<, Nat)
  <2>1. \A x, y \in Nat : x < y => <<x, y>> \in less
    BY DEF OpToRel
  <2>2. IsWellFoundedOn(less, Nat)
    BY NatLessThanWellFounded
  <2> HIDE DEF fromEnd, less
  <2>3. PICK x \in fromEnd : \A y \in fromEnd : ~ (<<y, x>> \in less)
    BY <1>1, <2>2, WFMin
  <2>4. ASSUME NEW y \in fromEnd PROVE x <= y
    <3>1. x \in Nat /\ y \in Nat
      BY <1>1
    <3>2. ~ (y < x)
      BY <2>1, <2>3, <3>1
    <3> QED BY <3>1, <3>2
  <2> QED BY <2>4
<1>3. PICK i \in s : least = k - i
  BY <1>2
<1>4. ASSUME NEW j \in s PROVE j <= i
  <2>1. i \in 1 .. k /\ j \in 1 .. k
    OBVIOUS
  <2>2. k - j \in fromEnd
    BY <2>1
  <2>3. least <= k - j
    BY <1>2, <2>2
  <2> QED BY <1>3, <2>1, <2>3
<1> QED BY <1>4 DEF Greatest

(* Once assembled, the geometry is one that was accepted, and the members  *)
(* are those the superblocks place and enough of them; before, nothing has *)
(* been read.                                                              *)
AssemblyInv ==
  /\ pc \in {"detect", "ready", "reading", "ok", "failed", "refused"}
  /\ geom \in Geometry
  /\ disks \in Seq(Disk)
  /\ Assembled => Accepted(geom) /\ members = Placed /\ Tolerated(Placed)
  /\ pc \in {"detect", "ready"} => out = <<>>

LEMMA InitAssembly == Init => AssemblyInv
BY GeometryAssumption, FoundAssumption DEF Init, AssemblyInv, Assembled

LEMMA NextAssembly == AssemblyInv /\ [Next]_vars => AssemblyInv'
<1> SUFFICES ASSUME AssemblyInv, [Next]_vars PROVE AssemblyInv'
  OBVIOUS
<1>1. CASE AutoDetect /\ pc' = "ready"
  <2> DEFINE sized == IF disks = <<>> THEN geom ELSE [geom EXCEPT !.capacity = disks[1].capacity]
  <2>1. /\ Accepted(sized) /\ Tolerated(Placed)
        /\ members' = Placed /\ geom' = sized /\ disks' = disks /\ out' = out
    BY <1>1 DEF AutoDetect
  <2>2. sized \in Geometry /\ sized.n = geom.n /\ sized.level = geom.level
    <3>1. disks # <<>> => disks[1].capacity \in Nat
      <4>1. disks # <<>> => disks[1] \in Disk
        BY DEF AssemblyInv
      <4> QED BY <4>1 DEF Disk
    <3>2. geom \in Geometry
      BY DEF AssemblyInv
    <3> QED BY <3>1, <3>2 DEF Geometry
  <2> HIDE DEF sized
  <2>3. Placed' = Placed
    BY <2>1, <2>2 DEF Placed, Detected, Fitting
  <2>4. Tolerated(Placed)'
    BY <2>1, <2>2, <2>3 DEF Tolerated, Missing
  <2>5. out' = <<>>
    BY <1>1, <2>1 DEF AutoDetect, AssemblyInv
  <2> QED BY <1>1, <2>1, <2>2, <2>3, <2>4, <2>5 DEF AssemblyInv
<1>2. CASE AutoDetect /\ pc' # "ready"
  BY <1>2 DEF AutoDetect, AssemblyInv, Assembled
<1>3. ASSUME UNCHANGED <<disks, geom, members>>, pc' = pc \/ Assembled,
             pc' \in {"detect", "ready", "reading", "ok", "failed", "refused"},
             Assembled' => Assembled,
             pc' \in {"detect", "ready"} => UNCHANGED out /\ pc = pc'
      PROVE  AssemblyInv'
  <2>1. Placed' = Placed /\ Tolerated(Placed)' = Tolerated(Placed)
    BY <1>3 DEF Placed, Detected, Fitting, Tolerated, Missing
  <2> QED BY <1>3, <2>1 DEF AssemblyInv
<1>4. CASE Request
  BY <1>3, <1>4 DEF Request, Assembled
<1>5. CASE ReadExtent
  BY <1>3, <1>5 DEF ReadExtent, Assembled
<1>6. CASE EndRead
  BY <1>3, <1>6 DEF EndRead, Assembled
<1>7. CASE UNCHANGED vars
  BY <1>3, <1>7 DEF vars, Assembled, AssemblyInv
<1> QED BY <1>1, <1>2, <1>4, <1>5, <1>6, <1>7 DEF Next

(* The disk that is in a slot.                                             *)
LEMMA MemberIsPlaced ==
  ASSUME AssemblyInv, Assembled, NEW i \in Present
  PROVE  /\ i \in 0 .. geom.n - 1 /\ members[i] \in 1 .. Len(disks)
         /\ disks[members[i]] \in Disk /\ disks[members[i]].slot = i
         /\ disks[members[i]].set = disks[Least(Detected)].set
<1> DEFINE these == { j \in Detected : Fitting(j) /\ disks[j].slot = i }
<1>1. i \in 0 .. geom.n - 1 /\ members[i] # 0 /\ members = Placed
  BY DEF AssemblyInv, Present, Lost, Missing, Placed
<1>2. members[i] = (IF these = {} THEN 0 ELSE Greatest(these))
  BY <1>1 DEF Placed
<1>3. these # {} /\ members[i] = Greatest(these)
  BY <1>1, <1>2
<1>4. Len(disks) \in Nat /\ these \in SUBSET (1 .. Len(disks))
  BY DEF AssemblyInv, Detected
<1> HIDE DEF these
<1>5. members[i] \in these
  BY <1>3, <1>4, GreatestIsIn
<1> QED BY <1>1, <1>5 DEF these, Fitting, AssemblyInv, Detected

(* However the disks are mixed up, the array has members of one set, each  *)
(* in its slot, and no more are missing than parity makes up for.          *)
THEOREM AssembledFromOneSet == Spec => []AssemblyIsOneSet
<1>1. AssemblyInv => AssemblyIsOneSet
  <2> SUFFICES ASSUME AssemblyInv, Assembled
               PROVE  /\ \A i \in Present : /\ disks[members[i]].slot = i
                                           /\ disks[members[i]].set = disks[Least(Detected)].set
                      /\ Cardinality(Lost) <= ParityDisks(geom.level)
    BY DEF AssemblyIsOneSet
  <2>1. members = Placed /\ Cardinality(Lost) <= ParityDisks(geom.level)
    BY DEF AssemblyInv, Tolerated, Lost
  <2>2. \A i \in Present : /\ disks[members[i]].slot = i
                          /\ disks[members[i]].set = disks[Least(Detected)].set
    BY MemberIsPlaced
  <2> QED BY <2>1, <2>2
<1> QED BY <1>1, InitAssembly, NextAssembly, PTL DEF Spec

(* In an array of any level, layout, number of members and chunk, distinct *)
(* sectors have places of their own, inside of the members and off parity. *)
THEOREM PlacesNeverCollide == Spec => []PlacesAreDistinct
<1>1. AssemblyInv => PlacesAreDistinct
  <2> SUFFICES ASSUME AssemblyInv, pc = "ready", NEW a \in 0 .. Total(geom) - 1
               PROVE  LET loc == Location(geom, a)
                      IN  /\ loc.member \in 0 .. geom.n - 1 /\ loc.lba < geom.capacity
                          /\ loc.member \notin ParityOf(geom, loc.row)
                          /\ \A b \in 0 .. Total(geom) - 1 :
                               /\ Location(geom, b).member = loc.member
                               /\ Location(geom, b).lba = loc.lba
                               => a = b
    BY DEF PlacesAreDistinct
  <2>1. geom \in Geometry /\ Accepted(geom)
    BY DEF AssemblyInv, Assembled
  <2>2. LET loc == Location(geom, a)
        IN  /\ loc.row \in Nat /\ loc.col \in 0 .. DataDisks(geom) - 1
            /\ loc.member = MemberOf(geom, loc.row, loc.col) /\ loc.lba < geom.capacity
    BY <2>1, SectorInRow
  <2>3. LET loc == Location(geom, a)
        IN  loc.member \in 0 .. geom.n - 1 /\ loc.member \notin ParityOf(geom, loc.row)
    BY <2>1, <2>2, ColumnHasAMember
  <2> QED BY <2>1, <2>2, <2>3, PlacesDiffer
<1> QED BY <1>1, InitAssembly, NextAssembly, PTL DEF Spec

-----------------------------------------------------------------------------
(* Reading.                                                                *)

(* What follows a sequence whose elements are of any kind.                 *)
LEMMA Appended ==
  ASSUME NEW S, NEW s \in Seq(S), NEW n \in Nat, NEW T, NEW t \in [1 .. n -> T]
  PROVE  /\ s \o t \in Seq(S \cup T)
         /\ Len(s \o t) = Len(s) + n
         /\ \A i \in 1 .. Len(s) : (s \o t)[i] = s[i]
         /\ \A i \in 1 .. Len(s) + n : i > Len(s) => (s \o t)[i] = t[i - Len(s)]
<1>1. s \in Seq(S \cup T) /\ t \in Seq(S \cup T) /\ Len(t) = n
  <2>1. s \in Seq(S \cup T)
    BY Z3
  <2>2. t \in [1 .. n -> S \cup T]
    OBVIOUS
  <2> QED BY <2>1, <2>2
<1> QED BY <1>1

(* The sectors up to the end of a chunk follow each other on one member.   *)
LEMMA ChunkIsContiguous ==
  ASSUME NEW g \in Geometry, Accepted(g), NEW a \in Nat, NEW j \in Nat,
         Location(g, a).within + j < g.chunk
  PROVE  LET loc == Location(g, a)
         IN  Location(g, a + j) =
               [row |-> loc.row, col |-> loc.col, member |-> loc.member,
                lba |-> loc.lba + j, within |-> loc.within + j]
<1> DEFINE c == g.chunk
           d == DataDisks(g)
           x == a \div c
           r == a % c
           y == (a + j) \div c
           v == (a + j) % c
<1>1. c \in Nat /\ c > 0 /\ d \in Nat /\ d > 0 /\ g.offset \in Nat
  BY AcceptedIsSound
<1>2. r + j < c
  BY DEF Location
<1> HIDE DEF c
<1>3. x \in Nat /\ r \in 0 .. c - 1 /\ a = c * x + r
  BY <1>1, Division
<1>4. y \in Nat /\ v \in 0 .. c - 1 /\ a + j = c * y + v
  BY <1>1, Division
<1> HIDE DEF x, r, y, v
<1>5. r + j \in 0 .. c - 1 /\ c * x + (r + j) = c * y + v
  <2> DEFINE cx == c * x
             cy == c * y
  <2>1. cx \in Nat /\ cy \in Nat /\ a = cx + r /\ a + j = cy + v
    BY <1>1, <1>3, <1>4
  <2> HIDE DEF cx, cy
  <2>2. cx + (r + j) = cy + v
    BY <2>1, <1>1, <1>3, <1>4
  <2> QED BY <2>2, <1>1, <1>2, <1>3 DEF cx, cy
<1>6. x = y /\ r + j = v
  BY <1>1, <1>3, <1>4, <1>5, DivisionIsUnique
<1>7. Location(g, a) =
        [row |-> x \div d, col |-> x % d, member |-> MemberOf(g, x \div d, x % d),
         lba |-> g.offset + (x \div d) * c + r, within |-> r]
  BY DEF Location, x, r, c
<1>8. Location(g, a + j) =
        [row |-> y \div d, col |-> y % d, member |-> MemberOf(g, y \div d, y % d),
         lba |-> g.offset + (y \div d) * c + v, within |-> v]
  BY DEF Location, y, v, c
<1>9. (g.offset + (x \div d) * c + r) + j = g.offset + (x \div d) * c + (r + j)
  <2>1. x \div d \in Nat
    BY <1>1, <1>3, Division
  <2>2. (x \div d) * c \in Nat
    BY <1>1, <2>1
  <2> QED BY <2>2, <1>1, <1>3
<1> QED BY <1>6, <1>7, <1>8, <1>9

LEMMA TotalIsNat == ASSUME NEW g \in Geometry, Accepted(g) PROVE Total(g) \in Nat
<1> DEFINE usable == IF g.offset < g.capacity THEN g.capacity - g.offset ELSE 0
<1>1. usable \in Nat /\ g.chunk \in Nat /\ g.chunk > 0 /\ DataDisks(g) \in Nat
  BY AcceptedIsSound
<1> HIDE DEF usable
<1>2. usable \div g.chunk \in Nat
  BY <1>1, Division
<1> QED BY <1>1, <1>2 DEF Total, Rows, usable

(* What is read is inside of the array, and what was read of members that  *)
(* are there is what the array held.                                       *)
ReadSoFar ==
  Assembled /\ (\A i \in Present : Sound(disks[members[i]])) =>
    \A k \in 1 .. Len(out) :
      Location(geom, req.start + k - 1).member \in Present =>
        out[k] = Content(disks[Least(Detected)].set, req.start + k - 1)

ReadInv ==
  /\ req \in [start : Nat, count : Nat]
  /\ \E S : out \in Seq(S)
  /\ pc = "reading" \/ Len(out) > 0 =>
       Len(out) <= req.count /\ req.start + req.count <= Total(geom)
  /\ FailuresAreForced
  /\ ReadSoFar

(* What a member that is there holds of a column of its own.               *)
LEMMA StoredIsContent ==
  ASSUME AssemblyInv, Assembled, NEW row \in Nat, NEW col \in 0 .. DataDisks(geom) - 1,
         NEW i \in Present, i = MemberOf(geom, row, col),
         disks[members[i]].current, NEW within
  PROVE  Stored(members[i], row, within) =
           Content(disks[Least(Detected)].set, (row * DataDisks(geom) + col) * geom.chunk + within)
<1>1. geom \in Geometry /\ Accepted(geom)
  BY DEF AssemblyInv
<1>2. /\ MemberOf(geom, row, col) \notin ParityOf(geom, row)
      /\ \A other \in 0 .. DataDisks(geom) - 1 :
           MemberOf(geom, row, other) = MemberOf(geom, row, col) => other = col
  BY <1>1, ColumnHasAMember
<1>3. disks[members[i]].slot = i /\ disks[members[i]].set = disks[Least(Detected)].set
  BY MemberIsPlaced
<1>4. (CHOOSE c \in 0 .. DataDisks(geom) - 1 : MemberOf(geom, row, c) = i) = col
  BY <1>2
<1> QED BY <1>2, <1>3, <1>4 DEF Stored, Truth

LEMMA InitRead == Init => ReadInv
BY DEF Init, ReadInv, FailuresAreForced, ReadSoFar, Assembled

(* The k-th sector of an extent that fits into its chunk.                  *)
LEMMA WithinChunk ==
  ASSUME NEW chunk \in Nat, NEW within \in Nat, NEW taken \in Nat, within + taken <= chunk,
         NEW k \in 1 .. taken
  PROVE  /\ k - 1 \in Nat /\ within + (k - 1) < chunk
         /\ within + k - 1 \in 0 .. chunk - 1
OBVIOUS

(* How many sectors a turn of the loop takes.                              *)
LEMMA TakenIsInChunk ==
  ASSUME AssemblyInv, ReadInv, pc = "reading", Len(out) < req.count
  PROVE  LET a == req.start + Len(out)
             loc == Location(geom, a)
         IN  /\ Len(out) \in Nat /\ a \in 0 .. Total(geom) - 1
             /\ Taken(loc) \in Nat /\ Taken(loc) > 0
             /\ Len(out) + Taken(loc) <= req.count
             /\ loc.within \in Nat /\ loc.within + Taken(loc) <= geom.chunk
<1> DEFINE a == req.start + Len(out)
           loc == Location(geom, a)
<1>1. geom \in Geometry /\ Accepted(geom) /\ geom.chunk \in Nat /\ geom.chunk > 0
  <2>1. geom \in Geometry /\ Accepted(geom)
    BY DEF AssemblyInv, Assembled
  <2> QED BY <2>1, AcceptedIsSound
<1>2. Total(geom) \in Nat
  BY <1>1, TotalIsNat
<1>3. Len(out) \in Nat
  BY DEF ReadInv
<1>4. req.start \in Nat /\ req.count \in Nat /\ req.start + req.count <= Total(geom)
  BY DEF ReadInv
<1>5. a \in 0 .. Total(geom) - 1
  BY <1>2, <1>3, <1>4
<1>6. loc.within \in 0 .. geom.chunk - 1
  BY <1>1, <1>5, SectorInRow
<1> HIDE DEF loc
<1>7. Taken(loc) = (IF req.count - Len(out) < geom.chunk - loc.within
                    THEN req.count - Len(out) ELSE geom.chunk - loc.within)
  BY DEF Taken
<1>8. /\ Taken(loc) \in Nat /\ Taken(loc) > 0
      /\ Len(out) + Taken(loc) <= req.count /\ loc.within + Taken(loc) <= geom.chunk
  <2> DEFINE rest == req.count - Len(out)
             room == geom.chunk - loc.within
  <2>1. rest \in Nat /\ rest > 0 /\ Len(out) + rest = req.count
    BY <1>1, <1>3, <1>4
  <2>2. room \in Nat /\ room > 0 /\ loc.within + room = geom.chunk
    BY <1>1, <1>6
  <2>3. Taken(loc) = IF rest < room THEN rest ELSE room
    BY <1>7
  <2> HIDE DEF rest, room
  <2>4. CASE rest < room
    BY <1>3, <1>4, <1>6, <2>1, <2>2, <2>3, <2>4
  <2>5. CASE ~ (rest < room)
    BY <1>3, <1>4, <1>6, <2>1, <2>2, <2>3, <2>5
  <2> QED BY <2>4, <2>5
<1> QED BY <1>3, <1>5, <1>6, <1>8 DEF loc

(* A turn of the loop that fails met a sector that cannot be read.         *)
LEMMA ExtentFailure ==
  ASSUME AssemblyInv, ReadInv, ReadExtent, pc' = "failed"
  PROVE  FailuresAreForced'
<1> DEFINE a == req.start + Len(out)
           loc == Location(geom, a)
           take == Taken(loc)
           from == IF loc.member \in Present THEN {loc.member} ELSE Consulted(loc)
<1>1. pc = "reading" /\ Len(out) < req.count /\ UNCHANGED <<disks, geom, bad, members, req>>
  BY DEF ReadExtent
<1>2. /\ Len(out) \in Nat /\ a \in 0 .. Total(geom) - 1
      /\ take \in Nat /\ take > 0 /\ Len(out) + take <= req.count
      /\ loc.within \in Nat /\ loc.within + take <= geom.chunk
  BY <1>1, TakenIsInChunk
<1>3. PICK slot \in from : ~ Readable(slot, loc.lba, take)
  BY <1>1 DEF ReadExtent
<1>4. slot \in Present /\ (loc.member \in Present => slot = loc.member)
  BY <1>3 DEF Consulted
<1>5. geom \in Geometry /\ Accepted(geom) /\ geom.chunk \in Nat
  BY <1>1, AcceptedIsSound DEF AssemblyInv, Assembled
<1>6. loc.lba \in Nat
  <2>1. geom.offset \in Nat /\ loc.row \in Nat /\ loc.lba = geom.offset + (geom.chunk * loc.row + loc.within)
    BY <1>2, <1>5, SectorInRow, AcceptedIsSound
  <2>2. geom.chunk * loc.row \in Nat
    BY <1>5, <2>1
  <2> QED BY <1>2, <2>1, <2>2
<1>7. disks[members[slot]].capacity \in Nat
  BY <1>1, <1>4, MemberIsPlaced DEF Disk, Assembled
<1> HIDE DEF take
<1>8. PICK j \in 0 .. take - 1 : \/ <<members[slot], loc.lba + j>> \in bad
                               \/ loc.lba + j >= disks[members[slot]].capacity
  <2>0. CASE ~ (loc.lba < disks[members[slot]].capacity)
    <3>1. 0 \in 0 .. take - 1 /\ loc.lba + 0 >= disks[members[slot]].capacity
      BY <1>2, <1>6, <1>7, <2>0
    <3> QED BY <3>1
  <2>1. CASE ~ (loc.lba + take <= disks[members[slot]].capacity)
    <3>1. take - 1 \in 0 .. take - 1 /\ loc.lba + (take - 1) >= disks[members[slot]].capacity
      BY <1>2, <1>6, <1>7, <2>1
    <3> QED BY <3>1
  <2>2. CASE \E t \in loc.lba .. loc.lba + take - 1 : <<members[slot], t>> \in bad
    <3>1. PICK t \in loc.lba .. loc.lba + take - 1 : <<members[slot], t>> \in bad
      BY <2>2
    <3>2. t - loc.lba \in 0 .. take - 1 /\ loc.lba + (t - loc.lba) = t
      BY <1>2, <1>6, <3>1
    <3> QED BY <3>1, <3>2
  <2> QED BY <1>3, <2>0, <2>1, <2>2 DEF Readable
<1>9. Location(geom, a + j).member = loc.member /\ Location(geom, a + j).lba = loc.lba + j
  <2>1. a \in Nat /\ j \in Nat /\ loc.within + j < geom.chunk
    <3>1. a \in Nat
      BY <1>1, <1>2 DEF ReadInv
    <3> QED BY <3>1, <1>2, <1>5, <1>8
  <2> HIDE DEF a
  <2>2. Location(geom, a + j) =
          [row |-> loc.row, col |-> loc.col, member |-> loc.member,
           lba |-> loc.lba + j, within |-> loc.within + j]
    BY <1>5, <2>1, ChunkIsContiguous
  <2> QED BY <2>2
<1>10. a + j \in req.start .. req.start + req.count - 1
  <2>1. req.start \in Nat /\ req.count \in Nat
    BY DEF ReadInv
  <2>2. Len(out) \in Nat /\ Len(out) + take <= req.count /\ take \in Nat
    BY <1>2
  <2> HIDE DEF loc
  <2> QED BY <1>8, <2>1, <2>2
<1>11. slot \in (IF Location(geom, a + j).member \in Present
                THEN {Location(geom, a + j).member} ELSE Present)
  BY <1>4, <1>9
<1>12. /\ Present' = Present /\ req' = req /\ geom' = geom /\ bad' = bad
       /\ disks' = disks /\ members' = members
  BY <1>1 DEF Present, Lost, Missing
<1> QED BY <1>8, <1>9, <1>10, <1>11, <1>12 DEF FailuresAreForced

(* A turn that succeeds appends sectors of one chunk, which are what the   *)
(* array held if their member is there.                                    *)
LEMMA ExtentSuccess ==
  ASSUME AssemblyInv, ReadInv, ReadExtent, pc' = pc
  PROVE  ReadInv'
<1> DEFINE a == req.start + Len(out)
           loc == Location(geom, a)
           take == Taken(loc)
           Got(k) ==
             IF loc.member \in Present
             THEN Sector(members[loc.member],
                         loc.row + (loc.within + k - 1) \div geom.chunk,
                         (loc.within + k - 1) % geom.chunk)
             ELSE Reconstructed(loc, loc.within + k - 1)
           more == [k \in 1 .. take |-> Got(k)]
<1>1. /\ pc = "reading" /\ Len(out) < req.count
      /\ UNCHANGED <<disks, geom, bad, members, req>> /\ out' = out \o more
  BY DEF ReadExtent
<1>2. /\ Len(out) \in Nat /\ a \in 0 .. Total(geom) - 1
      /\ take \in Nat /\ take > 0 /\ Len(out) + take <= req.count
      /\ loc.within \in Nat /\ loc.within + take <= geom.chunk
  BY <1>1, TakenIsInChunk
<1>3. geom \in Geometry /\ Accepted(geom) /\ geom.chunk \in Nat /\ Assembled
  BY <1>1, AcceptedIsSound DEF AssemblyInv, Assembled
<1>4. /\ a \in Nat /\ loc.row \in Nat /\ loc.col \in 0 .. DataDisks(geom) - 1
      /\ loc.member = MemberOf(geom, loc.row, loc.col)
      /\ a = geom.chunk * (DataDisks(geom) * loc.row + loc.col) + loc.within
  BY <1>2, <1>3, SectorInRow
<1>5. PICK S : out \in Seq(S)
  BY DEF ReadInv
<1>6. /\ Present' = Present /\ Detected' = Detected /\ (Assembled)' = Assembled
  BY <1>1 DEF Present, Lost, Missing, Detected, Assembled
<1>7. /\ \E T : out' \in Seq(T)
      /\ Len(out') = Len(out) + take
      /\ \A i \in 1 .. Len(out) : out'[i] = out[i]
      /\ \A i \in 1 .. Len(out) + take : i > Len(out) => out'[i] = more[i - Len(out)]
  <2> DEFINE T == { Got(k) : k \in 1 .. take }
  <2>1. more \in [1 .. take -> T]
    OBVIOUS
  <2> HIDE DEF more, take, T
  <2>2. /\ out \o more \in Seq(S \cup T)
        /\ Len(out \o more) = Len(out) + take
        /\ \A i \in 1 .. Len(out) : (out \o more)[i] = out[i]
        /\ \A i \in 1 .. Len(out) + take : i > Len(out) => (out \o more)[i] = more[i - Len(out)]
    BY <1>2, <1>5, <2>1, Appended
  <2> QED BY <1>1, <2>2
<1>8. ASSUME \A i \in Present : Sound(disks[members[i]]), loc.member \in Present,
             NEW k \in 1 .. take
      PROVE  more[k] = Content(disks[Least(Detected)].set, a + k - 1)
  <2> DEFINE w == loc.within + k - 1
  <2>1. w \in 0 .. geom.chunk - 1
    <3> HIDE DEF take, loc
    <3> QED BY <1>2, <1>3, WithinChunk
  <2>2. w \div geom.chunk = 0 /\ w % geom.chunk = w
    <3>1. geom.chunk > 0 /\ w \in Nat
      BY <1>3, <2>1
    <3> DEFINE x == w \div geom.chunk
               r == w % geom.chunk
    <3>2. x \in Nat /\ r \in 0 .. geom.chunk - 1 /\ w = geom.chunk * x + r
      BY <1>3, <3>1, Division
    <3> HIDE DEF x, r, w
    <3>3. geom.chunk * x + r = geom.chunk * 0 + w
      BY <1>3, <2>1, <3>2
    <3>4. x = 0 /\ r = w
      <4> DEFINE b == geom.chunk
      <4>1. b \in Nat /\ b > 0 /\ 0 \in Nat /\ w \in 0 .. b - 1
        BY <1>3, <2>1, <3>1
      <4>2. x \in Nat /\ r \in 0 .. b - 1 /\ b * x + r = b * 0 + w
        BY <3>2, <3>3
      <4> HIDE DEF b
      <4> QED BY <4>1, <4>2, DivisionIsUnique
    <3> QED BY <3>4, Zenon DEF x, r
  <2>3. more[k] = Stored(members[loc.member], loc.row, w)
    <3>1. more[k] = Sector(members[loc.member], loc.row + w \div geom.chunk, w % geom.chunk)
      BY <1>8
    <3>2. geom.offset + loc.row * geom.chunk + w < disks[members[loc.member]].capacity
      <4>1. geom.offset \in Nat /\ geom.capacity \in Nat /\ disks[members[loc.member]] \in Disk
        BY <1>3, <1>8, AcceptedIsSound, MemberIsPlaced
      <4> DEFINE disk == disks[members[loc.member]]
                 rc == loc.row * geom.chunk
                 end == Location(geom, a + (k - 1)).lba
      <4>2. disk.capacity \in Nat /\ disk.image \in BOOLEAN
        BY <4>1 DEF Disk
      <4>3. rc \in Nat /\ loc.lba = geom.offset + rc + loc.within
        <5>1. geom.chunk * loc.row = rc /\ rc \in Nat
          BY <1>3, <1>4
        <5>2. loc.lba = geom.offset + (geom.chunk * loc.row + loc.within)
          BY <1>2, <1>3, SectorInRow
        <5> HIDE DEF rc, loc
        <5> QED BY <4>1, <5>1, <5>2, <1>2
      <4>4. Readable(loc.member, loc.lba, take)
        BY <1>1, <1>8 DEF ReadExtent
      <4>5. end = loc.lba + (k - 1) /\ end < geom.capacity
        <5> DEFINE j == k - 1
        <5>1. j \in Nat /\ loc.within + j < geom.chunk /\ a + j \in 0 .. Total(geom) - 1
          <6>1. req.start + req.count <= Total(geom) /\ req.start \in Nat /\ req.count \in Nat
                /\ Total(geom) \in Nat
            BY <1>1, <1>3, TotalIsNat DEF ReadInv
          <6>2. /\ Len(out) \in Nat /\ take \in Nat /\ Len(out) + take <= req.count
                /\ loc.within \in Nat /\ loc.within + take <= geom.chunk
            BY <1>2
          <6> HIDE DEF take, loc
          <6>3. k \in Nat /\ k >= 1 /\ k <= take
            BY <6>2
          <6>4. j \in Nat /\ loc.within + j < geom.chunk
            <7>1. geom.chunk \in Nat
              BY <1>3
            <7> QED BY <6>2, <7>1, WithinChunk
          <6>5. a + j \in 0 .. Total(geom) - 1
            BY <6>1, <6>2, <6>3
          <6> QED BY <6>4, <6>5
        <5> HIDE DEF j, a
        <5>2. Location(geom, a + j) =
                [row |-> loc.row, col |-> loc.col, member |-> loc.member,
                 lba |-> loc.lba + j, within |-> loc.within + j]
          BY <1>3, <1>4, <5>1, ChunkIsContiguous
        <5>3. Location(geom, a + j).lba < geom.capacity
          BY <1>3, <5>1, SectorInRow
        <5> QED BY <5>2, <5>3 DEF j
      <4>6. geom.offset + rc + w < disk.capacity
        <5>1. /\ k \in Nat /\ k <= take /\ take \in Nat /\ loc.within \in Nat
              /\ loc.lba = geom.offset + rc + loc.within /\ rc \in Nat
          BY <1>2, <4>3
        <5>2. CASE disk.image
          <6>1. disk.capacity >= geom.capacity
            BY <1>8, <5>2 DEF Sound
          <6>2. loc.lba + (k - 1) < geom.capacity
            BY <4>5
          <6> HIDE DEF disk, rc, end, take, loc, a
          <6> QED BY <4>1, <4>2, <5>1, <6>1, <6>2
        <5>3. CASE ~ disk.image
          <6>1. loc.lba + take <= disk.capacity
            BY <4>4, <5>3 DEF Readable
          <6> HIDE DEF disk, rc, end, take, loc, a
          <6> QED BY <4>1, <4>2, <5>1, <6>1
        <5> QED BY <4>2, <5>2, <5>3
      <4> QED BY <4>6
    <3> HIDE DEF w, more
    <3>3. loc.row + w \div geom.chunk = loc.row
      BY <1>4, <2>2
    <3> QED BY <2>2, <3>1, <3>2, <3>3 DEF Sector
  <2>4. Stored(members[loc.member], loc.row, w) =
          Content(disks[Least(Detected)].set, (loc.row * DataDisks(geom) + loc.col) * geom.chunk + w)
    <3>1. disks[members[loc.member]].current
      BY <1>8 DEF Sound
    <3> HIDE DEF w, loc
    <3> QED BY <1>3, <1>4, <1>8, <3>1, StoredIsContent
  <2>5. (loc.row * DataDisks(geom) + loc.col) * geom.chunk + w = a + k - 1
    <3> DEFINE y == geom.chunk * (DataDisks(geom) * loc.row + loc.col)
    <3>1. y \in Nat /\ (loc.row * DataDisks(geom) + loc.col) * geom.chunk = y
      <4>1. DataDisks(geom) \in Nat
        BY <1>3, AcceptedIsSound
      <4>2. loc.col \in Nat
        BY <1>4, <4>1
      <4>3. geom.chunk \in Nat /\ loc.row \in Nat
        BY <1>3, <1>4
      <4> HIDE DEF loc
      <4>4. /\ geom.chunk * (DataDisks(geom) * loc.row + loc.col) \in Nat
            /\ (loc.row * DataDisks(geom) + loc.col) * geom.chunk
                 = geom.chunk * (DataDisks(geom) * loc.row + loc.col)
        BY <4>1, <4>2, <4>3, ColumnsOfRows
      <4> QED BY <4>4, Zenon
    <3>2. a = y + loc.within
      BY <1>4
    <3> HIDE DEF y, a, loc
    <3> QED BY <1>2, <3>1, <3>2
  <2> QED BY <2>3, <2>4, <2>5
<1>9. ReadSoFar'
  <2> SUFFICES ASSUME \A i \in Present : Sound(disks[members[i]]),
                      NEW i \in 1 .. Len(out'),
                      Location(geom, req.start + i - 1).member \in Present
               PROVE  out'[i] = Content(disks[Least(Detected)].set, req.start + i - 1)
    BY <1>1, <1>6 DEF ReadSoFar, Sound
  <2>1. CASE i <= Len(out)
    <3>1. i \in 1 .. Len(out)
      BY <1>2, <1>7, <2>1
    <3> QED BY <1>3, <1>7, <3>1 DEF ReadInv, ReadSoFar
  <2>2. CASE i > Len(out)
    <3> DEFINE k == i - Len(out)
    <3>0. req.start \in Nat
      BY DEF ReadInv
    <3> HIDE DEF more, take
    <3>1. k \in 1 .. take /\ out'[i] = more[k] /\ a + k - 1 = req.start + i - 1
          /\ k - 1 \in Nat /\ loc.within + (k - 1) < geom.chunk /\ a + (k - 1) = req.start + i - 1
      <4>1. i \in 1 .. Len(out) + take /\ k \in 1 .. take /\ k \in Nat /\ k - 1 \in Nat
        <5> HIDE DEF a, loc
        <5> QED BY <1>2, <1>7, <2>2
      <4>2. out'[i] = more[k]
        <5> HIDE DEF a, loc
        <5> QED BY <1>7, <2>2, <4>1
      <4>3. loc.within + (k - 1) < geom.chunk
        <5> HIDE DEF a, loc, k
        <5> QED BY <1>2, <1>3, <4>1
      <4>4. a + k - 1 = req.start + i - 1 /\ a + (k - 1) = req.start + i - 1
        <5> HIDE DEF loc
        <5> QED BY <1>2, <2>2, <3>0, <4>1
      <4> HIDE DEF a, loc, k
      <4> QED BY <4>1, <4>2, <4>3, <4>4
    <3>2. loc.member \in Present
      <4> DEFINE j == k - 1
      <4>1. j \in Nat /\ loc.within + j < geom.chunk /\ a + j = req.start + i - 1
        BY <3>1
      <4> HIDE DEF j, a
      <4>2. Location(geom, a + j) =
              [row |-> loc.row, col |-> loc.col, member |-> loc.member,
               lba |-> loc.lba + j, within |-> loc.within + j]
        BY <1>3, <1>4, <4>1, ChunkIsContiguous
      <4>3. Location(geom, a + j).member = loc.member
        BY <4>2
      <4> QED BY <2>2, <4>1, <4>3
    <3> QED BY <1>8, <3>1, <3>2
  <2> QED BY <1>2, <1>7, <2>1, <2>2
<1>10. FailuresAreForced'
  BY <1>1 DEF FailuresAreForced
<1>11. Len(out') <= req.count /\ req.start + req.count <= Total(geom) /\ req \in [start : Nat, count : Nat]
  <2> HIDE DEF more, take
  <2> QED BY <1>1, <1>2, <1>7 DEF ReadInv
<1> QED BY <1>1, <1>7, <1>9, <1>10, <1>11 DEF ReadInv

LEMMA NextRead == AssemblyInv /\ ReadInv /\ [Next]_vars => ReadInv'
<1> SUFFICES ASSUME AssemblyInv, ReadInv, [Next]_vars PROVE ReadInv'
  OBVIOUS
<1>1. CASE AutoDetect
  <2>1. out' = <<>> /\ req' = req /\ pc' \in {"ready", "refused"}
    BY <1>1 DEF AutoDetect, AssemblyInv
  <2>2. ReadSoFar' /\ FailuresAreForced'
    BY <2>1 DEF ReadSoFar, FailuresAreForced
  <2>3. \E S : out' \in Seq(S)
    BY <2>1
  <2> QED BY <2>1, <2>2, <2>3 DEF ReadInv
<1>2. CASE Request
  <2>1. PICK start \in 0 .. Total(geom), count \in 1 .. MaxCount :
          /\ req' = [start |-> start, count |-> count]
          /\ pc' = IF Outside(start, count) THEN "failed" ELSE "reading"
    BY <1>2 DEF Request
  <2>2. pc = "ready" /\ UNCHANGED <<disks, geom, bad, members, out>> /\ out = <<>>
    BY <1>2 DEF Request, AssemblyInv
  <2>3. Total(geom) \in Nat
    BY <2>2, TotalIsNat DEF AssemblyInv, Assembled
  <2>4. start \in Nat /\ count \in Nat /\ (Outside(start, count) <=> ~ (start + count <= Total(geom)))
    BY <2>1, <2>3, CountAssumption DEF Outside
  <2>5. ReadSoFar'
    BY <2>2 DEF ReadSoFar
  <2>6. FailuresAreForced'
    BY <2>1, <2>2, <2>4 DEF FailuresAreForced
  <2> QED BY <2>1, <2>2, <2>3, <2>4, <2>5, <2>6 DEF ReadInv
<1>3. CASE ReadExtent
  <2>1. CASE pc' = pc
    BY <1>3, <2>1, ExtentSuccess
  <2>2. CASE pc' = "failed" /\ UNCHANGED out
    <3>1. FailuresAreForced'
      BY <1>3, <2>2, ExtentFailure
    <3>2. /\ UNCHANGED <<disks, geom, bad, members, req, out>> /\ Assembled
          /\ Present' = Present /\ Detected' = Detected
      BY <1>3, <2>2 DEF ReadExtent, Assembled, Present, Lost, Missing, Detected
    <3>3. ReadSoFar'
      BY <3>2 DEF ReadInv, ReadSoFar, Sound
    <3> QED BY <2>2, <3>1, <3>2, <3>3 DEF ReadInv
  <2> QED BY <1>3, <2>1, <2>2 DEF ReadExtent
<1>4. ASSUME UNCHANGED <<disks, geom, bad, members, req, out>>, Assembled' = Assembled,
             pc' = pc \/ pc' = "ok"
      PROVE  ReadInv'
  <2>1. Present' = Present /\ Detected' = Detected
    BY <1>4 DEF Present, Lost, Missing, Detected
  <2>2. ReadSoFar'
    BY <1>4, <2>1 DEF ReadInv, ReadSoFar, Sound
  <2>3. FailuresAreForced'
    BY <1>4, <2>1 DEF ReadInv, FailuresAreForced
  <2> QED BY <1>4, <2>2, <2>3 DEF ReadInv
<1>5. CASE EndRead
  BY <1>4, <1>5 DEF EndRead, Assembled
<1>6. CASE UNCHANGED vars
  BY <1>4, <1>6 DEF vars, Assembled
<1> QED BY <1>1, <1>2, <1>3, <1>5, <1>6 DEF Next

(* A read inside of the array fails only where the member it lies on, or   *)
(* one it is reconstructed from, has no readable sector.                   *)
THEOREM FailuresHaveACause == Spec => []FailuresAreForced
<1>1. ReadInv => FailuresAreForced
  BY DEF ReadInv
<1> QED BY <1>1, InitAssembly, NextAssembly, InitRead, NextRead, PTL DEF Spec

(* With no member missing, what is read is what the array held; in an      *)
(* array that is degraded this is so of the sectors whose member is there. *)
THEOREM IntactReadsAreExact == Spec => [](ReadSoFar /\ (Lost = {} => ReadIsExact))
<1>1. AssemblyInv /\ ReadInv => ReadSoFar /\ (Lost = {} => ReadIsExact)
  <2> SUFFICES ASSUME AssemblyInv, ReadInv, Lost = {}, Assembled,
                      \A i \in Present : Sound(disks[members[i]]),
                      NEW k \in DOMAIN out
               PROVE  out[k] = Content(disks[Least(Detected)].set, req.start + k - 1)
    BY DEF ReadInv, ReadIsExact
  <2>1. k \in 1 .. Len(out)
    BY DEF ReadInv
  <2>2. Location(geom, req.start + k - 1).member \in Present
    <3> DEFINE a == req.start + k - 1
               loc == Location(geom, a)
    <3>1. geom \in Geometry /\ Accepted(geom) /\ Total(geom) \in Nat
      BY TotalIsNat DEF AssemblyInv
    <3>2. /\ req.start \in Nat /\ req.count \in Nat /\ Len(out) \in Nat
          /\ Len(out) <= req.count /\ req.start + req.count <= Total(geom)
      BY <2>1 DEF ReadInv
    <3>3. a \in 0 .. Total(geom) - 1
      BY <2>1, <3>1, <3>2
    <3>4. loc.row \in Nat /\ loc.col \in 0 .. DataDisks(geom) - 1
          /\ loc.member = MemberOf(geom, loc.row, loc.col)
      BY <3>1, <3>3, SectorInRow
    <3> HIDE DEF loc
    <3>5. loc.member \in 0 .. geom.n - 1
      BY <3>1, <3>4, ColumnHasAMember
    <3>6. Present = 0 .. geom.n - 1
      BY DEF AssemblyInv, Placed, Present
    <3> QED BY <3>5, <3>6 DEF loc
  <2> QED BY <2>1, <2>2 DEF ReadInv, ReadSoFar
<1> QED BY <1>1, InitAssembly, NextAssembly, InitRead, NextRead, PTL DEF Spec

=============================================================================
