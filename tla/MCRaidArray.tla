---------------------------- MODULE MCRaidArray ----------------------------
(* Arrays of three to five members with a full turn of their parity, of    *)
(* which up to three members are missing.                                  *)
EXTENDS RaidArray

Shape(level, layout, n) ==
  [level |-> level, layout |-> layout, n |-> n, chunk |-> 2, offset |-> 1,
   capacity |-> 1 + 2 * n]

MCGeometries ==
  {Shape("Raid0", "LeftSymmetric", 3)}
    \cup { Shape("Raid5", layout, 3) : layout \in Layout }
    \cup { Shape("Raid6", layout, n) : layout \in Layout, n \in {4, 5} }

MCDisk(g, set, slot, current) ==
  [sb |-> TRUE, set |-> set, slot |-> slot, current |-> current,
   image |-> FALSE, capacity |-> g.capacity]
Blank(g, more) ==
  [sb |-> FALSE, set |-> "other", slot |-> 0, current |-> TRUE,
   image |-> FALSE, capacity |-> g.capacity + more]

(* An image of slot 0 that lacks the last sectors.                         *)
Cut(g, less) ==
  [MCDisk(g, "array", 0, TRUE) EXCEPT !.image = TRUE, !.capacity = @ - less]

(* The members but for some, in descending order.                          *)
Rest(g, gone) ==
  LET left == (0 .. g.n - 1) \ gone
      Nth(k) == CHOOSE i \in left : Cardinality({ j \in left : j > i }) = k - 1
  IN  [k \in 1 .. Cardinality(left) |-> MCDisk(g, "array", Nth(k), TRUE)]

MCFound(g) ==
  LET losses == { gone \in SUBSET (0 .. g.n - 1) : Cardinality(gone) <= 3 }
  IN  {<<>>}
        \cup { Rest(g, gone) : gone \in losses }
        \cup { <<Blank(g, more)>> \o Rest(g, {0}) : more \in {-2, 2} }
        \cup { <<MCDisk(g, "other", 1, TRUE)>> \o Rest(g, {1}),
               Rest(g, {1}) \o <<MCDisk(g, "other", 1, TRUE)>>,
               <<MCDisk(g, "array", 1, FALSE)>> \o Rest(g, {0}),
               Rest(g, {0}) \o <<MCDisk(g, "array", 1, FALSE)>>,
               Rest(g, {0}) \o <<Cut(g, 0)>>, Rest(g, {0}) \o <<Cut(g, 1)>>,
               Rest(g, {0, 1}) \o <<Cut(g, 0)>>,
               Rest(g, {2}) \o <<MCDisk(g, "array", g.n, TRUE)>> }

MCUnreadable(found) == {{}} \cup (IF Len(found) < 2 THEN {} ELSE {{<<2, 3>>}})

MCContent(set, lba) ==
  IF set = "array" THEN (3 + 7 * lba + 5 * lba * lba) % 16 ELSE (11 + 9 * lba) % 16

(* With the polynomial of the code, too, 2 generates all that is not zero. *)
Bytes == INSTANCE GaloisField WITH Width <- 8, Poly <- 285

Doublings[p \in (0 .. 255) \X (0 .. 254)] ==
  IF p[2] < 2 THEN (IF p[2] = 0 THEN p[1] ELSE Bytes!Doubled(p[1]))
  ELSE Doublings[<<Doublings[<<p[1], p[2] \div 2>>], p[2] - p[2] \div 2>>]

ASSUME BytesAssumption == { Doublings[<<1, i>>] : i \in 0 .. 254 } = 1 .. 255

=============================================================================
