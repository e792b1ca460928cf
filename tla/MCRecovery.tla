----------------------------- MODULE MCRecovery -----------------------------
(***************************************************************************)
(* Files of three, two and one sectors on a medium of five, under several  *)
(* file systems and file types.  The limits of the code are scaled down so *)
(* that each bites.                                                        *)
(***************************************************************************)
EXTENDS Recovery

MCFiles == {"a", "b", "c"}
MCFileLen == [a |-> 3, b |-> 2, c |-> 1]
MCEmpiricalGaps == <<2>>

Scenario(kind, files, type, bad) ==
  [kind |-> kind, files |-> files, nested |-> {},
   class |-> [a |-> "chunked", b |-> type, c |-> "chunked"],
   shape |-> [f \in MCFiles |-> "dense"], cut |-> [f \in MCFiles |-> 1],
   bad |-> bad, bitmap |-> bad = {}, damage |-> FALSE, erase |-> FALSE, boot |-> TRUE,
   marks |-> {IF kind \in {"ext4", "ext2"} THEN "ext" ELSE kind}]
BootLost(s) == [s EXCEPT !.boot = FALSE]
FormerlyFat(s) == [s EXCEPT !.marks = @ \cup {"fat"}]
Nested(s) == [s EXCEPT !.nested = {"b"}]
Mapped(s) == [s EXCEPT !.class["a"] = "mapped"]
Erasing(s) == [s EXCEPT !.erase = TRUE]
Damaging(s) == [s EXCEPT !.damage = TRUE]
Shaped(s, f, shape) == [s EXCEPT !.shape[f] = shape]

MCScenarios ==
  { Scenario("fat",  {"a", "b"}, "scan", {}),  Scenario("ntfs", {"a", "b"}, "last", {}),
    Scenario("ntfs", {"a", "b"}, "text", {3}), Mapped(FormerlyFat(Scenario("ext4", {"a", "b"}, "sized", {}))),
    BootLost(Scenario("fat", {"a"}, "scan", {})),
    Nested(Scenario("fat", {"a", "b"}, "last", {})), Nested(Scenario("fat", {"b", "c"}, "scan", {})),
    Nested(Scenario("ext4", {"b"}, "text", {})),
    Nested(Scenario("fat", {"b"}, "last", {2})),     Nested(Scenario("ext2", {"b"}, "boxed", {2})),
    Nested(Mapped(Scenario("ntfs", {"a", "b"}, "scan", {}))),
    Scenario("ext2", {"a", "b"}, "boxed", {1}),
    Shaped(Shaped(Scenario("ntfs", {"a", "b"}, "sized", {}), "a", "hole"), "b", "unwritten"),
    Shaped(Shaped(Scenario("ext4", {"a", "b"}, "text", {4}), "a", "hole"), "b", "unwritten"),
    Shaped(Shaped(Scenario("ext4", {"a", "b"}, "last", {}), "a", "unwritten"), "b", "hole"),
    Shaped(Scenario("ext2", {"b", "c"}, "scan", {}), "b", "hole"),
    Damaging(Erasing(Scenario("fat", {"a"}, "scan", {}))),
    Erasing(Nested(Scenario("ext4", {"b"}, "last", {1}))), Erasing(Scenario("ntfs", {"a"}, "boxed", {})),
    Erasing(Scenario("ext2", {"a"}, "sized", {4})) }
MCOptions == {{1, 2, 3}, {2, 3}, {1}}
=============================================================================
