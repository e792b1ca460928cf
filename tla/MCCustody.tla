----------------------------- MODULE MCCustody -----------------------------
(* Instances of Custody for TLC.                                           *)
EXTENDS Custody, TLC

Symmetry == Permutations(Writers)

(* Events at every time: without parties, and with the parties given.      *)
Plain(types) ==
  [type : types, from : {NoName}, to : {NoName}, loc : {NoName}, time : Times]

Named(types, from, to) ==
  [type : types, from : from, to : to, loc : {NoName}, time : Times]

MCEvents ==
  Plain({"Seized", "StorageChange", "Disposed"})
    \cup Named({"Transferred"}, Names, Names \cup {NoName})
    \cup Named({"Returned"}, {Operator}, {NoName})
=============================================================================
