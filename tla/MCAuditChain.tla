---------------------------- MODULE MCAuditChain ----------------------------
(* Instances of AuditChain for TLC.                                        *)
EXTENDS AuditChain, TLC

(* Writers and events are interchangeable.                                 *)
Symmetry == Permutations(Writers) \cup Permutations(Events)
=============================================================================
