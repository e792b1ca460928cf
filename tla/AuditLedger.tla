---------------------------- MODULE AuditLedger ----------------------------
(* What the audit log promises a reader: a sequence of events to which     *)
(* events are added, one at a time and each at most once, and from which   *)
(* nothing is ever taken.                                                  *)
EXTENDS Naturals, Sequences

CONSTANT Events

VARIABLE ledger

Init == ledger = <<>>

Record(event) ==
  /\ \A i \in 1 .. Len(ledger) : ledger[i] # event
  /\ ledger' = Append(ledger, event)

Next == \E event \in Events : Record(event)

Spec == Init /\ [][Next]_ledger
=============================================================================
