----------------------------- MODULE AuditChain -----------------------------
(* The hash-chained audit log (vajra-audit) in the audit_log table of the  *)
(* vault: AuditChain::append by any number of processes that share the     *)
(* vault, export_anchor and verify_anchor, and the walk of verify_entries. *)
(*                                                                         *)
(* A table row keeps the entry as JSON, from which it is verified, and the *)
(* entry's hash in a column of its own, from which it is extended.         *)
EXTENDS Integers, Sequences

CONSTANTS
  Writers,   (* processes that append                                      *)
  Events,    (* what is logged: operation, target, result and timestamp    *)
  Damage,    (* what the stored table may suffer: "alter", "column", "drop"*)
  MaxDamage, (* bound: how often                                           *)
  Nothing    (* no event                                                   *)

ASSUME DamageAssumption == Damage \subseteq {"alter", "column", "drop"}
ASSUME NothingAssumption == Nothing \notin Events
ASSUME MaxDamageAssumption == MaxDamage \in Nat

VARIABLES
  rows,     (* the audit_log table, by primary key                         *)
  at,       (* what each process is doing                                  *)
  returned, (* events whose process went on after append                   *)
  anchors,  (* checkpoints exported so far                                 *)
  top,      (* the highest sequence number ever stored                     *)
  damaged   (* how often the table was damaged                             *)

vars == <<rows, at, returned, anchors, top, damaged>>

Seqs == Nat \ {0}

(* SHA-256 over the payload and the predecessor's hash, idealised: a hash  *)
(* is the list of the payloads it covers.                                  *)
Payload == [seq : Seqs, event : Events]
Hashes  == Seq(Payload)
Genesis == <<>>

Entry == [seq : Seqs, event : Events, prev : Hashes, hash : Hashes]
Row   == [entry : Entry, hash : Hashes]

Idle == [pc |-> "idle", event |-> Nothing, seq |-> 1, prev |-> Genesis]

(* AuditEntry::calculate_hash.                                             *)
Hash(seq, event, prev) == Append(prev, [seq |-> seq, event |-> event])

(* A plausible defect: entries are numbered from zero.                     *)
NewRowFromZero(seq, event, prev) ==
  [entry |-> [seq |-> seq - 1, event |-> event, prev |-> prev,
              hash |-> Hash(seq, event, prev)],
   hash |-> Hash(seq, event, prev)]

(* A plausible defect: the hash column gets the predecessor's hash.        *)
NewRowStaleColumn(seq, event, prev) ==
  [entry |-> [seq |-> seq, event |-> event, prev |-> prev,
              hash |-> Hash(seq, event, prev)],
   hash |-> prev]

(* AuditEntry::new, and the row append_audit_log makes of it.              *)
NewRow(seq, event, prev) ==
  [entry |-> [seq |-> seq, event |-> event, prev |-> prev,
              hash |-> Hash(seq, event, prev)],
   hash |-> Hash(seq, event, prev)]

IsLast(s) == s \in DOMAIN rows /\ \A r \in DOMAIN rows : r <= s

-----------------------------------------------------------------------------
(* A plausible defect: linkage is not compared.                            *)
LinkedAnyhow(s) == s = 1 \/ s - 1 \in DOMAIN rows

(* Checks 1 and 2 of verify_entries for the entry with key s: no gap below *)
(* it, and its prev_hash is the hash of the entry before it.               *)
Linked(s) ==
  IF s = 1 THEN rows[s].entry.prev = Genesis
  ELSE s - 1 \in DOMAIN rows /\ rows[s].entry.prev = rows[s - 1].entry.hash

(* verify_entries over the table in the order of its keys.                 *)
VerifyEntries ==
  \A s \in DOMAIN rows :
    LET e == rows[s].entry IN
    /\ e.seq = s
    /\ Linked(s)
    /\ e.hash = Hash(e.seq, e.event, e.prev)

(* verify_anchor, for a checkpoint whose signature is valid.               *)
VerifyAnchor(anchor) ==
  /\ anchor.seq \in DOMAIN rows
  /\ rows[anchor.seq].entry.hash = anchor.hash

(* The events of the log up to a sequence number.                          *)
EventsUpTo(n) == [s \in 1 .. n |-> rows[s].entry.event]

-----------------------------------------------------------------------------
Init ==
  /\ rows = <<>>
  /\ at = [w \in Writers |-> Idle]
  /\ returned = {}
  /\ anchors = {}
  /\ top = 0
  /\ damaged = 0

(* append, first half: get_latest_audit_entry gives the number and the     *)
(* hash the new entry is built from; the connection is then released.      *)
(* Timestamps make events distinct.                                        *)
ReadHead(w, event) ==
  /\ at[w].pc = "idle"
  /\ event \notin returned /\ \A v \in Writers : at[v].event # event
  /\ \/ /\ DOMAIN rows = {}
        /\ at' = [at EXCEPT ![w] = [pc |-> "insert", event |-> event,
                                    seq |-> 1, prev |-> Genesis]]
     \/ \E s \in DOMAIN rows :
          /\ IsLast(s)
          /\ at' = [at EXCEPT ![w] = [pc |-> "insert", event |-> event,
                                      seq |-> s + 1, prev |-> rows[s].hash]]
  /\ UNCHANGED <<rows, returned, anchors, top, damaged>>

(* A plausible defect: the insert replaces a row with the same key.        *)
InsertOrReplace(w) ==
  /\ at[w].pc = "insert"
  /\ rows' = [s \in DOMAIN rows \cup {at[w].seq} |->
                IF s = at[w].seq THEN NewRow(s, at[w].event, at[w].prev)
                                 ELSE rows[s]]
  /\ returned' = returned \cup {at[w].event}
  /\ top' = IF at[w].seq > top THEN at[w].seq ELSE top
  /\ at' = [at EXCEPT ![w] = Idle]
  /\ UNCHANGED <<anchors, damaged>>

(* append, second half: the insert fails when the primary key is taken.    *)
(* The command line and the report generator stop there with the error;    *)
(* the engine discards it and goes on.                                     *)
Insert(w) ==
  /\ at[w].pc = "insert"
  /\ \/ /\ at[w].seq \in DOMAIN rows
        /\ returned' \in {returned, returned \cup {at[w].event}}
        /\ UNCHANGED <<rows, top>>
     \/ /\ at[w].seq \notin DOMAIN rows
        /\ rows' = [s \in DOMAIN rows \cup {at[w].seq} |->
                      IF s = at[w].seq THEN NewRow(s, at[w].event, at[w].prev)
                                       ELSE rows[s]]
        /\ top' = IF at[w].seq > top THEN at[w].seq ELSE top
        /\ returned' = returned \cup {at[w].event}
  /\ at' = [at EXCEPT ![w] = Idle]
  /\ UNCHANGED <<anchors, damaged>>

(* export_anchor signs the last entry's number and hash, and never         *)
(* verifies the chain first.  log and sound are history: the events at the *)
(* time, and whether the chain would have verified.                        *)
ExportAnchor ==
  /\ \E s \in DOMAIN rows :
       /\ IsLast(s)
       /\ anchors' = anchors \cup
            {[seq |-> rows[s].entry.seq, hash |-> rows[s].entry.hash,
              log |-> IF VerifyEntries THEN EventsUpTo(s) ELSE <<>>,
              sound |-> VerifyEntries]}
  /\ UNCHANGED <<rows, at, returned, top, damaged>>

-----------------------------------------------------------------------------
(* Damage to the stored table: an entry's payload differs, a hash column   *)
(* differs, a row is gone.                                                 *)
AlterEntry ==
  /\ "alter" \in Damage
  /\ \E s \in DOMAIN rows, event \in Events :
       rows' = [rows EXCEPT ![s].entry.event = event]
  /\ UNCHANGED <<at, returned, anchors, top>>

AlterColumn ==
  /\ "column" \in Damage
  /\ \E s \in DOMAIN rows : rows' = [rows EXCEPT ![s].hash = Genesis]
  /\ UNCHANGED <<at, returned, anchors, top>>

DropRow ==
  /\ "drop" \in Damage
  /\ \E s \in DOMAIN rows : rows' = [r \in DOMAIN rows \ {s} |-> rows[r]]
  /\ UNCHANGED <<at, returned, anchors, top>>

Damaging ==
  /\ damaged < MaxDamage
  /\ damaged' = damaged + 1
  /\ AlterEntry \/ AlterColumn \/ DropRow

Next ==
  \/ \E w \in Writers : (\E event \in Events : ReadHead(w, event)) \/ Insert(w)
  \/ ExportAnchor
  \/ Damaging

Spec == Init /\ [][Next]_vars

-----------------------------------------------------------------------------
TypeOK ==
  /\ DOMAIN rows \subseteq Seqs
  /\ rows \in [DOMAIN rows -> Row]
  /\ at \in [Writers -> [pc : {"idle", "insert"}, event : Events \cup {Nothing},
                         seq : Seqs, prev : Hashes]]
  /\ \A w \in Writers : at[w].pc = "insert" => at[w].event \in Events
  /\ returned \subseteq Events
  /\ anchors \subseteq [seq : Seqs, hash : Hashes, log : Seq(Events),
                        sound : BOOLEAN]
  /\ top \in Nat
  /\ damaged \in 0 .. MaxDamage

(* Interleaved appends never break the chain, whatever entries they lose.  *)
ChainIntact == damaged = 0 => VerifyEntries

(* An undamaged table never disagrees with a checkpoint exported from it.  *)
AnchorsHold == damaged = 0 => \A anchor \in anchors : VerifyAnchor(anchor)

(* The two checks together: a chain that verifies and agrees with an       *)
(* anchor taken from a chain that verified holds, up to the anchor, the    *)
(* events it held then, whatever was done to the table meanwhile.          *)
TamperEvident ==
  VerifyEntries =>
    \A anchor \in anchors :
      anchor.sound /\ VerifyAnchor(anchor)
        => EventsUpTo(anchor.seq) = anchor.log

(* The log read as a ledger: until it is damaged the table implements it.  *)
Ledger == INSTANCE AuditLedger WITH ledger <- EventsUpTo(top)

LedgerSpec ==
  /\ Ledger!Init
  /\ [][damaged' = 0 => Ledger!Next \/ UNCHANGED EventsUpTo(top)]_vars

(* Every operation that went on has produced its entry.                    *)
ReturnedIsRecorded ==
  \A event \in returned : \E s \in DOMAIN rows : rows[s].entry.event = event
=============================================================================
