----------------------------- MODULE CaseVault -----------------------------
(* The evidence vault (vajra-case-db): the tables of an SQLite file that   *)
(* the command line and the desktop shell share, and the commands on cases *)
(* and evidence.  Each method of CaseDb is one statement, or, close_case,  *)
(* two; statements of different processes interleave.                      *)
EXTENDS Naturals

CONSTANTS
  Cases,   (* case numbers, chosen by the investigator                     *)
  Items,   (* evidence numbers                                             *)
  Ops,     (* acquisitions, by op_id                                       *)
  Images,  (* forensic images, by image_id                                 *)
  Events,  (* custody events, by event_id                                  *)
  Closers  (* processes that close a case                                  *)

VARIABLES
  cases,    (* case -> "Active" or "Closed"                                *)
  items,    (* item -> its case                                            *)
  ops,      (* acquisition -> its case and its item                        *)
  complete, (* acquisitions with status Completed                          *)
  images,   (* image -> its item, and the acquisition that made it         *)
  events,   (* custody event -> its item                                   *)
  closing   (* closer -> the case it has found not closed, if any          *)

vault == <<cases, items, ops, complete, images, events, closing>>

(* A table with one more row.                                              *)
With(table, key, row) ==
  [k \in DOMAIN table \cup {key} |-> IF k = key THEN row ELSE table[k]]

VaultInit ==
  /\ cases = <<>>
  /\ items = <<>>
  /\ ops = <<>>
  /\ complete = {}
  /\ images = <<>>
  /\ events = <<>>
  /\ closing = <<>>

-----------------------------------------------------------------------------
(* Queries.  ItemsOf, OpsOf and ImagesOf are the three SELECTs by case; an *)
(* image belongs to the case of its item, whatever operation made it.      *)
ItemsOf(c)  == { i \in DOMAIN items : items[i] = c }
OpsOf(c)    == { o \in DOMAIN ops : ops[o].case = c }
ImagesOf(c) == { m \in DOMAIN images : items[images[m].item] = c }
EventsOf(i) == { e \in DOMAIN events : events[e] = i }

-----------------------------------------------------------------------------
(* A plausible defect: the row of a case is replaced (INSERT OR REPLACE).  *)
CreateCaseOrReplace(c) ==
  /\ cases' = With(cases, c, "Active")
  /\ UNCHANGED <<items, ops, complete, images, events, closing>>

(* create_case: the primary key refuses a second case of the number.       *)
CreateCase(c) ==
  /\ c \notin DOMAIN cases
  /\ cases' = With(cases, c, "Active")
  /\ UNCHANGED <<items, ops, complete, images, events, closing>>

(* close_case, the SELECT: a case that is closed already is refused.       *)
CheckOpen(p, c) ==
  /\ p \notin DOMAIN closing
  /\ c \in DOMAIN cases /\ cases[c] = "Active"
  /\ closing' = With(closing, p, c)
  /\ UNCHANGED <<cases, items, ops, complete, images, events>>

(* close_case, the UPDATE, which has no condition on the status.           *)
CloseCase(p) ==
  /\ p \in DOMAIN closing
  /\ cases' = [cases EXCEPT ![closing[p]] = "Closed"]
  /\ closing' = [q \in DOMAIN closing \ {p} |-> closing[q]]
  /\ UNCHANGED <<items, ops, complete, images, events>>

(* A plausible defect: foreign keys are not enforced (no PRAGMA).          *)
AddEvidenceAnywhere(i, c) ==
  /\ i \notin DOMAIN items
  /\ items' = With(items, i, c)
  /\ UNCHANGED <<cases, ops, complete, images, events, closing>>

(* add_evidence: the case must exist (a foreign key), in any status, and   *)
(* the number be free.  The command line derives it from the fingerprint   *)
(* of the device, the desktop draws one of a thousand: either may be taken,*)
(* and the command then fails.                                             *)
AddEvidence(i, c) ==
  /\ i \notin DOMAIN items /\ c \in DOMAIN cases
  /\ items' = With(items, i, c)
  /\ UNCHANGED <<cases, ops, complete, images, events, closing>>

(* record_operation.  Case and item must exist; nothing ties the item to   *)
(* the case.                                                               *)
RecordOperation(o, c, i) ==
  /\ o \notin DOMAIN ops /\ c \in DOMAIN cases /\ i \in DOMAIN items
  /\ ops' = With(ops, o, [case |-> c, item |-> i])
  /\ UNCHANGED <<cases, items, complete, images, events, closing>>

(* record_custody_event, by the engine or by the custody commands.         *)
RecordEvent(e, i) ==
  /\ e \notin DOMAIN events /\ i \in DOMAIN items
  /\ events' = With(events, e, i)
  /\ UNCHANGED <<cases, items, ops, complete, images, closing>>

(* record_forensic_image, at the end of an acquisition and of every resume *)
(* of it: nothing asks whether it has an image or is complete already.     *)
RecordImage(m, o) ==
  /\ m \notin DOMAIN images /\ o \in DOMAIN ops
  /\ images' = With(images, m, [item |-> ops[o].item, op |-> o])
  /\ UNCHANGED <<cases, items, ops, complete, events, closing>>

(* A plausible defect: the operation is completed before its image is      *)
(* stored.                                                                 *)
CompleteOperationEarly(o) ==
  /\ o \in DOMAIN ops
  /\ complete' = complete \cup {o}
  /\ UNCHANGED <<cases, items, ops, images, events, closing>>

(* complete_operation: the engine calls it once the image is stored.       *)
CompleteOperation(o) ==
  /\ \E m \in DOMAIN images : images[m].op = o
  /\ complete' = complete \cup {o}
  /\ UNCHANGED <<cases, items, ops, images, events, closing>>

(* create_case and close_case, from either shell; the desktop holds a lock *)
(* that keeps its own commands apart, but no other process.                *)
CaseCommand ==
  \/ \E c \in Cases : CreateCase(c) \/ \E p \in Closers : CheckOpen(p, c)
  \/ \E p \in Closers : CloseCase(p)

(* add_evidence, from either shell.                                        *)
EvidenceCommand == \E i \in Items, c \in Cases : AddEvidence(i, c)

VaultNext ==
  \/ CaseCommand
  \/ EvidenceCommand
  \/ \E o \in Ops, c \in Cases, i \in Items : RecordOperation(o, c, i)
  \/ \E e \in Events, i \in Items : RecordEvent(e, i)
  \/ \E o \in Ops :
       (\E m \in Images : RecordImage(m, o)) \/ CompleteOperation(o)

-----------------------------------------------------------------------------
(* Every row refers to rows that exist, and a completed acquisition has an *)
(* image of its item.                                                      *)
VaultTypeOK ==
  /\ DOMAIN cases \subseteq Cases
  /\ cases \in [DOMAIN cases -> {"Active", "Closed"}]
  /\ DOMAIN items \subseteq Items
  /\ items \in [DOMAIN items -> DOMAIN cases]
  /\ DOMAIN ops \subseteq Ops
  /\ ops \in [DOMAIN ops -> [case : DOMAIN cases, item : DOMAIN items]]
  /\ complete \subseteq DOMAIN ops
  /\ DOMAIN images \subseteq Images
  /\ images \in [DOMAIN images -> [item : DOMAIN items, op : DOMAIN ops]]
  /\ DOMAIN events \subseteq Events
  /\ events \in [DOMAIN events -> DOMAIN items]
  /\ DOMAIN closing \subseteq Closers
  /\ closing \in [DOMAIN closing -> DOMAIN cases]

(* What a closed case promises: it is never reopened, and no case, item or *)
(* other row ever leaves the vault or moves to another case.               *)
OnlyGrows(table) ==
  DOMAIN table \subseteq DOMAIN table' /\ \A k \in DOMAIN table : table'[k] = table[k]

RecordsArePermanent ==
  [][/\ \A c \in DOMAIN cases :
          c \in DOMAIN cases' /\ (cases[c] = "Closed" => cases'[c] = "Closed")
     /\ OnlyGrows(items) /\ OnlyGrows(ops) /\ OnlyGrows(images) /\ OnlyGrows(events)
     /\ complete \subseteq complete']_vault
=============================================================================
