---------------------------- MODULE MCReporting ----------------------------
(* One report, of any kind and from either shell, next to processes that   *)
(* write to the vault and to the audit log.                                *)
EXTENDS Reporting, FiniteSets, TLC

(* Names of a kind are interchangeable.                                    *)
Symmetry ==
  Permutations(Cases) \cup Permutations(Items) \cup Permutations(Images)
    \cup Permutations(Events)

(* Steps that commute with what a report does are taken once: the audit    *)
(* log grows after the reads, the tables but for the cases rest then,      *)
(* other entries are appended while there is no image or custody event, a  *)
(* case is closed before there is another or any evidence, a report that   *)
(* reads nothing is asked for before there is evidence, and what is last   *)
(* of all is that a file is altered, which has a row and comes from vaults *)
(* without completed acquisitions and closed cases.                        *)
Before(step) == step => items = <<>> /\ UNCHANGED items

Reading(pc) == pc \in {"idle", "case", "items", "ops", "images", "events",
                       "image", "event"}

StepsOnce ==
  /\ log' # log /\ at' = at => images = <<>> /\ events = <<>>
  /\ \A w \in Reporters :
       /\ Reading(at[w].pc) => UNCHANGED log
       /\ ~Reading(at[w].pc)
            => UNCHANGED <<items, ops, complete, images, events, closing>>
       /\ Before(at[w].pc = "idle" /\ at'[w].pc = "head")
  /\ Before(closing # <<>> \/ closing' # <<>>)
  /\ closing' # <<>> => UNCHANGED at /\ Cardinality(DOMAIN cases) = 1
  /\ damage' # damage =>
       /\ complete = {} /\ closing = <<>> /\ DOMAIN files \subseteq reports
       /\ \A c \in DOMAIN cases : cases[c] = "Active"
  /\ damage > 0 => damage' # damage
=============================================================================
