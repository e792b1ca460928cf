------------------------------ MODULE Custody ------------------------------
(***************************************************************************)
(* The chain of custody of one evidence item (vajra-custody) in the vault: *)
(* CustodyTracker::record_event, called by `custody record` and by the     *)
(* acquisition engine, each in a process of its own.                       *)
(*                                                                         *)
(* record_event reads the history and validates the candidate, inserts it, *)
(* and sets the owner and location columns of the evidence item: three     *)
(* statements, in no transaction.                                          *)
(***************************************************************************)
EXTENDS Integers, Sequences, FiniteSets

CONSTANTS
  Writers,   (* processes that record events                               *)
  Names,     (* parties and locations an event may name                    *)
  Quoted,    (* those whose text ends the SQL string it is formatted into  *)
  Operator,  (* the operator and workstation the engine names              *)
  NoName,    (* an absent party or location                                *)
  Times,     (* values of the wall clock, which may step back              *)
  Requests,  (* the events `custody record` is asked for                   *)
  MaxEvents, (* bound: events in the table                                 *)
  Faults     (* {"abort"} when a process may die or the vault refuse       *)

EventTypes == {"Seized", "Received", "StorageChange", "Transferred",
               "WriteBlockerAttached", "AnalysisStarted", "AnalysisCompleted",
               "WorkingCopyCreated", "Returned", "Disposed"}
Intake   == {"Seized", "Received"}
Terminal == {"Returned", "Disposed"}         \* CustodyEventType::is_terminal

ASSUME NamesAssumption ==
  Quoted \subseteq Names /\ Operator \in Names \ Quoted /\ NoName \notin Names
ASSUME TimesAssumption == Times \subseteq Nat
ASSUME BoundAssumption == MaxEvents \in Nat

Event == [type : EventTypes, from : Names \cup {NoName}, to : Names \cup {NoName},
          loc : Names \cup {NoName}, time : Times]

ASSUME RequestsAssumption == Requests \subseteq Event

VARIABLES
  table,  (* custody_events of the item, in the order of insertion         *)
  item,   (* its current_custody_owner and current_location columns        *)
  at,     (* what each process is doing, and with which event              *)
  overlapped,  (* history: two calls of record_event were once under way   *)
  skipped      (* history: an event was once stored without its UPDATE     *)

vars == <<table, item, at, overlapped, skipped>>

-----------------------------------------------------------------------------
(* The history is the table ordered by timestamp, rows of one timestamp in *)
(* the order of insertion.                                                 *)
Before(tbl, i, j) ==
  tbl[i].time < tbl[j].time \/ (tbl[i].time = tbl[j].time /\ i < j)

IsNewest(tbl, i) ==
  i \in DOMAIN tbl /\ \A j \in DOMAIN tbl : ~ Before(tbl, i, j)

(* A plausible defect: timestamps are not compared.                        *)
AcceptedAtAnyTime(event) ==
  IF table = <<>> THEN event.type \in Intake
  ELSE \E last \in DOMAIN table :
         /\ IsNewest(table, last)
         /\ table[last].type \notin Terminal
         /\ event.type = "Transferred" => event.from # NoName /\ event.to # NoName

(* A plausible defect: only a disposal is final.                           *)
AcceptedAfterReturn(event) ==
  IF table = <<>> THEN event.type \in Intake
  ELSE \E last \in DOMAIN table :
         /\ IsNewest(table, last)
         /\ table[last].type # "Disposed"
         /\ event.type = "Transferred" => event.from # NoName /\ event.to # NoName
         /\ event.time >= table[last].time

(* validate_candidate_event.                                               *)
Accepted(event) ==
  IF table = <<>> THEN event.type \in Intake
  ELSE \E last \in DOMAIN table :
         /\ IsNewest(table, last)
         /\ table[last].type \notin Terminal
         /\ event.type = "Transferred" => event.from # NoName /\ event.to # NoName
         /\ event.time >= table[last].time

(* The owner an event leaves: the accepting party, else the releasing one. *)
NewOwner(event) == IF event.to # NoName THEN event.to ELSE event.from

SetsColumns(event) == NewOwner(event) # NoName \/ event.loc # NoName

(* A plausible defect: only an accepting party becomes the owner.          *)
UpdatedAccepting(columns, event) ==
  [owner |-> IF event.to # NoName THEN event.to ELSE columns.owner,
   loc   |-> IF event.loc # NoName THEN event.loc ELSE columns.loc]

(* The columns after an event.                                             *)
Updated(columns, event) ==
  [owner |-> IF NewOwner(event) # NoName THEN NewOwner(event) ELSE columns.owner,
   loc   |-> IF event.loc # NoName THEN event.loc ELSE columns.loc]

-----------------------------------------------------------------------------
Idle == [pc |-> "idle", event |-> NoName]

Doing(pc, event) == [pc |-> pc, event |-> event]

Init ==
  /\ table = <<>>
  /\ item = [owner |-> NoName, loc |-> NoName]
  /\ at = [w \in Writers |-> Idle]
  /\ overlapped = FALSE
  /\ skipped = FALSE

(* `custody record`: the event and its timestamp come first.               *)
Request(w, event) ==
  /\ at[w].pc = "idle" /\ Len(table) < MaxEvents
  /\ at' = [at EXCEPT ![w] = Doing("validate", event)]
  /\ UNCHANGED <<table, item, overlapped, skipped>>

(* The engine's event at the start of an acquisition, whose type depends   *)
(* on a history of its own reading (empty when that read fails), and the   *)
(* one at the end of a resume.                                             *)
EngineRequest(w, time) ==
  /\ at[w].pc = "idle" /\ Len(table) < MaxEvents
  /\ \E type \in {"Received", "AnalysisStarted"} :
       /\ type = "Received" => table = <<>> \/ "abort" \in Faults
       /\ at' = [at EXCEPT ![w] = Doing("validate",
                   [type |-> type, from |-> Operator, to |-> Operator,
                    loc |-> Operator, time |-> time])]
  /\ UNCHANGED <<table, item, overlapped, skipped>>

(* Between the first statement of record_event and its return.             *)
UnderWay(w) == at[w].pc \in {"insert", "update"}

(* record_event, first statement: read the history and validate.           *)
Validate(w) ==
  /\ at[w].pc = "validate"
  /\ at' = [at EXCEPT ![w] =
               IF Accepted(at[w].event) THEN Doing("insert", at[w].event) ELSE Idle]
  /\ overlapped' = (overlapped \/ \E v \in Writers : UnderWay(v))
  /\ UNCHANGED <<table, item, skipped>>

(* A plausible defect: the UPDATE is issued though there is nothing to set.*)
AfterInsertAlways(event) == Doing("update", event)

AfterInsert(event) ==
  IF SetsColumns(event) THEN Doing("update", event) ELSE Idle

(* Second statement: the insert.                                           *)
Insert(w) ==
  /\ at[w].pc = "insert"
  /\ table' = Append(table, at[w].event)
  /\ at' = [at EXCEPT ![w] = AfterInsert(at[w].event)]
  /\ UNCHANGED <<item, overlapped, skipped>>

(* The UPDATE is the text its names are formatted into.                    *)
IsStatement(event) == {NewOwner(event), event.loc} \cap Quoted = {}

(* Third statement: the UPDATE.  When it is no statement the error is      *)
(* dropped, and record_event still returns Ok.                             *)
Update(w) ==
  /\ at[w].pc = "update"
  /\ item' = IF IsStatement(at[w].event) THEN Updated(item, at[w].event) ELSE item
  /\ skipped' = (skipped \/ ~ IsStatement(at[w].event))
  /\ at' = [at EXCEPT ![w] = Idle]
  /\ UNCHANGED <<table, overlapped>>

(* The vault refuses a statement, or the process is killed between two.    *)
Abort(w) ==
  /\ "abort" \in Faults /\ at[w].pc # "idle"
  /\ at' = [at EXCEPT ![w] = Idle]
  /\ skipped' = (skipped \/ at[w].pc = "update")
  /\ UNCHANGED <<table, item, overlapped>>

Next ==
  \E w \in Writers :
    \/ \E event \in Requests : Request(w, event)
    \/ \E time \in Times : EngineRequest(w, time)
    \/ Validate(w) \/ Insert(w) \/ Update(w) \/ Abort(w)

Spec == Init /\ [][Next]_vars

-----------------------------------------------------------------------------
TypeOK ==
  /\ table \in Seq(Event)
  /\ item \in [owner : Names \cup {NoName}, loc : Names \cup {NoName}]
  /\ at \in [Writers -> {Idle} \cup
                [pc : {"validate", "insert", "update"}, event : Event]]
  /\ \A w \in Writers : at[w].pc = "update" => SetsColumns(at[w].event)
  /\ overlapped \in BOOLEAN /\ skipped \in BOOLEAN

(* "The first event must be Seized or Received": the oldest event of the   *)
(* history is an intake, for any number of racing processes and any clock. *)
OpensWithIntake ==
  \A i \in DOMAIN table :
    (\A j \in DOMAIN table : ~ Before(table, j, i)) => table[i].type \in Intake

(* "Nothing may follow a terminal event."                                  *)
NothingFollowsTerminal ==
  \A i, j \in DOMAIN table :
    table[i].type \in Terminal => ~ Before(table, i, j)

(* The same as long as no two calls of record_event overlapped, wherever   *)
(* they were cut short and whatever the clock did.                         *)
TerminalIsFinalAlone == ~ overlapped => NothingFollowsTerminal

(* The newest event of the history that names a party, if any.             *)
HolderIs(name) ==
  \E i \in DOMAIN table :
    /\ NewOwner(table[i]) = name
    /\ \A j \in DOMAIN table : Before(table, i, j) => NewOwner(table[j]) = NoName

(* "Update current custody owner and location on the evidence item": when  *)
(* no process is about to set it, the owner column is the holder the       *)
(* history ends with, unless calls overlapped or an UPDATE was left out.   *)
OwnerFollowsHistory ==
  ~ overlapped /\ ~ skipped /\ (\A w \in Writers : at[w].pc # "update")
    => \A name \in Names : HolderIs(name) <=> item.owner = name
=============================================================================
