--------------------------- MODULE CustodyProofs ---------------------------
(* Theorems about Custody, for any number of processes, any names, clock   *)
(* values and requests.                                                    *)
EXTENDS Custody, SequenceTheorems, TLAPS

USE NamesAssumption, TimesAssumption, BoundAssumption, RequestsAssumption

-----------------------------------------------------------------------------
LEMMA EventTimes ==
  /\ \A event \in Event : event.time \in Nat
  /\ TypeOK => /\ DOMAIN table = 1 .. Len(table) /\ Len(table) \in Nat
               /\ \A i \in DOMAIN table : table[i] \in Event
<1>1. \A event \in Event : event.time \in Times
  BY DEF Event
<1>2. \A event \in Event : event.time \in Nat
  BY <1>1, TimesAssumption
<1>3. TypeOK => table \in Seq(Event)
  BY DEF TypeOK
<1> QED
  BY <1>2, <1>3

LEMMA InsertStep ==
  ASSUME TypeOK, NEW w \in Writers, Insert(w)
  PROVE  /\ at[w].event \in Event
         /\ table' \in Seq(Event)
         /\ DOMAIN table = 1 .. Len(table) /\ Len(table) \in Nat
         /\ DOMAIN table' = 1 .. Len(table) + 1
         /\ \A i \in DOMAIN table : table'[i] = table[i]
         /\ table'[Len(table) + 1] = at[w].event
<1>1. at[w].event \in Event
  BY DEF Insert, TypeOK, Idle
<1>2. table \in Seq(Event) /\ table' = Append(table, at[w].event)
  BY DEF Insert, TypeOK
<1> QED
  BY <1>1, <1>2, AppendProperties, LenProperties

LEMMA NextTypeOK == TypeOK /\ [Next]_vars => TypeOK'
<1> SUFFICES ASSUME TypeOK, [Next]_vars PROVE TypeOK'
  OBVIOUS
<1>1. ASSUME NEW w \in Writers, NEW event \in Requests, Request(w, event)
      PROVE  TypeOK'
  BY <1>1 DEF Request, TypeOK, Idle, Doing
<1>2. ASSUME NEW w \in Writers, NEW time \in Times, EngineRequest(w, time)
      PROVE  TypeOK'
  <2>1. PICK type \in {"Received", "AnalysisStarted"} :
          at' = [at EXCEPT ![w] = Doing("validate",
                   [type |-> type, from |-> Operator, to |-> Operator,
                    loc |-> Operator, time |-> time])]
    BY <1>2 DEF EngineRequest
  <2>2. [type |-> type, from |-> Operator, to |-> Operator,
         loc |-> Operator, time |-> time] \in Event
    BY DEF Event, EventTypes
  <2> QED
    BY <1>2, <2>1, <2>2 DEF EngineRequest, TypeOK, Idle, Doing
<1>3. ASSUME NEW w \in Writers, Validate(w) PROVE TypeOK'
  BY <1>3 DEF Validate, TypeOK, Idle, Doing
<1>4. ASSUME NEW w \in Writers, Insert(w) PROVE TypeOK'
  <2>1. at[w].event \in Event /\ table' \in Seq(Event)
    BY <1>4, InsertStep
  <2> QED
    BY <1>4, <2>1 DEF Insert, AfterInsert, TypeOK, Idle, Doing
<1>5. ASSUME NEW w \in Writers, Update(w) PROVE TypeOK'
  <2>1. at[w].event \in Event
    BY <1>5 DEF Update, TypeOK, Idle
  <2>2. Updated(item, at[w].event)
          \in [owner : Names \cup {NoName}, loc : Names \cup {NoName}]
    BY <2>1 DEF Updated, NewOwner, Event, TypeOK
  <2> QED
    BY <1>5, <2>2 DEF Update, TypeOK, Idle
<1>6. ASSUME NEW w \in Writers, Abort(w) PROVE TypeOK'
  BY <1>6 DEF Abort, TypeOK, Idle
<1>7. CASE UNCHANGED vars
  BY <1>7 DEF vars, TypeOK
<1> QED
  BY <1>1, <1>2, <1>3, <1>4, <1>5, <1>6, <1>7 DEF Next

LEMMA InitTypeOK == Init => TypeOK
<1> SUFFICES ASSUME Init PROVE TypeOK
  OBVIOUS
<1>1. overlapped \in BOOLEAN /\ skipped \in BOOLEAN
  BY Zenon DEF Init
<1> QED
  BY <1>1 DEF Init, TypeOK, Idle

(* The table, the columns and the processes keep their types.              *)
THEOREM TypeCorrect == Spec => []TypeOK
<1>1. Init => TypeOK
  BY InitTypeOK
<1>2. TypeOK /\ [Next]_vars => TypeOK'
  BY NextTypeOK
<1> QED
  BY <1>1, <1>2, PTL DEF Spec

-----------------------------------------------------------------------------
(* Racing processes.  An event that is not an intake, stored or about to   *)
(* be, has an intake no later than itself among the stored ones.           *)
IntakeBefore(event) ==
  \E j \in DOMAIN table : table[j].type \in Intake /\ table[j].time <= event.time

IntakeInv ==
  /\ \A i \in DOMAIN table : table[i].type \notin Intake =>
       \E j \in DOMAIN table : table[j].type \in Intake /\ Before(table, j, i)
  /\ \A w \in Writers :
       at[w].pc = "insert" /\ at[w].event.type \notin Intake
         => IntakeBefore(at[w].event)

LEMMA AcceptedHasIntake ==
  ASSUME TypeOK, IntakeInv, NEW event \in Event, Accepted(event),
         event.type \notin Intake
  PROVE  IntakeBefore(event)
<1>1. PICK last \in DOMAIN table : event.time >= table[last].time
  BY DEF Accepted
<1>2. /\ DOMAIN table \subseteq Nat /\ event.time \in Nat
      /\ \A i \in DOMAIN table : table[i].time \in Nat
  BY EventTimes
<1>3. CASE table[last].type \in Intake
  BY <1>1, <1>2, <1>3 DEF IntakeBefore
<1>4. CASE table[last].type \notin Intake
  <2>1. PICK j \in DOMAIN table :
          table[j].type \in Intake /\ Before(table, j, last)
    BY <1>4 DEF IntakeInv
  <2>2. table[j].time <= event.time
    BY <1>1, <1>2, <2>1 DEF Before
  <2> QED
    BY <2>1, <2>2 DEF IntakeBefore
<1> QED
  BY <1>3, <1>4

LEMMA NextIntakeInv == TypeOK /\ IntakeInv /\ [Next]_vars => IntakeInv'
<1> SUFFICES ASSUME TypeOK, IntakeInv, [Next]_vars PROVE IntakeInv'
  OBVIOUS
<1>1. ASSUME NEW w \in Writers, table' = table, at' = [at EXCEPT ![w] = Idle]
      PROVE  IntakeInv'
  BY <1>1 DEF IntakeInv, IntakeBefore, Before, TypeOK, Idle
<1>2. ASSUME NEW w \in Writers, NEW event,
             table' = table, at' = [at EXCEPT ![w] = Doing("validate", event)]
      PROVE  IntakeInv'
  BY <1>2 DEF IntakeInv, IntakeBefore, Before, TypeOK, Doing
<1>3. ASSUME NEW w \in Writers, Validate(w) PROVE IntakeInv'
  <2>1. CASE ~ Accepted(at[w].event)
    BY <1>1, <1>3, <2>1 DEF Validate
  <2>2. CASE Accepted(at[w].event)
    <3>1. at[w].event \in Event
      BY <1>3 DEF Validate, TypeOK, Idle
    <3>2. at[w].event.type \notin Intake => IntakeBefore(at[w].event)
      BY <2>2, <3>1, AcceptedHasIntake
    <3>3. /\ table' = table
          /\ at'[w] = Doing("insert", at[w].event)
          /\ \A v \in Writers : v # w => at'[v] = at[v]
      BY <1>3, <2>2 DEF Validate, TypeOK
    <3>4. \A v \in Writers :
            at'[v].pc = "insert" /\ at'[v].event.type \notin Intake
              => IntakeBefore(at'[v].event)
      BY <3>2, <3>3 DEF IntakeInv, Doing
    <3> QED
      BY <3>3, <3>4 DEF IntakeInv, IntakeBefore, Before
  <2> QED
    BY <2>1, <2>2
<1>4. ASSUME NEW w \in Writers, Insert(w) PROVE IntakeInv'
  <2>0. PICK n \in Nat : n = Len(table)
    BY <1>4, InsertStep
  <2>1. /\ at[w].event \in Event
        /\ DOMAIN table = 1 .. n /\ DOMAIN table' = 1 .. n + 1
        /\ \A i \in 1 .. n : table'[i] = table[i]
        /\ table'[n + 1] = at[w].event
    BY <1>4, <2>0, InsertStep
  <2>2. at[w].pc = "insert" /\ \A v \in Writers : at'[v].pc = "insert" =>
          at[v].pc = "insert" /\ at'[v] = at[v]
    BY <1>4 DEF Insert, AfterInsert, TypeOK, Idle, Doing
  <2>3. \A i \in 1 .. n : table[i].type \notin Intake =>
          \E j \in 1 .. n : table[j].type \in Intake /\ Before(table, j, i)
    BY <2>1 DEF IntakeInv
  <2>4. \A i \in 1 .. n : table'[i].type \notin Intake =>
          \E j \in DOMAIN table' : table'[j].type \in Intake /\ Before(table', j, i)
    BY <2>1, <2>3 DEF Before
  <2>5. table'[n + 1].type \notin Intake =>
          \E j \in DOMAIN table' :
            table'[j].type \in Intake /\ Before(table', j, n + 1)
    <3> SUFFICES ASSUME at[w].event.type \notin Intake
                 PROVE  \E j \in DOMAIN table' :
                          table'[j].type \in Intake /\ Before(table', j, n + 1)
      BY <2>1
    <3>1. PICK j \in 1 .. n :
            table[j].type \in Intake /\ table[j].time <= at[w].event.time
      BY <2>1, <2>2 DEF IntakeInv, IntakeBefore
    <3>2. table[j].time \in Nat /\ at[w].event.time \in Nat
      BY <2>1, EventTimes
    <3>3. j < n + 1 /\ j \in DOMAIN table' /\ table'[j] = table[j]
      BY <2>1
    <3>4. Before(table', j, n + 1)
      BY <2>1, <3>1, <3>2, <3>3 DEF Before
    <3> QED
      BY <3>1, <3>3, <3>4
  <2>6. \A v \in Writers :
          at'[v].pc = "insert" /\ at'[v].event.type \notin Intake
            => \E j \in DOMAIN table' :
                 table'[j].type \in Intake /\ table'[j].time <= at'[v].event.time
    BY <2>1, <2>2 DEF IntakeInv, IntakeBefore
  <2>7. \A i \in DOMAIN table' : i \in 1 .. n \/ i = n + 1
    BY <2>1
  <2> QED
    BY <2>4, <2>5, <2>6, <2>7 DEF IntakeInv, IntakeBefore
<1>5. CASE UNCHANGED vars
  BY <1>5 DEF vars, IntakeInv, IntakeBefore, Before
<1> QED
  BY <1>1, <1>2, <1>3, <1>4, <1>5
  DEF Next, Request, EngineRequest, Update, Abort

(* However many processes race, whatever the clock does and wherever they  *)
(* die, the history opens with an intake.                                  *)
THEOREM HistoryOpensWithIntake == Spec => []OpensWithIntake
<1>1. Init => TypeOK /\ IntakeInv
  BY InitTypeOK DEF Init, IntakeInv, Idle
<1>2. TypeOK /\ IntakeInv /\ [Next]_vars => TypeOK' /\ IntakeInv'
  BY NextTypeOK, NextIntakeInv
<1>3. IntakeInv => OpensWithIntake
  BY DEF IntakeInv, OpensWithIntake
<1> QED
  BY <1>1, <1>2, <1>3, PTL DEF Spec

-----------------------------------------------------------------------------
(* Calls that do not overlap.  The table is then in the order of the       *)
(* history, and a validated event still fits when it is stored.            *)
Sorted == \A i, j \in DOMAIN table : i < j => table[i].time <= table[j].time

AloneInv ==
  ~ overlapped =>
    /\ Sorted
    /\ \A i \in DOMAIN table : i < Len(table) => table[i].type \notin Terminal
    /\ \A v, w \in Writers : UnderWay(v) /\ UnderWay(w) => v = w
    /\ \A w \in Writers : at[w].pc = "insert" /\ table # <<>> =>
         /\ table[Len(table)].type \notin Terminal
         /\ at[w].event.time >= table[Len(table)].time

LEMMA NewestIsLast ==
  ASSUME TypeOK, Sorted, NEW last, IsNewest(table, last)
  PROVE  last = Len(table)
<1>1. /\ DOMAIN table = 1 .. Len(table) /\ Len(table) \in Nat
      /\ \A i \in DOMAIN table : table[i].time \in Nat
  BY EventTimes
<1>2. last \in 1 .. Len(table) /\ Len(table) \in DOMAIN table
  BY <1>1 DEF IsNewest
<1>3. CASE last < Len(table)
  <2>1. table[last].time <= table[Len(table)].time
    BY <1>1, <1>2, <1>3 DEF Sorted
  <2>2. Before(table, last, Len(table))
    BY <1>1, <1>2, <1>3, <2>1 DEF Before
  <2> QED
    BY <1>2, <2>2 DEF IsNewest
<1>4. last \in Int /\ Len(table) \in Int /\ last <= Len(table)
  BY <1>1, <1>2
<1> QED
  BY <1>3, <1>4

(* A process that goes back, or to a step outside its three statements.    *)
LEMMA AloneFrame ==
  ASSUME TypeOK, AloneInv, table' = table, ~ overlapped' => ~ overlapped,
         NEW w \in Writers, NEW next, at' = [at EXCEPT ![w] = next],
         next.pc \notin {"insert", "update"}
  PROVE  AloneInv'
<1>1. /\ at'[w].pc \notin {"insert", "update"}
      /\ \A v \in Writers : v # w => at'[v] = at[v]
  BY DEF TypeOK
<1>2. \A v \in Writers : at'[v].pc \in {"insert", "update"} => at'[v] = at[v]
  BY <1>1
<1> QED
  BY <1>2 DEF AloneInv, Sorted, UnderWay

LEMMA NextAloneInv == TypeOK /\ AloneInv /\ [Next]_vars => AloneInv'
<1> SUFFICES ASSUME TypeOK, AloneInv, [Next]_vars PROVE AloneInv'
  OBVIOUS
<1>1. Idle.pc \notin {"insert", "update"}
      /\ \A event : Doing("validate", event).pc \notin {"insert", "update"}
  BY DEF Idle, Doing
<1>2. ASSUME NEW w \in Writers, Validate(w) PROVE AloneInv'
  <2>1. CASE overlapped'
    BY <2>1 DEF AloneInv
  <2>2. CASE ~ Accepted(at[w].event) /\ ~ overlapped'
    BY <1>1, <1>2, <2>2, AloneFrame DEF Validate
  <2>3. CASE Accepted(at[w].event) /\ ~ overlapped'
    <3>1. /\ table' = table /\ at'[w] = Doing("insert", at[w].event)
          /\ \A v \in Writers : v # w => at'[v] = at[v]
      BY <1>2, <2>3 DEF Validate, TypeOK
    <3>2. ~ overlapped /\ \A v \in Writers : ~ UnderWay(v)
      BY <1>2, <2>3 DEF Validate, TypeOK
    <3>3. \A v \in Writers : at'[v].pc \in {"insert", "update"} => v = w
      BY <3>1, <3>2 DEF UnderWay
    <3>4. at'[w].event = at[w].event
      BY <3>1 DEF Doing
    <3>5. table # <<>> => /\ table[Len(table)].type \notin Terminal
                          /\ at[w].event.time >= table[Len(table)].time
      BY <2>3, <3>2, NewestIsLast DEF Accepted, AloneInv
    <3> QED
      BY <3>1, <3>2, <3>3, <3>4, <3>5 DEF AloneInv, Sorted, UnderWay
  <2> QED
    BY <2>1, <2>2, <2>3
<1>3. ASSUME NEW w \in Writers, Insert(w) PROVE AloneInv'
  <2> SUFFICES ASSUME ~ overlapped
               PROVE  AloneInv'
    BY <1>3 DEF Insert, AloneInv
  <2>0. PICK n \in Nat : n = Len(table)
    BY <1>3, InsertStep
  <2>1. /\ at[w].event \in Event /\ at[w].event.time \in Nat
        /\ DOMAIN table = 1 .. n /\ DOMAIN table' = 1 .. n + 1
        /\ \A i \in 1 .. n : table'[i] = table[i] /\ table[i].time \in Nat
        /\ table'[n + 1] = at[w].event
    BY <1>3, <2>0, InsertStep, EventTimes
  <2>2. Len(table') = n + 1
    BY <1>3, <2>1, InsertStep, LenProperties
  <2>3. \A v \in Writers : v # w => at'[v] = at[v] /\ ~ UnderWay(v)
    BY <1>3 DEF Insert, TypeOK, AloneInv, UnderWay
  <2>4. \A v \in Writers : at'[v].pc \in {"insert", "update"} => v = w
    BY <2>3 DEF UnderWay
  <2>5. at[w].pc = "insert" /\ at'[w].pc # "insert"
    BY <1>3 DEF Insert, AfterInsert, TypeOK, Idle, Doing
  <2>6. n > 0 => /\ table[n].type \notin Terminal
                 /\ at[w].event.time >= table[n].time
    <3>1. n > 0 => table # <<>>
      BY <2>0
    <3> QED
      BY <2>0, <2>5, <3>1 DEF AloneInv
  <2>7. \A i, j \in 1 .. n : i < j => table[i].time <= table[j].time
    BY <2>1 DEF AloneInv, Sorted
  <2>8. \A i \in 1 .. n : table[i].time <= at[w].event.time
    <3> SUFFICES ASSUME NEW i \in 1 .. n
                 PROVE  table[i].time <= at[w].event.time
      OBVIOUS
    <3>1. table[i].time <= table[n].time
      BY <2>1, <2>7
    <3> QED
      BY <2>1, <2>6, <3>1
  <2>9. Sorted'
    <3> SUFFICES ASSUME NEW i \in DOMAIN table', NEW j \in DOMAIN table', i < j
                 PROVE  table'[i].time <= table'[j].time
      BY DEF Sorted
    <3>1. i \in 1 .. n
      BY <2>1
    <3>2. CASE j = n + 1
      BY <2>1, <2>8, <3>1, <3>2
    <3>3. CASE j \in 1 .. n
      BY <2>1, <2>7, <3>1, <3>3
    <3> QED
      BY <2>1, <3>2, <3>3
  <2>10. \A i \in 1 .. n : table'[i].type \notin Terminal
    BY <2>0, <2>1, <2>6 DEF AloneInv
  <2> QED
    BY <2>1, <2>2, <2>4, <2>5, <2>9, <2>10 DEF AloneInv, UnderWay
<1>4. CASE UNCHANGED vars
  BY <1>4 DEF vars, AloneInv, Sorted, UnderWay
<1>5. ASSUME NEW w \in Writers, NEW event, Request(w, event) PROVE AloneInv'
  BY <1>1, <1>5, AloneFrame DEF Request
<1>6. ASSUME NEW w \in Writers, NEW time, EngineRequest(w, time) PROVE AloneInv'
  BY <1>1, <1>6, AloneFrame DEF EngineRequest
<1>7. ASSUME NEW w \in Writers, Update(w) \/ Abort(w) PROVE AloneInv'
  BY <1>1, <1>7, AloneFrame DEF Update, Abort
<1> QED
  BY <1>2, <1>3, <1>4, <1>5, <1>6, <1>7 DEF Next

LEMMA AloneTerminal ==
  ASSUME TypeOK, AloneInv
  PROVE  TerminalIsFinalAlone
<1> SUFFICES ASSUME ~ overlapped,
                    NEW i \in DOMAIN table, NEW j \in DOMAIN table,
                    table[i].type \in Terminal, Before(table, i, j)
             PROVE  FALSE
  BY DEF TerminalIsFinalAlone, NothingFollowsTerminal
<1>1. /\ DOMAIN table = 1 .. Len(table) /\ Len(table) \in Nat
      /\ \A k \in DOMAIN table : table[k].time \in Nat
  BY EventTimes
<1>2. i = Len(table)
  BY <1>1 DEF AloneInv
<1>3. j <= i
  BY <1>1, <1>2
<1>4. table[j].time <= table[i].time
  BY <1>1, <1>3 DEF AloneInv, Sorted
<1> QED
  BY <1>1, <1>3, <1>4 DEF Before

(* As long as no two calls overlap, nothing follows a terminal event,      *)
(* wherever a call is cut short and whatever the clock does.               *)
THEOREM TerminalIsFinal == Spec => []TerminalIsFinalAlone
<1>1. Init => TypeOK /\ AloneInv
  BY InitTypeOK DEF Init, AloneInv, Sorted, UnderWay, Idle
<1>2. TypeOK /\ AloneInv /\ [Next]_vars => TypeOK' /\ AloneInv'
  BY NextTypeOK, NextAloneInv
<1>3. TypeOK /\ AloneInv => TerminalIsFinalAlone
  BY AloneTerminal
<1> QED
  BY <1>1, <1>2, <1>3, PTL DEF Spec

-----------------------------------------------------------------------------
(* The owner column.  It is the holder after the first n events: all of    *)
(* them, except the one whose UPDATE is still to come.                     *)
HolderAfter(tbl, n, name) ==
  \E i \in 1 .. n : /\ NewOwner(tbl[i]) = name
                    /\ \A j \in i + 1 .. n : NewOwner(tbl[j]) = NoName

OwnerInv ==
  ~ overlapped /\ ~ skipped =>
    /\ \A w \in Writers : at[w].pc = "update" =>
         /\ table # <<>> /\ table[Len(table)] = at[w].event
         /\ \A name \in Names :
              HolderAfter(table, Len(table) - 1, name) <=> item.owner = name
    /\ (\A w \in Writers : at[w].pc # "update") =>
         \A name \in Names :
           HolderAfter(table, Len(table), name) <=> item.owner = name

LEMMA UnnamedEvent ==
  ASSUME NEW tbl, NEW n \in Nat, NEW name \in Names,
         NewOwner(tbl[n + 1]) = NoName
  PROVE  HolderAfter(tbl, n + 1, name) <=> HolderAfter(tbl, n, name)
<1>1. ASSUME HolderAfter(tbl, n, name) PROVE HolderAfter(tbl, n + 1, name)
  <2>1. PICK i \in 1 .. n : /\ NewOwner(tbl[i]) = name
                            /\ \A j \in i + 1 .. n : NewOwner(tbl[j]) = NoName
    BY <1>1 DEF HolderAfter
  <2>2. \A j \in i + 1 .. n + 1 : j \in i + 1 .. n \/ j = n + 1
    OBVIOUS
  <2>3. \A j \in i + 1 .. n + 1 : NewOwner(tbl[j]) = NoName
    BY <2>1, <2>2
  <2>4. i \in 1 .. n + 1
    OBVIOUS
  <2> QED
    BY <2>1, <2>3, <2>4 DEF HolderAfter
<1>2. ASSUME HolderAfter(tbl, n + 1, name) PROVE HolderAfter(tbl, n, name)
  <2>1. PICK i \in 1 .. n + 1 :
          /\ NewOwner(tbl[i]) = name
          /\ \A j \in i + 1 .. n + 1 : NewOwner(tbl[j]) = NoName
    BY <1>2 DEF HolderAfter
  <2>2. i # n + 1
    BY <2>1, NamesAssumption
  <2>3. i \in 1 .. n /\ \A j \in i + 1 .. n : j \in i + 1 .. n + 1
    BY <2>2
  <2> QED
    BY <2>1, <2>3 DEF HolderAfter
<1> QED
  BY <1>1, <1>2

LEMMA NamedEvent ==
  ASSUME NEW tbl, NEW n \in Nat, NEW name \in Names,
         NewOwner(tbl[n + 1]) # NoName
  PROVE  HolderAfter(tbl, n + 1, name) <=> NewOwner(tbl[n + 1]) = name
<1>1. ASSUME NewOwner(tbl[n + 1]) = name PROVE HolderAfter(tbl, n + 1, name)
  <2>1. n + 1 \in 1 .. n + 1 /\ \A j \in (n + 1) + 1 .. n + 1 : FALSE
    OBVIOUS
  <2> QED
    BY <1>1, <2>1 DEF HolderAfter
<1>2. ASSUME HolderAfter(tbl, n + 1, name) PROVE NewOwner(tbl[n + 1]) = name
  <2>1. PICK i \in 1 .. n + 1 :
          /\ NewOwner(tbl[i]) = name
          /\ \A j \in i + 1 .. n + 1 : NewOwner(tbl[j]) = NoName
    BY <1>2 DEF HolderAfter
  <2>2. i # n + 1 => n + 1 \in i + 1 .. n + 1
    OBVIOUS
  <2> QED
    BY <2>1, <2>2
<1> QED
  BY <1>1, <1>2

LEMMA SamePrefix ==
  ASSUME NEW tbl, NEW other, NEW n \in Nat, NEW name,
         \A i \in 1 .. n : tbl[i] = other[i]
  PROVE  HolderAfter(tbl, n, name) <=> HolderAfter(other, n, name)
<1>1. \A i \in 1 .. n : i + 1 .. n \subseteq 1 .. n
  OBVIOUS
<1> QED
  BY <1>1 DEF HolderAfter

LEMMA NextOwnerInv == TypeOK /\ AloneInv /\ OwnerInv /\ [Next]_vars => OwnerInv'
<1> SUFFICES ASSUME TypeOK, AloneInv, OwnerInv, [Next]_vars PROVE OwnerInv'
  OBVIOUS
<1>1. ASSUME NEW w \in Writers, NEW next, UNCHANGED <<table, item>>,
             at' = [at EXCEPT ![w] = next], next.pc # "update",
             ~ overlapped' => ~ overlapped,
             ~ skipped' => ~ skipped /\ at[w].pc # "update"
      PROVE  OwnerInv'
  <2>1. /\ at'[w].pc # "update"
        /\ \A v \in Writers : v # w => at'[v] = at[v]
    BY <1>1 DEF TypeOK
  <2> QED
    BY <1>1, <2>1 DEF OwnerInv
<1>2. ASSUME NEW w \in Writers, Insert(w) PROVE OwnerInv'
  <2> SUFFICES ASSUME ~ overlapped, ~ skipped
               PROVE  OwnerInv'
    BY <1>2 DEF Insert, OwnerInv
  <2>0. PICK n \in Nat : n = Len(table)
    BY <1>2, InsertStep
  <2>1. /\ \A i \in 1 .. n : table'[i] = table[i]
        /\ table'[n + 1] = at[w].event /\ Len(table') = n + 1 /\ table' # <<>>
    BY <1>2, <2>0, InsertStep, LenProperties
  <2>2. /\ item' = item /\ at[w].pc = "insert"
        /\ at'[w] = AfterInsert(at[w].event)
        /\ \A v \in Writers : v # w => at'[v] = at[v]
    BY <1>2 DEF Insert, TypeOK
  <2>3. \A v \in Writers : at[v].pc # "update" /\ (v # w => at'[v].pc # "update")
    BY <2>2 DEF AloneInv, UnderWay
  <2>4. \A name \in Names : HolderAfter(table', n, name) <=> item.owner = name
    <3>1. \A name \in Names : HolderAfter(table, n, name) <=> item.owner = name
      BY <2>0, <2>3 DEF OwnerInv
    <3> QED
      BY <2>1, <3>1, SamePrefix
  <2>5. CASE SetsColumns(at[w].event)
    <3>1. at'[w] = Doing("update", at[w].event)
      BY <2>2, <2>5 DEF AfterInsert
    <3>2. at'[w].pc = "update" /\ at'[w].event = at[w].event
      BY <3>1 DEF Doing
    <3>3. Len(table') - 1 = n
      BY <2>1
    <3> QED
      BY <2>1, <2>2, <2>3, <2>4, <3>2, <3>3 DEF OwnerInv
  <2>6. CASE ~ SetsColumns(at[w].event)
    <3>1. at'[w].pc # "update"
      BY <2>2, <2>6 DEF AfterInsert, Idle
    <3>2. NewOwner(table'[n + 1]) = NoName
      BY <2>1, <2>6 DEF SetsColumns
    <3>3. \A name \in Names : HolderAfter(table', n + 1, name) <=> item.owner = name
      BY <2>4, <3>2, UnnamedEvent
    <3> QED
      BY <2>1, <2>2, <2>3, <3>1, <3>3 DEF OwnerInv
  <2> QED
    BY <2>5, <2>6
<1>3. ASSUME NEW w \in Writers, Update(w) PROVE OwnerInv'
  <2> SUFFICES ASSUME ~ overlapped, ~ skipped, IsStatement(at[w].event)
               PROVE  OwnerInv'
    BY <1>3 DEF Update, OwnerInv
  <2>1. /\ at[w].pc = "update" /\ table' = table /\ at'[w].pc # "update"
        /\ \A v \in Writers : v # w => at'[v] = at[v] /\ at[v].pc # "update"
        /\ item' = Updated(item, at[w].event)
    BY <1>3 DEF Update, TypeOK, Idle, AloneInv, UnderWay
  <2>2. table # <<>> /\ table[Len(table)] = at[w].event
    BY <2>1 DEF OwnerInv
  <2>3. PICK n \in Nat : Len(table) = n + 1
    <3>1. Len(table) \in Nat /\ Len(table) # 0
      BY <2>2, EmptySeq DEF TypeOK
    <3>2. Len(table) - 1 \in Nat /\ Len(table) = (Len(table) - 1) + 1
      BY <3>1
    <3> QED
      BY <3>2
  <2>4. \A name \in Names : HolderAfter(table, n, name) <=> item.owner = name
    <3>1. Len(table) - 1 = n
      BY <2>3
    <3> QED
      BY <2>1, <3>1 DEF OwnerInv
  <2>5. \A v \in Writers : at'[v].pc # "update"
    BY <2>1
  <2>6. \A name \in Names :
          HolderAfter(table, n + 1, name) <=> item'.owner = name
    <3>1. CASE NewOwner(at[w].event) = NoName
      <4>1. item'.owner = item.owner
        BY <2>1, <3>1 DEF Updated
      <4> QED
        BY <2>2, <2>3, <2>4, <3>1, <4>1, UnnamedEvent
    <3>2. CASE NewOwner(at[w].event) # NoName
      <4>1. item'.owner = NewOwner(at[w].event)
        BY <2>1, <3>2 DEF Updated
      <4> QED
        BY <2>2, <2>3, <3>2, <4>1, NamedEvent
    <3> QED
      BY <3>1, <3>2
  <2> QED
    BY <2>1, <2>3, <2>5, <2>6 DEF OwnerInv
<1>4. ASSUME NEW w \in Writers, NEW event, Request(w, event) PROVE OwnerInv'
  <2>1. Doing("validate", event).pc # "update" /\ at[w].pc # "update"
    BY <1>4 DEF Request, Doing
  <2> QED
    BY <1>1, <1>4, <2>1 DEF Request
<1>5. ASSUME NEW w \in Writers, NEW time, EngineRequest(w, time) PROVE OwnerInv'
  <2>1. (\A event : Doing("validate", event).pc # "update") /\ at[w].pc # "update"
    BY <1>5 DEF EngineRequest, Doing
  <2> QED
    BY <1>1, <1>5, <2>1 DEF EngineRequest
<1>6. ASSUME NEW w \in Writers, Validate(w) PROVE OwnerInv'
  <2>1. Idle.pc # "update" /\ Doing("insert", at[w].event).pc # "update"
        /\ at[w].pc # "update"
    BY <1>6 DEF Validate, Idle, Doing
  <2> QED
    BY <1>1, <1>6, <2>1 DEF Validate
<1>7. ASSUME NEW w \in Writers, Abort(w) PROVE OwnerInv'
  <2>1. Idle.pc # "update"
    BY DEF Idle
  <2> QED
    BY <1>1, <1>7, <2>1 DEF Abort
<1>8. CASE UNCHANGED vars
  BY <1>8 DEF vars, OwnerInv
<1> QED
  BY <1>2, <1>3, <1>4, <1>5, <1>6, <1>7, <1>8 DEF Next

LEMMA AloneOwner ==
  ASSUME TypeOK, AloneInv, OwnerInv
  PROVE  OwnerFollowsHistory
<1> SUFFICES ASSUME ~ overlapped, ~ skipped,
                    \A w \in Writers : at[w].pc # "update",
                    NEW name \in Names
             PROVE  HolderIs(name) <=> item.owner = name
  BY DEF OwnerFollowsHistory
<1>0. PICK n \in Nat : n = Len(table)
  BY EventTimes
<1>1. /\ DOMAIN table = 1 .. n
      /\ \A k \in 1 .. n : table[k].time \in Nat
  BY <1>0, EventTimes
<1>2. \A i, j \in 1 .. n : i < j => table[i].time <= table[j].time
  BY <1>1 DEF AloneInv, Sorted
<1>3. \A i, j \in 1 .. n : Before(table, i, j) <=> i < j
  <2> SUFFICES ASSUME NEW i \in 1 .. n, NEW j \in 1 .. n
               PROVE  Before(table, i, j) <=> i < j
    OBVIOUS
  <2>1. CASE i < j
    BY <1>1, <1>2, <2>1 DEF Before
  <2>2. CASE j < i
    BY <1>1, <1>2, <2>2 DEF Before
  <2>3. CASE i = j
    BY <1>1, <2>3 DEF Before
  <2> QED
    BY <2>1, <2>2, <2>3
<1>4. \A i \in 1 .. n : \A j : j \in i + 1 .. n <=> j \in 1 .. n /\ i < j
  OBVIOUS
<1>5. HolderIs(name) <=> HolderAfter(table, n, name)
  BY <1>1, <1>3, <1>4 DEF HolderIs, HolderAfter
<1>6. HolderAfter(table, n, name) <=> item.owner = name
  BY <1>0 DEF OwnerInv
<1> QED
  BY <1>5, <1>6

(* As long as no two calls overlap and no UPDATE is left out, the owner    *)
(* column is the holder the history ends with.                             *)
THEOREM OwnerIsHolder == Spec => []OwnerFollowsHistory
<1>1. Init => TypeOK /\ AloneInv /\ OwnerInv
  <2> SUFFICES ASSUME Init PROVE AloneInv /\ OwnerInv
    BY InitTypeOK
  <2>1. AloneInv
    BY DEF Init, AloneInv, Sorted, UnderWay, Idle
  <2>2. /\ table = <<>> /\ Len(table) = 0 /\ item.owner = NoName
        /\ \A w \in Writers : at[w].pc = "idle"
    BY DEF Init, Idle
  <2>3. \A name : ~ HolderAfter(table, 0, name)
    BY DEF HolderAfter
  <2> QED
    BY <2>1, <2>2, <2>3, NamesAssumption DEF OwnerInv
<1>2. TypeOK /\ AloneInv /\ OwnerInv /\ [Next]_vars
        => TypeOK' /\ AloneInv' /\ OwnerInv'
  BY NextTypeOK, NextAloneInv, NextOwnerInv
<1>3. TypeOK /\ AloneInv /\ OwnerInv => OwnerFollowsHistory
  BY AloneOwner
<1> QED
  BY <1>1, <1>2, <1>3, PTL DEF Spec
=============================================================================
