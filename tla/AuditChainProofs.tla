-------------------------- MODULE AuditChainProofs --------------------------
(* Theorems about AuditChain, for any number of processes and events and   *)
(* any amount of damage.                                                   *)
EXTENDS AuditChain, SequenceTheorems, WellFoundedInduction, TLAPS

USE DamageAssumption, NothingAssumption, MaxDamageAssumption

-----------------------------------------------------------------------------
(* The least-number principle for a set of numbers.                        *)
LEMMA LeastNumber ==
  ASSUME NEW T \in SUBSET Nat, T # {}
  PROVE  \E x \in T : \A y \in T : x <= y
<1> DEFINE R == OpToRel(<, Nat)
<1>1. IsWellFoundedOn(R, Nat)
  BY NatLessThanWellFounded
<1>2. \A x, y \in Nat : y < x => <<y, x>> \in R
  BY DEF OpToRel
<1> HIDE DEF R
<1>3. PICK x \in T : \A y \in T : ~ (<<y, x>> \in R)
  BY <1>1, WFMin
<1>4. T \subseteq Nat
  OBVIOUS
<1>5. \A y \in T : ~ (y < x)
  BY <1>2, <1>3, <1>4, Zenon
<1> QED
  BY <1>4, <1>5

(* The hash of a list of events chained from the genesis value.            *)
ChainedHash(events, n) == [i \in 1 .. n |-> [seq |-> i, event |-> events[i]]]

LEMMA HashType ==
  ASSUME NEW seq \in Seqs, NEW event \in Events, NEW prev \in Hashes
  PROVE  Hash(seq, event, prev) \in Hashes
BY DEF Hash, Hashes, Payload

LEMMA NewRowType ==
  ASSUME NEW seq \in Seqs, NEW event \in Events, NEW prev \in Hashes
  PROVE  NewRow(seq, event, prev) \in Row
BY HashType DEF NewRow, Row, Entry

LEMMA ChainedHashStep ==
  ASSUME NEW n \in Seqs, NEW events,
         \A i \in 1 .. n : events[i] \in Events
  PROVE  Hash(n, events[n], ChainedHash(events, n - 1)) = ChainedHash(events, n)
<1> DEFINE h == ChainedHash(events, n - 1)
           e == [seq |-> n, event |-> events[n]]
<1>1. h \in Hashes /\ Len(h) = n - 1
  BY DEF ChainedHash, Hashes, Payload, Seqs
<1>2. e \in Payload
  BY DEF Payload, Seqs
<1>3. /\ Append(h, e) \in Seq(Payload) /\ Len(Append(h, e)) = n
      /\ \A i \in 1 .. n - 1 : Append(h, e)[i] = h[i]
      /\ Append(h, e)[n] = e
  BY <1>1, <1>2, AppendProperties DEF Hashes, Seqs
<1>4. Append(h, e) = [i \in 1 .. n |-> Append(h, e)[i]]
  BY <1>3
<1>5. \A i \in 1 .. n : Append(h, e)[i] = [seq |-> i, event |-> events[i]]
  BY <1>3 DEF ChainedHash, Seqs
<1> QED
  BY <1>4, <1>5 DEF Hash, ChainedHash

(* What a chain that verifies is: its keys have no gap and the hash of an  *)
(* entry is the chained hash of the events up to it.  By the least key for *)
(* which this fails.                                                       *)
RowEvents == [s \in DOMAIN rows |-> rows[s].entry.event]

LEMMA VerifiedHash ==
  ASSUME TypeOK, VerifyEntries, NEW s \in DOMAIN rows
  PROVE  1 .. s \subseteq DOMAIN rows
         /\ rows[s].entry.hash = ChainedHash(RowEvents, s)
<1> DEFINE Good(r) == 1 .. r \subseteq DOMAIN rows
                      /\ rows[r].entry.hash = ChainedHash(RowEvents, r)
           T == {r \in DOMAIN rows : ~ Good(r)}
<1>1. DOMAIN rows \subseteq Seqs /\ Seqs \subseteq Nat
  BY DEF TypeOK, Seqs
<1>2. ASSUME T # {} PROVE FALSE
  <2>1. PICK x \in T : \A y \in T : x <= y
    <3>1. T \in SUBSET Nat
      BY <1>1
    <3> HIDE DEF T
    <3> QED
      BY <1>2, <3>1, LeastNumber
  <2>2. x \in DOMAIN rows /\ x \in Nat /\ x >= 1
    BY <1>1 DEF Seqs
  <2>3. /\ rows[x].entry.seq = x
        /\ Linked(x)
        /\ rows[x].entry.hash = Hash(x, rows[x].entry.event, rows[x].entry.prev)
    BY <2>2 DEF VerifyEntries
  <2>4. 1 .. x \subseteq DOMAIN rows
        /\ rows[x].entry.prev = ChainedHash(RowEvents, x - 1)
    <3>1. CASE x = 1
      <4>1. ChainedHash(RowEvents, 0) = Genesis
        BY DEF ChainedHash, Genesis
      <4> QED
        BY <2>2, <2>3, <3>1, <4>1 DEF Linked
    <3>2. CASE x # 1
      <4>1. x - 1 \in DOMAIN rows
            /\ rows[x].entry.prev = rows[x - 1].entry.hash
        BY <2>3, <3>2 DEF Linked
      <4>2. Good(x - 1)
        BY <2>1, <2>2, <4>1
      <4> QED
        BY <2>2, <4>1, <4>2
    <3> QED
      BY <3>1, <3>2
  <2>5. \A i \in 1 .. x : RowEvents[i] \in Events
    BY <2>4 DEF RowEvents, TypeOK, Row, Entry
  <2>6. Hash(x, RowEvents[x], ChainedHash(RowEvents, x - 1))
          = ChainedHash(RowEvents, x)
    BY <2>2, <2>5, ChainedHashStep DEF Seqs
  <2>7. RowEvents[x] = rows[x].entry.event
    BY <2>2 DEF RowEvents
  <2>8. Good(x)
    BY <2>3, <2>4, <2>6, <2>7
  <2> QED
    BY <2>8
<1> QED
  BY <1>2

LEMMA EventsUpToType ==
  ASSUME TypeOK, VerifyEntries, NEW s \in DOMAIN rows
  PROVE  EventsUpTo(s) \in Seq(Events) /\ EventsUpTo(s) \in [1 .. s -> Events]
<1>1. 1 .. s \subseteq DOMAIN rows /\ s \in Nat
  BY VerifiedHash DEF TypeOK, Seqs
<1>2. EventsUpTo(s) \in [1 .. s -> Events]
  BY <1>1 DEF EventsUpTo, TypeOK, Row, Entry
<1> QED
  BY <1>1, <1>2

-----------------------------------------------------------------------------
(* Type correctness.                                                       *)

LEMMA InitTypeOK == Init => TypeOK
BY DEF Init, TypeOK, Idle, Seqs, Hashes, Genesis

(* What one insert that succeeds does to the table.                        *)
LEMMA InsertStep ==
  ASSUME TypeOK, NEW w \in Writers, Insert(w), at[w].seq \notin DOMAIN rows
  PROVE  /\ DOMAIN rows' = DOMAIN rows \cup {at[w].seq}
         /\ rows'[at[w].seq] = NewRow(at[w].seq, at[w].event, at[w].prev)
         /\ \A s \in DOMAIN rows : rows'[s] = rows[s]
         /\ NewRow(at[w].seq, at[w].event, at[w].prev) \in Row
         /\ top' = IF at[w].seq > top THEN at[w].seq ELSE top
<1>1. NewRow(at[w].seq, at[w].event, at[w].prev) \in Row
  BY NewRowType DEF Insert, TypeOK
<1> QED
  BY <1>1 DEF Insert

LEMMA NextTypeOK == TypeOK /\ [Next]_vars => TypeOK'
<1> SUFFICES ASSUME TypeOK, [Next]_vars PROVE TypeOK'
  OBVIOUS
<1>0. 1 \in Seqs /\ Genesis \in Hashes
  BY DEF Seqs, Hashes, Genesis
<1>1. Idle \in [pc : {"idle", "insert"}, event : Events \cup {Nothing},
               seq : Seqs, prev : Hashes]
  BY DEF Idle, Seqs, Hashes, Genesis
<1>2. ASSUME NEW w \in Writers, NEW event \in Events, ReadHead(w, event)
      PROVE  TypeOK'
  <2> DEFINE step(s, prev) == [pc |-> "insert", event |-> event,
                              seq |-> s, prev |-> prev]
  <2>1. \E s \in Seqs, prev \in Hashes : at' = [at EXCEPT ![w] = step(s, prev)]
    <3>1. CASE at' = [at EXCEPT ![w] = step(1, Genesis)]
      BY <1>0, <3>1
    <3>2. ASSUME NEW s \in DOMAIN rows,
                 at' = [at EXCEPT ![w] = step(s + 1, rows[s].hash)]
          PROVE  \E r \in Seqs, prev \in Hashes :
                   at' = [at EXCEPT ![w] = step(r, prev)]
      <4>1. s + 1 \in Seqs /\ rows[s].hash \in Hashes
        BY DEF TypeOK, Row, Seqs
      <4> QED
        BY <3>2, <4>1
    <3> QED
      BY <1>2, <3>1, <3>2 DEF ReadHead
  <2>2. PICK s \in Seqs, prev \in Hashes : at' = [at EXCEPT ![w] = step(s, prev)]
    BY <2>1
  <2>3. UNCHANGED <<rows, returned, anchors, top, damaged>>
    BY <1>2 DEF ReadHead
  <2> QED
    BY <2>2, <2>3 DEF TypeOK
<1>3. ASSUME NEW w \in Writers, Insert(w) PROVE TypeOK'
  <2>1. /\ at' = [at EXCEPT ![w] = Idle] /\ at[w].event \in Events
        /\ returned' \in {returned, returned \cup {at[w].event}}
        /\ UNCHANGED <<anchors, damaged>>
    BY <1>3 DEF Insert, TypeOK
  <2>2. CASE UNCHANGED <<rows, top>>
    BY <1>1, <2>1, <2>2 DEF TypeOK, Idle
  <2>3. CASE at[w].seq \notin DOMAIN rows
    <3>1. at[w].seq \in Seqs
      BY DEF TypeOK
    <3>2. rows' \in [DOMAIN rows' -> Row] /\ DOMAIN rows' \subseteq Seqs
      <4>1. /\ DOMAIN rows' = DOMAIN rows \cup {at[w].seq}
            /\ rows'[at[w].seq] \in Row
            /\ \A s \in DOMAIN rows : rows'[s] = rows[s]
        BY <1>3, <2>3, InsertStep
      <4>2. \A s \in DOMAIN rows : rows[s] \in Row
        BY DEF TypeOK
      <4>3. \A s \in DOMAIN rows' : rows'[s] \in Row
        BY <4>1, <4>2
      <4>4. rows' = [s \in DOMAIN rows' |-> rows'[s]]
        BY <1>3, <2>3 DEF Insert
      <4>5. DOMAIN rows' \subseteq Seqs
        BY <3>1, <4>1 DEF TypeOK
      <4> QED
        BY <4>3, <4>4, <4>5
    <3>3. top' \in Nat
      BY <1>3, <2>3, <3>1, InsertStep DEF TypeOK, Seqs
    <3> QED
      BY <1>1, <2>1, <3>2, <3>3 DEF TypeOK, Idle
  <2> QED
    BY <1>3, <2>2, <2>3 DEF Insert
<1>4. CASE ExportAnchor
  <2>1. PICK s \in DOMAIN rows :
          anchors' = anchors \cup
            {[seq |-> rows[s].entry.seq, hash |-> rows[s].entry.hash,
              log |-> IF VerifyEntries THEN EventsUpTo(s) ELSE <<>>,
              sound |-> VerifyEntries]}
    BY <1>4 DEF ExportAnchor
  <2>2. rows[s].entry.seq \in Seqs /\ rows[s].entry.hash \in Hashes
    BY DEF TypeOK, Row, Entry
  <2>3. (IF VerifyEntries THEN EventsUpTo(s) ELSE <<>>) \in Seq(Events)
    BY EventsUpToType
  <2>4. VerifyEntries \in BOOLEAN
    BY DEF VerifyEntries
  <2>5. [seq |-> rows[s].entry.seq, hash |-> rows[s].entry.hash,
         log |-> IF VerifyEntries THEN EventsUpTo(s) ELSE <<>>,
         sound |-> VerifyEntries]
          \in [seq : Seqs, hash : Hashes, log : Seq(Events), sound : BOOLEAN]
    BY <2>2, <2>3, <2>4
  <2>6. anchors' \subseteq [seq : Seqs, hash : Hashes, log : Seq(Events),
                           sound : BOOLEAN]
    BY <2>1, <2>5 DEF TypeOK
  <2> QED
    BY <1>4, <2>6 DEF ExportAnchor, TypeOK
<1>5. CASE Damaging
  <2>1. damaged' \in 0 .. MaxDamage
    BY <1>5 DEF Damaging, TypeOK
  <2>2. CASE AlterEntry
    <3>1. PICK s \in DOMAIN rows, event \in Events :
            rows' = [rows EXCEPT ![s].entry.event = event]
      BY <2>2 DEF AlterEntry
    <3>2. rows' \in [DOMAIN rows -> Row] /\ DOMAIN rows' = DOMAIN rows
      BY <3>1 DEF TypeOK, Row, Entry
    <3> QED
      BY <2>1, <2>2, <3>2 DEF AlterEntry, TypeOK
  <2>3. CASE AlterColumn
    <3>1. PICK s \in DOMAIN rows : rows' = [rows EXCEPT ![s].hash = Genesis]
      BY <2>3 DEF AlterColumn
    <3>2. [rows[s] EXCEPT !.hash = Genesis] \in Row
      BY <1>0 DEF TypeOK, Row
    <3>3. rows' \in [DOMAIN rows -> Row] /\ DOMAIN rows' = DOMAIN rows
      BY <3>1, <3>2 DEF TypeOK
    <3> QED
      BY <2>1, <2>3, <3>3 DEF AlterColumn, TypeOK
  <2>4. CASE DropRow
    BY <2>1, <2>4 DEF DropRow, TypeOK
  <2> QED
    BY <1>5, <2>2, <2>3, <2>4 DEF Damaging
<1>6. CASE UNCHANGED vars
  BY <1>6 DEF vars, TypeOK
<1> QED
  BY <1>2, <1>3, <1>4, <1>5, <1>6 DEF Next

(* The table, the processes and the checkpoints keep their types.          *)
THEOREM TypeCorrect == Spec => []TypeOK
<1>1. Init => TypeOK
  BY InitTypeOK
<1>2. TypeOK /\ [Next]_vars => TypeOK'
  BY NextTypeOK
<1> QED
  BY <1>1, <1>2, PTL DEF Spec

-----------------------------------------------------------------------------
(* Interleaved appends.  A process that has read the head either still     *)
(* extends it, or will find its key taken.                                 *)
ChainInv ==
  damaged = 0 =>
    /\ DOMAIN rows = 1 .. top
    /\ VerifyEntries
    /\ \A s \in DOMAIN rows : rows[s].hash = rows[s].entry.hash
    /\ \A w \in Writers : at[w].pc = "insert" =>
         /\ at[w].seq <= top + 1
         /\ at[w].seq = top + 1 =>
              at[w].prev = IF top = 0 THEN Genesis ELSE rows[top].entry.hash
    /\ \A anchor \in anchors : VerifyAnchor(anchor)

LEMMA InitChainInv == Init => ChainInv
BY DEF Init, ChainInv, VerifyEntries, Idle

LEMMA NextChainInv == TypeOK /\ ChainInv /\ [Next]_vars => ChainInv'
<1> SUFFICES ASSUME TypeOK, ChainInv, [Next]_vars, damaged' = 0
             PROVE  ChainInv'
  BY DEF ChainInv
<1>1. CASE Damaging
  BY <1>1 DEF Damaging, TypeOK
<1>3. ASSUME NEW w \in Writers, NEW event \in Events, ReadHead(w, event)
      PROVE  ChainInv'
  <2>1. UNCHANGED <<rows, returned, anchors, top, damaged>> /\ damaged = 0
    BY <1>3 DEF ReadHead
  <2>2. /\ DOMAIN rows = 1 .. top /\ top \in Nat
        /\ \A s \in DOMAIN rows : rows[s].hash = rows[s].entry.hash
        /\ VerifyEntries
        /\ \A anchor \in anchors : VerifyAnchor(anchor)
    BY <2>1 DEF ChainInv, TypeOK
  <2>3. at' = [at EXCEPT ![w] = [pc |-> "insert", event |-> event,
                 seq |-> top + 1,
                 prev |-> IF top = 0 THEN Genesis ELSE rows[top].entry.hash]]
    <3>1. CASE DOMAIN rows = {}
      <4>1. top = 0
        BY <2>2, <3>1
      <4> QED
        BY <1>3, <3>1, <4>1 DEF ReadHead
    <3>2. ASSUME NEW s \in DOMAIN rows, IsLast(s),
                 at' = [at EXCEPT ![w] = [pc |-> "insert", event |-> event,
                          seq |-> s + 1, prev |-> rows[s].hash]]
          PROVE  at' = [at EXCEPT ![w] = [pc |-> "insert", event |-> event,
                          seq |-> top + 1,
                          prev |-> IF top = 0 THEN Genesis
                                   ELSE rows[top].entry.hash]]
      <4>1. s = top /\ top # 0
        BY <2>2, <3>2 DEF IsLast
      <4>2. rows[s].hash = rows[top].entry.hash
        BY <2>2, <4>1
      <4> QED
        BY <3>2, <4>1, <4>2
    <3> QED
      BY <1>3, <3>1, <3>2 DEF ReadHead
  <2>4. \A v \in Writers : at'[v].pc = "insert" =>
          /\ at'[v].seq <= top + 1
          /\ at'[v].seq = top + 1 =>
               at'[v].prev = IF top = 0 THEN Genesis ELSE rows[top].entry.hash
    <3> SUFFICES ASSUME NEW v \in Writers, at'[v].pc = "insert"
                 PROVE  /\ at'[v].seq <= top + 1
                        /\ at'[v].seq = top + 1 =>
                             at'[v].prev = IF top = 0 THEN Genesis
                                           ELSE rows[top].entry.hash
      OBVIOUS
    <3>1. CASE v = w
      BY <2>2, <2>3, <3>1 DEF TypeOK
    <3>2. CASE v # w
      <4>1. at'[v] = at[v]
        BY <2>3, <3>2 DEF TypeOK
      <4> QED
        BY <2>1, <4>1 DEF ChainInv
    <3> QED
      BY <3>1, <3>2
  <2> QED
    BY <2>1, <2>2, <2>4 DEF ChainInv, VerifyEntries, Linked, VerifyAnchor
<1>4. ASSUME NEW w \in Writers, Insert(w) PROVE ChainInv'
  <2>1. /\ damaged = 0 /\ anchors' = anchors
        /\ at' = [at EXCEPT ![w] = Idle] /\ at[w].pc = "insert"
    BY <1>4 DEF Insert
  <2>2. /\ DOMAIN rows = 1 .. top /\ top \in Nat
        /\ \A s \in DOMAIN rows : rows[s].hash = rows[s].entry.hash
        /\ VerifyEntries
        /\ \A anchor \in anchors : VerifyAnchor(anchor)
    BY <2>1 DEF ChainInv, TypeOK
  <2>3. \A v \in Writers : at'[v].pc = "insert" => v # w /\ at'[v] = at[v]
    BY <2>1 DEF TypeOK, Idle
  <2>4. CASE UNCHANGED <<rows, top>>
    BY <2>1, <2>2, <2>3, <2>4
    DEF ChainInv, VerifyEntries, Linked, VerifyAnchor
  <2>5. CASE at[w].seq \notin DOMAIN rows
    <3>0. PICK n \in Seqs : n = top + 1
      BY <2>2 DEF Seqs
    <3> DEFINE new == NewRow(n, at[w].event, at[w].prev)
    <3>1. at[w].seq = n /\ at[w].prev = IF top = 0 THEN Genesis
                                        ELSE rows[top].entry.hash
      <4>1. at[w].seq \in Nat /\ at[w].seq >= 1 /\ at[w].seq <= top + 1
        BY <2>1 DEF ChainInv, TypeOK, Seqs
      <4>2. at[w].seq = n
        BY <2>2, <2>5, <3>0, <4>1
      <4> QED
        BY <2>1, <3>0, <4>2 DEF ChainInv
    <3>2. /\ DOMAIN rows' = DOMAIN rows \cup {n} /\ rows'[n] = new
          /\ \A s \in DOMAIN rows : rows'[s] = rows[s]
          /\ top' = n
      <4>1. /\ DOMAIN rows' = DOMAIN rows \cup {at[w].seq}
            /\ rows'[at[w].seq] = NewRow(at[w].seq, at[w].event, at[w].prev)
            /\ \A s \in DOMAIN rows : rows'[s] = rows[s]
            /\ top' = IF at[w].seq > top THEN at[w].seq ELSE top
        BY <1>4, <2>5, InsertStep
      <4>2. n > top
        BY <2>2, <3>0
      <4>3. at[w].seq = n
        BY <3>1
      <4> QED
        BY <4>1, <4>2, <4>3
    <3>3. /\ new.hash = new.entry.hash /\ new.entry.seq = n
          /\ new.entry.prev = at[w].prev
          /\ new.entry.hash = Hash(n, new.entry.event, new.entry.prev)
      BY DEF NewRow
    <3> HIDE DEF new
    <3>4. n = top + 1 /\ n \notin DOMAIN rows
      BY <2>2, <3>0
    <3>5. DOMAIN rows' = 1 .. n
      BY <2>2, <3>2, <3>4
    <3>6. \A s \in DOMAIN rows' : rows'[s].hash = rows'[s].entry.hash
      BY <2>2, <3>2, <3>3
    <3>7. VerifyEntries'
      <4>1. ASSUME NEW s \in DOMAIN rows
            PROVE  /\ rows'[s].entry.seq = s
                   /\ Linked(s)'
                   /\ rows'[s].entry.hash =
                        Hash(s, rows'[s].entry.event, rows'[s].entry.prev)
        <5>1. /\ rows[s].entry.seq = s
              /\ Linked(s)
              /\ rows[s].entry.hash =
                   Hash(s, rows[s].entry.event, rows[s].entry.prev)
          BY <2>2 DEF VerifyEntries
        <5>2. Linked(s)'
          BY <3>2, <5>1 DEF Linked
        <5> QED
          BY <3>2, <5>1, <5>2
      <4>2. Linked(n)'
        <5>1. CASE top = 0
          <6>1. n = 1
            BY <3>4, <5>1
          <6>2. rows'[1].entry.prev = Genesis
            BY <3>1, <3>2, <3>3, <5>1, <6>1
          <6>3. Linked(1)'
            BY <6>2 DEF Linked
          <6> QED
            BY <6>1, <6>3
        <5>2. CASE top # 0
          <6>1. n # 1 /\ n - 1 = top /\ top \in DOMAIN rows
            BY <2>2, <3>4, <5>2
          <6>2. rows'[n].entry.prev = rows'[n - 1].entry.hash
            BY <3>1, <3>2, <3>3, <5>2, <6>1
          <6>3. n - 1 \in DOMAIN rows'
            BY <3>2, <6>1
          <6> QED
            BY <6>1, <6>2, <6>3 DEF Linked
        <5> QED
          BY <5>1, <5>2
      <4>3. ASSUME NEW s \in DOMAIN rows'
            PROVE  /\ rows'[s].entry.seq = s
                   /\ Linked(s)'
                   /\ rows'[s].entry.hash =
                        Hash(s, rows'[s].entry.event, rows'[s].entry.prev)
        <5>1. CASE s \in DOMAIN rows
          BY <4>1, <5>1
        <5>2. CASE s = n
          <6>1. /\ rows'[n].entry.seq = n
                /\ rows'[n].entry.hash =
                     Hash(n, rows'[n].entry.event, rows'[n].entry.prev)
            BY <3>2, <3>3
          <6> QED
            BY <4>2, <5>2, <6>1
        <5> QED
          BY <3>2, <5>1, <5>2
      <4> QED
        BY <4>3 DEF VerifyEntries
    <3>8. \A anchor \in anchors' : VerifyAnchor(anchor)'
      BY <2>1, <2>2, <3>2 DEF VerifyAnchor
    <3>9. ASSUME NEW v \in Writers, at'[v].pc = "insert"
          PROVE  at'[v].seq <= top' + 1 /\ at'[v].seq # top' + 1
      <4>1. at'[v] = at[v] /\ at[v].seq <= top + 1 /\ at[v].seq \in Nat
        BY <2>1, <2>3, <3>9 DEF ChainInv, TypeOK, Seqs
      <4> QED
        BY <2>2, <3>2, <3>4, <4>1
    <3> QED
      BY <3>2, <3>5, <3>6, <3>7, <3>8, <3>9 DEF ChainInv
  <2> QED
    BY <1>4, <2>4, <2>5 DEF Insert
<1>5. CASE ExportAnchor
  <2>1. /\ damaged = 0 /\ UNCHANGED <<rows, at, top>>
    BY <1>5 DEF ExportAnchor
  <2>2. PICK s \in DOMAIN rows :
          anchors' = anchors \cup
            {[seq |-> rows[s].entry.seq, hash |-> rows[s].entry.hash,
              log |-> IF VerifyEntries THEN EventsUpTo(s) ELSE <<>>,
              sound |-> VerifyEntries]}
    BY <1>5 DEF ExportAnchor
  <2>3. VerifyEntries /\ \A anchor \in anchors : VerifyAnchor(anchor)
    BY <2>1 DEF ChainInv
  <2>4. rows[s].entry.seq = s
    BY <2>3 DEF VerifyEntries
  <2>5. \A anchor \in anchors' : VerifyAnchor(anchor)
    BY <2>2, <2>3, <2>4 DEF VerifyAnchor
  <2> QED
    BY <2>1, <2>5 DEF ChainInv, VerifyEntries, Linked, VerifyAnchor
<1>6. CASE UNCHANGED vars
  BY <1>6 DEF vars, ChainInv, VerifyEntries, Linked, VerifyAnchor
<1> QED
  BY <1>1, <1>3, <1>4, <1>5, <1>6 DEF Next

LEMMA ChainInvHolds == Spec => []ChainInv
<1>1. Init => TypeOK /\ ChainInv
  BY InitTypeOK, InitChainInv
<1>2. TypeOK /\ ChainInv /\ [Next]_vars => TypeOK' /\ ChainInv'
  BY NextTypeOK, NextChainInv
<1> QED
  BY <1>1, <1>2, PTL DEF Spec

(* However many processes append at once, and whatever entries the race    *)
(* loses, the stored chain verifies.                                       *)
THEOREM ConcurrentAppendsKeepChain == Spec => []ChainIntact
<1>1. ChainInv => ChainIntact
  BY DEF ChainInv, ChainIntact
<1> QED
  BY <1>1, ChainInvHolds, PTL

(* Every checkpoint ever exported from the chain agrees with it.           *)
THEOREM CheckpointsAgree == Spec => []AnchorsHold
<1>1. ChainInv => AnchorsHold
  BY DEF ChainInv, AnchorsHold
<1> QED
  BY <1>1, ChainInvHolds, PTL

-----------------------------------------------------------------------------
(* Damage.  What the hash of a checkpoint taken from a chain that verified *)
(* stands for.                                                             *)
AnchorInv ==
  \A anchor \in anchors : anchor.sound =>
    /\ anchor.log \in [1 .. anchor.seq -> Events]
    /\ anchor.hash = ChainedHash(anchor.log, anchor.seq)

LEMMA ExportedAnchor ==
  ASSUME TypeOK, VerifyEntries, NEW s \in DOMAIN rows
  PROVE  /\ EventsUpTo(s) \in [1 .. s -> Events]
         /\ rows[s].entry.hash = ChainedHash(EventsUpTo(s), s)
<1>1. 1 .. s \subseteq DOMAIN rows
      /\ rows[s].entry.hash = ChainedHash(RowEvents, s)
  BY VerifiedHash
<1>2. \A i \in 1 .. s : EventsUpTo(s)[i] = RowEvents[i]
  BY <1>1 DEF EventsUpTo, RowEvents
<1>3. ChainedHash(EventsUpTo(s), s) = ChainedHash(RowEvents, s)
  BY <1>2 DEF ChainedHash
<1> QED
  BY <1>1, <1>3, EventsUpToType

LEMMA NextAnchorInv == TypeOK /\ AnchorInv /\ [Next]_vars => AnchorInv'
<1> SUFFICES ASSUME TypeOK, AnchorInv, [Next]_vars PROVE AnchorInv'
  OBVIOUS
<1>1. CASE ExportAnchor
  <2>1. PICK s \in DOMAIN rows :
          anchors' = anchors \cup
            {[seq |-> rows[s].entry.seq, hash |-> rows[s].entry.hash,
              log |-> IF VerifyEntries THEN EventsUpTo(s) ELSE <<>>,
              sound |-> VerifyEntries]}
    BY <1>1 DEF ExportAnchor
  <2>2. CASE VerifyEntries
    <3>1. rows[s].entry.seq = s
      BY <2>2 DEF VerifyEntries
    <3>2. /\ EventsUpTo(s) \in [1 .. s -> Events]
          /\ rows[s].entry.hash = ChainedHash(EventsUpTo(s), s)
      BY <2>2, ExportedAnchor
    <3> QED
      BY <2>1, <2>2, <3>1, <3>2 DEF AnchorInv
  <2>3. CASE ~ VerifyEntries
    BY <2>1, <2>3 DEF AnchorInv
  <2> QED
    BY <2>2, <2>3
<1>2. CASE anchors' = anchors
  BY <1>2 DEF AnchorInv
<1>3. ~ ExportAnchor => anchors' = anchors
  BY DEF Next, ReadHead, Insert, Damaging, AlterEntry, AlterColumn, DropRow, vars
<1> QED
  BY <1>1, <1>2, <1>3

LEMMA AnchoredEvents == TypeOK /\ AnchorInv => TamperEvident
<1> SUFFICES ASSUME TypeOK, AnchorInv, VerifyEntries, NEW anchor \in anchors,
                    anchor.sound, VerifyAnchor(anchor)
             PROVE  EventsUpTo(anchor.seq) = anchor.log
  BY DEF TamperEvident
<1> DEFINE n == anchor.seq
<1>1. /\ n \in DOMAIN rows
      /\ anchor.log \in [1 .. n -> Events]
      /\ rows[n].entry.hash = ChainedHash(anchor.log, n)
  BY DEF VerifyAnchor, AnchorInv
<1>2. /\ EventsUpTo(n) \in [1 .. n -> Events]
      /\ rows[n].entry.hash = ChainedHash(EventsUpTo(n), n)
  BY <1>1, ExportedAnchor
<1> HIDE DEF n
<1>3. \A i \in 1 .. n : EventsUpTo(n)[i] = anchor.log[i]
  <2> SUFFICES ASSUME NEW i \in 1 .. n PROVE EventsUpTo(n)[i] = anchor.log[i]
    OBVIOUS
  <2>1. ChainedHash(EventsUpTo(n), n)[i] = ChainedHash(anchor.log, n)[i]
    BY <1>1, <1>2
  <2> QED
    BY <2>1 DEF ChainedHash
<1>4. /\ EventsUpTo(n) = [i \in 1 .. n |-> EventsUpTo(n)[i]]
      /\ anchor.log = [i \in 1 .. n |-> anchor.log[i]]
  BY <1>1, <1>2
<1>5. EventsUpTo(n) = anchor.log
  BY <1>3, <1>4, Zenon
<1> QED
  BY <1>5 DEF n

(* Whatever is done to the stored table, if it verifies and agrees with a  *)
(* checkpoint taken from a chain that verified, then up to the checkpoint  *)
(* it holds exactly the events it held when the checkpoint was taken.      *)
THEOREM AnchorsExposeTampering == Spec => []TamperEvident
<1>1. Init => TypeOK /\ AnchorInv
  BY InitTypeOK DEF Init, AnchorInv
<1>2. TypeOK /\ AnchorInv /\ [Next]_vars => TypeOK' /\ AnchorInv'
  BY NextTypeOK, NextAnchorInv
<1>3. TypeOK /\ AnchorInv => TamperEvident
  BY AnchoredEvents
<1> QED
  BY <1>1, <1>2, <1>3, PTL DEF Spec

-----------------------------------------------------------------------------
(* Until it is damaged the table is a ledger.  An event is written only    *)
(* before its append returns, and only by the process that carries it.     *)
EventInv ==
  damaged = 0 =>
    /\ \A s \in DOMAIN rows : rows[s].entry.event \in returned
    /\ \A w \in Writers : at[w].pc = "insert" => at[w].event \notin returned
    /\ \A v, w \in Writers :
         v # w /\ at[v].pc = "insert" => at[v].event # at[w].event

LEMMA NextEventInv ==
  ASSUME TypeOK, EventInv, [Next]_vars
  PROVE  EventInv'
<1> SUFFICES ASSUME damaged' = 0 PROVE EventInv'
  BY DEF EventInv
<1>4. ~ Damaging /\ damaged = 0
  <2>1. ASSUME Damaging PROVE FALSE
    BY <2>1 DEF Damaging, TypeOK
  <2> QED
    BY <2>1 DEF Next, ReadHead, Insert, ExportAnchor, vars
<1>1. ASSUME NEW w \in Writers, NEW event \in Events, ReadHead(w, event)
      PROVE  EventInv'
  <2>1. /\ UNCHANGED <<rows, returned>>
        /\ event \notin returned /\ \A v \in Writers : at[v].event # event
        /\ at'[w].event = event
        /\ \A v \in Writers : v # w => at'[v] = at[v]
    BY <1>1 DEF ReadHead, TypeOK
  <2> QED
    BY <1>4, <2>1 DEF EventInv
<1>2. ASSUME NEW w \in Writers, Insert(w) PROVE EventInv'
  <2>1. /\ returned' \in {returned, returned \cup {at[w].event}}
        /\ at'[w] = Idle /\ \A v \in Writers : v # w => at'[v] = at[v]
        /\ at[w].pc = "insert" /\ at[w].event \in Events
    BY <1>2 DEF Insert, TypeOK
  <2>2. \A s \in DOMAIN rows' : rows'[s].entry.event \in returned'
    <3>1. CASE UNCHANGED <<rows, top>>
      BY <1>4, <2>1, <3>1 DEF EventInv
    <3>2. CASE at[w].seq \notin DOMAIN rows
      <4>1. /\ DOMAIN rows' = DOMAIN rows \cup {at[w].seq}
            /\ rows'[at[w].seq] = NewRow(at[w].seq, at[w].event, at[w].prev)
            /\ \A s \in DOMAIN rows : rows'[s] = rows[s]
        BY <1>2, <3>2, InsertStep
      <4>2. rows'[at[w].seq].entry.event = at[w].event
        BY <4>1 DEF NewRow
      <4>3. returned' = returned \cup {at[w].event}
        BY <1>2, <3>2 DEF Insert
      <4> QED
        BY <1>4, <2>1, <4>1, <4>2, <4>3 DEF EventInv
    <3> QED
      BY <1>2, <3>1, <3>2 DEF Insert
  <2>3. \A v \in Writers : at'[v].pc = "insert" =>
          v # w /\ at[v].pc = "insert" /\ at'[v] = at[v]
    BY <2>1 DEF Idle
  <2>4. \A v \in Writers : at'[v].pc = "insert" => at'[v].event \notin returned'
    BY <1>4, <2>1, <2>3 DEF EventInv
  <2>5. \A u, v \in Writers :
          u # v /\ at'[u].pc = "insert" => at'[u].event # at'[v].event
    <3> SUFFICES ASSUME NEW u \in Writers, NEW v \in Writers,
                        u # v, at'[u].pc = "insert"
                 PROVE  at'[u].event # at'[v].event
      OBVIOUS
    <3>1. CASE v = w
      BY <2>1, <2>3, <3>1 DEF Idle, TypeOK
    <3>2. CASE v # w
      BY <1>4, <2>1, <2>3, <3>2 DEF EventInv
    <3> QED
      BY <3>1, <3>2
  <2> QED
    BY <2>1, <2>2, <2>4, <2>5 DEF EventInv
<1>3. CASE ExportAnchor
  BY <1>3, <1>4 DEF ExportAnchor, EventInv
<1>5. CASE UNCHANGED vars
  BY <1>4, <1>5 DEF vars, EventInv
<1> QED
  BY <1>1, <1>2, <1>3, <1>4, <1>5 DEF Next

LEMMA EventsUpToTop ==
  ASSUME TypeOK, DOMAIN rows = 1 .. top
  PROVE  /\ EventsUpTo(top) \in Seq(Events)
         /\ Len(EventsUpTo(top)) = top
         /\ \A s \in 1 .. top : EventsUpTo(top)[s] = rows[s].entry.event
<1>1. EventsUpTo(top) \in [1 .. top -> Events] /\ top \in Nat
  BY DEF EventsUpTo, TypeOK, Row, Entry
<1>2. \A s \in 1 .. top : EventsUpTo(top)[s] = rows[s].entry.event
  BY DEF EventsUpTo
<1> QED
  BY <1>1, <1>2

(* A step of the table records one event or none.                          *)
LEMMA StepRecords ==
  ASSUME TypeOK, TypeOK', ChainInv, ChainInv', EventInv, EventInv', [Next]_vars,
         damaged' = 0
  PROVE  Ledger!Next \/ UNCHANGED EventsUpTo(top)
<1>6. ~ Damaging /\ damaged = 0
  <2>1. ASSUME Damaging PROVE FALSE
    BY <2>1 DEF Damaging, TypeOK
  <2> QED
    BY <2>1 DEF Next, ReadHead, Insert, ExportAnchor, vars
<1>1. /\ DOMAIN rows = 1 .. top /\ top \in Nat
      /\ DOMAIN rows' = 1 .. top' /\ top' \in Nat
  BY <1>6 DEF ChainInv, TypeOK
<1>2. ASSUME UNCHANGED <<rows, top>> PROVE UNCHANGED EventsUpTo(top)
  BY <1>2 DEF EventsUpTo
<1>3. ASSUME NEW w \in Writers, Insert(w), at[w].seq \notin DOMAIN rows
      PROVE  Ledger!Next
  <2>1. /\ DOMAIN rows' = DOMAIN rows \cup {at[w].seq}
        /\ rows'[at[w].seq] = NewRow(at[w].seq, at[w].event, at[w].prev)
        /\ \A s \in DOMAIN rows : rows'[s] = rows[s]
    BY <1>3, InsertStep
  <2>2. at[w].seq = top + 1 /\ top' = top + 1
    <3>1. top' \in 1 .. top \cup {at[w].seq} \/ top' = 0
      BY <1>1, <2>1
    <3>2. at[w].seq \in Nat /\ at[w].seq >= 1
      BY DEF TypeOK, Seqs
    <3>3. at[w].seq <= top + 1
      BY <1>3, <1>6 DEF ChainInv, Insert
    <3>4. at[w].seq = top + 1
      BY <1>1, <1>3, <3>2, <3>3
    <3>5. top + 1 \in 1 .. top'
      BY <1>1, <2>1, <3>4
    <3> QED
      BY <1>1, <3>1, <3>4, <3>5
  <2> DEFINE event == at[w].event
             old == EventsUpTo(top)
             new == [s \in 1 .. top' |-> rows'[s].entry.event]
  <2>3. event \in Events /\ event \notin returned
    BY <1>3, <1>6 DEF Insert, EventInv, TypeOK
  <2>4. rows'[top + 1].entry.event = event
    BY <2>1, <2>2 DEF NewRow
  <2>5. /\ old \in Seq(Events) /\ Len(old) = top
        /\ \A s \in 1 .. top : old[s] = rows[s].entry.event
    BY <1>1, EventsUpToTop
  <2>6. /\ Append(old, event) \in Seq(Events) /\ Len(Append(old, event)) = top + 1
        /\ \A s \in 1 .. top : Append(old, event)[s] = old[s]
        /\ Append(old, event)[top + 1] = event
    BY <2>3, <2>5, AppendProperties
  <2>7. Append(old, event) = [s \in 1 .. top + 1 |-> Append(old, event)[s]]
    BY <2>6
  <2>8. \A s \in 1 .. top + 1 : Append(old, event)[s] = rows'[s].entry.event
    <3> SUFFICES ASSUME NEW s \in 1 .. top + 1
                 PROVE  Append(old, event)[s] = rows'[s].entry.event
      OBVIOUS
    <3>1. CASE s = top + 1
      BY <2>4, <2>6, <3>1
    <3>2. CASE s # top + 1
      BY <1>1, <2>1, <2>5, <2>6, <3>2
    <3> QED
      BY <3>1, <3>2
  <2>9. new = Append(old, event)
    BY <2>2, <2>7, <2>8
  <2>10. EventsUpTo(top)' = Append(old, event)
    BY <2>9 DEF EventsUpTo
  <2>11. \A i \in 1 .. Len(old) : old[i] # event
    BY <1>1, <1>6, <2>3, <2>5 DEF EventInv
  <2>12. Ledger!Record(event)
    BY <2>10, <2>11 DEF Ledger!Record
  <2> QED
    BY <2>3, <2>12 DEF Ledger!Next
<1>4. ASSUME NEW w \in Writers, NEW event \in Events, ReadHead(w, event)
      PROVE  UNCHANGED <<rows, top>>
  BY <1>4 DEF ReadHead
<1>5. ASSUME ExportAnchor \/ UNCHANGED vars PROVE UNCHANGED <<rows, top>>
  BY <1>5 DEF ExportAnchor, vars
<1>7. ASSUME NEW w \in Writers, Insert(w)
      PROVE  UNCHANGED <<rows, top>> \/ at[w].seq \notin DOMAIN rows
  BY <1>7 DEF Insert
<1> QED
  BY <1>2, <1>3, <1>4, <1>5, <1>6, <1>7 DEF Next

(* Whatever the number of processes and the order of their reads and       *)
(* inserts, an undamaged table is an append-only ledger in which no event  *)
(* is recorded twice.                                                      *)
THEOREM TableIsLedger == Spec => LedgerSpec
<1>1. Init => TypeOK /\ ChainInv /\ EventInv
  BY InitTypeOK, InitChainInv DEF Init, EventInv, Idle
<1>2. TypeOK /\ ChainInv /\ EventInv /\ [Next]_vars
        => TypeOK' /\ ChainInv' /\ EventInv'
  BY NextTypeOK, NextChainInv, NextEventInv
<1>3. Init => Ledger!Init
  BY DEF Init, Ledger!Init, EventsUpTo
<1>4. TypeOK /\ TypeOK' /\ ChainInv /\ ChainInv' /\ EventInv /\ EventInv'
        /\ [Next]_vars
      => [damaged' = 0 => Ledger!Next \/ UNCHANGED EventsUpTo(top)]_vars
  BY StepRecords
<1> QED
  BY <1>1, <1>2, <1>3, <1>4, PTL DEF Spec, LedgerSpec
=============================================================================
