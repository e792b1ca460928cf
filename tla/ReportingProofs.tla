-------------------------- MODULE ReportingProofs --------------------------
(* Theorems about the vault and the reports made of it, for any number of  *)
(* cases, items, acquisitions, images, events, processes and reporters:    *)
(* types and references, the permanence of records, that an examination    *)
(* report covers what the vault held, that a completed acquisition is      *)
(* never shown without its image, that every report is in the log and      *)
(* carries the log up to its entry, and that a file that verifies is what  *)
(* was signed, whatever was done to it.                                    *)
EXTENDS Reporting, SequenceTheorems, WellFoundedInduction, TLAPS

-----------------------------------------------------------------------------
(* Tables.                                                                 *)

LEMMA WithType ==
  ASSUME NEW B, NEW table, table \in [DOMAIN table -> B], NEW key, NEW row, row \in B
  PROVE  With(table, key, row) \in [DOMAIN With(table, key, row) -> B]
BY DEF With

-----------------------------------------------------------------------------
(* The vault.                                                              *)

(* An acquisition is completed after its image is stored, and the image is *)
(* of the item of the acquisition.                                         *)
ImagesFirst ==
  /\ \A o \in complete : \E m \in DOMAIN images : images[m].op = o
  /\ \A m \in DOMAIN images : images[m].item = ops[images[m].op].item

VaultInv == VaultTypeOK /\ ImagesFirst

(* What any step leaves of the vault.                                      *)
Growth ==
  /\ \A c \in DOMAIN cases :
       c \in DOMAIN cases' /\ (cases[c] = "Closed" => cases'[c] = "Closed")
  /\ OnlyGrows(items) /\ OnlyGrows(ops) /\ OnlyGrows(images) /\ OnlyGrows(events)
  /\ complete \subseteq complete'

LEMMA InitVault == VaultInit => VaultInv
BY DEF VaultInit, VaultInv, VaultTypeOK, ImagesFirst

LEMMA StillVault == VaultInv /\ UNCHANGED vault => VaultInv' /\ Growth
BY DEF VaultInv, VaultTypeOK, ImagesFirst, Growth, OnlyGrows, vault

LEMMA CreateCaseVault ==
  ASSUME VaultInv, NEW c \in Cases, CreateCase(c)
  PROVE  VaultInv' /\ Growth
<1>1. /\ DOMAIN cases' = DOMAIN cases \cup {c} /\ c \notin DOMAIN cases
      /\ \A k \in DOMAIN cases : cases'[k] = cases[k]
      /\ UNCHANGED <<items, ops, complete, images, events, closing>>
  BY DEF CreateCase, With
<1>2. cases' \in [DOMAIN cases' -> {"Active", "Closed"}]
  BY <1>1, WithType DEF CreateCase, VaultInv, VaultTypeOK
<1>3. /\ items \in [DOMAIN items -> DOMAIN cases']
      /\ ops \in [DOMAIN ops -> [case : DOMAIN cases', item : DOMAIN items]]
      /\ closing \in [DOMAIN closing -> DOMAIN cases']
  BY <1>1 DEF VaultInv, VaultTypeOK
<1>4. VaultTypeOK'
  BY <1>1, <1>2, <1>3 DEF VaultInv, VaultTypeOK
<1>5. ImagesFirst'
  BY <1>1 DEF VaultInv, ImagesFirst
<1>6. Growth
  BY <1>1 DEF Growth, OnlyGrows
<1> QED BY <1>4, <1>5, <1>6 DEF VaultInv

LEMMA CheckOpenVault ==
  ASSUME VaultInv, NEW p \in Closers, NEW c \in Cases, CheckOpen(p, c)
  PROVE  VaultInv' /\ Growth
<1>1. /\ DOMAIN closing' = DOMAIN closing \cup {p} /\ c \in DOMAIN cases
      /\ UNCHANGED <<cases, items, ops, complete, images, events>>
  BY DEF CheckOpen, With
<1>2. closing' \in [DOMAIN closing' -> DOMAIN cases]
  BY <1>1, WithType DEF CheckOpen, VaultInv, VaultTypeOK
<1>3. VaultTypeOK'
  BY <1>1, <1>2 DEF VaultInv, VaultTypeOK
<1>4. ImagesFirst' /\ Growth
  BY <1>1 DEF VaultInv, ImagesFirst, Growth, OnlyGrows
<1> QED BY <1>3, <1>4 DEF VaultInv

LEMMA CloseCaseVault ==
  ASSUME VaultInv, NEW p \in Closers, CloseCase(p)
  PROVE  VaultInv' /\ Growth
<1>1. /\ DOMAIN cases' = DOMAIN cases
      /\ cases' \in [DOMAIN cases -> {"Active", "Closed"}]
      /\ \A c \in DOMAIN cases : cases[c] = "Closed" => cases'[c] = "Closed"
      /\ UNCHANGED <<items, ops, complete, images, events>>
  BY DEF CloseCase, VaultInv, VaultTypeOK
<1>2. /\ DOMAIN closing' = DOMAIN closing \ {p}
      /\ closing' \in [DOMAIN closing' -> DOMAIN cases]
  BY DEF CloseCase, VaultInv, VaultTypeOK
<1>3. VaultTypeOK'
  BY <1>1, <1>2 DEF VaultInv, VaultTypeOK
<1>4. ImagesFirst' /\ Growth
  BY <1>1 DEF VaultInv, ImagesFirst, Growth, OnlyGrows
<1> QED BY <1>3, <1>4 DEF VaultInv

LEMMA AddEvidenceVault ==
  ASSUME VaultInv, NEW i \in Items, NEW c \in Cases, AddEvidence(i, c)
  PROVE  VaultInv' /\ Growth
<1>1. /\ DOMAIN items' = DOMAIN items \cup {i} /\ i \notin DOMAIN items /\ c \in DOMAIN cases
      /\ \A k \in DOMAIN items : items'[k] = items[k]
      /\ UNCHANGED <<cases, ops, complete, images, events, closing>>
  BY DEF AddEvidence, With
<1>2. items' \in [DOMAIN items' -> DOMAIN cases]
  BY <1>1, WithType DEF AddEvidence, VaultInv, VaultTypeOK
<1>3. /\ ops \in [DOMAIN ops -> [case : DOMAIN cases, item : DOMAIN items']]
      /\ images \in [DOMAIN images -> [item : DOMAIN items', op : DOMAIN ops]]
      /\ events \in [DOMAIN events -> DOMAIN items']
  BY <1>1 DEF VaultInv, VaultTypeOK
<1>4. VaultTypeOK'
  BY <1>1, <1>2, <1>3 DEF VaultInv, VaultTypeOK
<1>5. ImagesFirst' /\ Growth
  BY <1>1 DEF VaultInv, ImagesFirst, Growth, OnlyGrows
<1> QED BY <1>4, <1>5 DEF VaultInv

LEMMA RecordOperationVault ==
  ASSUME VaultInv, NEW o \in Ops, NEW c \in Cases, NEW i \in Items, RecordOperation(o, c, i)
  PROVE  VaultInv' /\ Growth
<1>1. /\ DOMAIN ops' = DOMAIN ops \cup {o} /\ o \notin DOMAIN ops
      /\ c \in DOMAIN cases /\ i \in DOMAIN items
      /\ \A k \in DOMAIN ops : ops'[k] = ops[k]
      /\ UNCHANGED <<cases, items, complete, images, events, closing>>
  BY DEF RecordOperation, With
<1>2. ops' \in [DOMAIN ops' -> [case : DOMAIN cases, item : DOMAIN items]]
  <2>1. [case |-> c, item |-> i] \in [case : DOMAIN cases, item : DOMAIN items]
    BY <1>1
  <2> QED BY <1>1, <2>1, WithType DEF RecordOperation, VaultInv, VaultTypeOK
<1>3. images \in [DOMAIN images -> [item : DOMAIN items, op : DOMAIN ops']]
  BY <1>1 DEF VaultInv, VaultTypeOK
<1>4. VaultTypeOK'
  BY <1>1, <1>2, <1>3 DEF VaultInv, VaultTypeOK
<1>5. ImagesFirst'
  BY <1>1 DEF VaultInv, VaultTypeOK, ImagesFirst
<1>6. Growth
  BY <1>1 DEF Growth, OnlyGrows
<1> QED BY <1>4, <1>5, <1>6 DEF VaultInv

LEMMA RecordEventVault ==
  ASSUME VaultInv, NEW e \in Events, NEW i \in Items, RecordEvent(e, i)
  PROVE  VaultInv' /\ Growth
<1>1. /\ DOMAIN events' = DOMAIN events \cup {e} /\ e \notin DOMAIN events /\ i \in DOMAIN items
      /\ \A k \in DOMAIN events : events'[k] = events[k]
      /\ UNCHANGED <<cases, items, ops, complete, images, closing>>
  BY DEF RecordEvent, With
<1>2. events' \in [DOMAIN events' -> DOMAIN items]
  BY <1>1, WithType DEF RecordEvent, VaultInv, VaultTypeOK
<1>3. VaultTypeOK'
  BY <1>1, <1>2 DEF VaultInv, VaultTypeOK
<1>4. ImagesFirst' /\ Growth
  BY <1>1 DEF VaultInv, ImagesFirst, Growth, OnlyGrows
<1> QED BY <1>3, <1>4 DEF VaultInv

LEMMA RecordImageVault ==
  ASSUME VaultInv, NEW m \in Images, NEW o \in Ops, RecordImage(m, o)
  PROVE  VaultInv' /\ Growth
<1>1. /\ DOMAIN images' = DOMAIN images \cup {m} /\ m \notin DOMAIN images /\ o \in DOMAIN ops
      /\ images'[m] = [item |-> ops[o].item, op |-> o]
      /\ \A k \in DOMAIN images : images'[k] = images[k]
      /\ UNCHANGED <<cases, items, ops, complete, events, closing>>
  BY DEF RecordImage, With
<1>2. images' \in [DOMAIN images' -> [item : DOMAIN items, op : DOMAIN ops]]
  <2>1. [item |-> ops[o].item, op |-> o] \in [item : DOMAIN items, op : DOMAIN ops]
    BY <1>1 DEF VaultInv, VaultTypeOK
  <2> QED BY <1>1, <2>1, WithType DEF RecordImage, VaultInv, VaultTypeOK
<1>3. VaultTypeOK'
  BY <1>1, <1>2 DEF VaultInv, VaultTypeOK
<1>4. ImagesFirst'
  BY <1>1 DEF VaultInv, ImagesFirst
<1>5. Growth
  BY <1>1 DEF Growth, OnlyGrows
<1> QED BY <1>3, <1>4, <1>5 DEF VaultInv

LEMMA CompleteOperationVault ==
  ASSUME VaultInv, NEW o \in Ops, CompleteOperation(o)
  PROVE  VaultInv' /\ Growth
<1>1. /\ complete' = complete \cup {o}
      /\ \E m \in DOMAIN images : images[m].op = o
      /\ UNCHANGED <<cases, items, ops, images, events, closing>>
  BY DEF CompleteOperation
<1>2. o \in DOMAIN ops
  BY <1>1 DEF VaultInv, VaultTypeOK
<1>3. VaultTypeOK'
  BY <1>1, <1>2 DEF VaultInv, VaultTypeOK
<1>4. ImagesFirst' /\ Growth
  BY <1>1 DEF VaultInv, ImagesFirst, Growth, OnlyGrows
<1> QED BY <1>3, <1>4 DEF VaultInv

LEMMA NextVault == VaultInv /\ VaultNext => VaultInv' /\ Growth
<1> SUFFICES ASSUME VaultInv, VaultNext PROVE VaultInv' /\ Growth
  OBVIOUS
<1>1. CASE CaseCommand
  BY <1>1, CreateCaseVault, CheckOpenVault, CloseCaseVault DEF CaseCommand
<1>2. CASE EvidenceCommand
  BY <1>2, AddEvidenceVault DEF EvidenceCommand
<1>3. CASE \E o \in Ops, c \in Cases, i \in Items : RecordOperation(o, c, i)
  BY <1>3, RecordOperationVault
<1>4. CASE \E e \in Events, i \in Items : RecordEvent(e, i)
  BY <1>4, RecordEventVault
<1>5. CASE \E o \in Ops : (\E m \in Images : RecordImage(m, o)) \/ CompleteOperation(o)
  BY <1>5, RecordImageVault, CompleteOperationVault
<1> QED BY <1>1, <1>2, <1>3, <1>4, <1>5 DEF VaultNext

-----------------------------------------------------------------------------
(* The reporters.                                                          *)

Phase == {"idle", "case", "items", "ops", "images", "events", "image", "event",
          "head", "insert", "load", "record", "save", "done", "failed"}

Job == [pc : Phase, shell : {"cli", "desktop"}, kind : Kind,
        case : Cases \cup {"none"}, item : Items \cup {"none"}, content : SUBSET Facts,
        listed : SUBSET Images, todo : SUBSET Items,
        skipped : SUBSET (Items \cup {"none"}), head : Nat]

JobsOK ==
  /\ at \in [Reporters -> Job] /\ known \in [Reporters -> SUBSET Facts]
  /\ DOMAIN issued \subseteq Reporters

SameSubject(w) ==
  /\ at'[w].shell = at[w].shell /\ at'[w].kind = at[w].kind
  /\ at'[w].case = at[w].case /\ at'[w].item = at[w].item

Others(w) == \A v \in Reporters \ {w} : at'[v] = at[v]

LEMMA TakesJob ==
  ASSUME JobsOK, NEW w \in Reporters, NEW facts \in SUBSET Facts, NEW pc \in Phase,
         Takes(w, facts, pc)
  PROVE  /\ at' \in [Reporters -> Job] /\ SameSubject(w) /\ Others(w)
         /\ at'[w].pc = pc /\ at'[w].content = at[w].content \cup facts
         /\ at'[w].listed = at[w].listed /\ at'[w].todo = at[w].todo
         /\ at'[w].skipped = at[w].skipped /\ at'[w].head = at[w].head
<1> DEFINE job == [at[w] EXCEPT !.content = @ \cup facts, !.pc = pc]
<1>1. at[w] \in Job
  BY DEF JobsOK
<1>2. /\ job \in Job /\ job.pc = pc /\ job.content = at[w].content \cup facts
      /\ job.shell = at[w].shell /\ job.kind = at[w].kind /\ job.case = at[w].case
      /\ job.item = at[w].item /\ job.listed = at[w].listed /\ job.todo = at[w].todo
      /\ job.skipped = at[w].skipped /\ job.head = at[w].head
  BY <1>1 DEF Job
<1>3. at' = [at EXCEPT ![w] = job]
  BY DEF Takes
<1> HIDE DEF job
<1>4. at' \in [Reporters -> Job] /\ at'[w] = job /\ Others(w)
  BY <1>2, <1>3 DEF JobsOK, Others
<1> QED BY <1>2, <1>4 DEF SameSubject

-----------------------------------------------------------------------------
(* The inductive invariant of one reporter.                                *)

AfterItems  == {"ops", "images", "events", "head", "insert", "load"}
AfterOps    == {"images", "events", "head", "insert", "load"}
AfterImages == {"events", "head", "insert", "load"}

(* Who reads what.                                                         *)
ReadsItsOwn(w) ==
  /\ at[w].pc \in {"case", "items", "ops", "images", "events"} => at[w].kind = "exam"
  /\ at[w].pc = "image" => at[w].shell = "cli" /\ at[w].kind = "acquisition"
  /\ at[w].pc = "event" => at[w].shell = "cli" /\ at[w].kind = "custody"

(* What was read is in the vault and about the subject.                    *)
IsHeld(w) ==
  /\ known[w] \subseteq Subject(at[w])
  /\ at[w].content \subseteq {<<"default", at[w].kind>>} \cup Subject(at[w])
  /\ at[w].listed \subseteq ImagesOf(at[w].case)
  /\ at[w].todo \subseteq ItemsOf(at[w].case)
  /\ at[w].kind # "exam" => at[w].listed = {} /\ \A o \in Ops : <<"done", o>> \notin at[w].content

(* What an examination knew at the start is read, table by table; events   *)
(* are read, or their item is still to be asked about or was passed over.  *)
Collected(w) ==
  at[w].kind = "exam" =>
    /\ at[w].pc \in AfterItems =>
         \A i \in Items : <<"item", i>> \in known[w] => <<"item", i>> \in at[w].content
    /\ at[w].pc \in AfterOps =>
         \A t \in {"op", "done"}, o \in Ops : <<t, o>> \in known[w] => <<t, o>> \in at[w].content
    /\ at[w].pc \in AfterImages =>
         \A m \in Images : <<"image", m>> \in known[w] => m \in at[w].listed
    /\ at[w].pc \in AfterItems =>
         \A e \in Events : <<"event", e>> \in known[w] =>
           \/ <<"event", e>> \in at[w].content
           \/ at[w].pc \in {"ops", "images", "events"} /\ events[e] \in at[w].todo
           \/ events[e] \in at[w].skipped
    /\ at[w].pc \in AfterImages =>
         \A o \in Ops : <<"done", o>> \in at[w].content /\ items[ops[o].item] = at[w].case =>
           \E m \in at[w].listed : images[m].op = o

(* A custody report has read the events it knew of, or passed them over.   *)
Heard(w) ==
  at[w].kind \notin {"exam", "acquisition"} /\ at[w].pc \in {"head", "insert", "load"} =>
    \A e \in Events : <<"event", e>> \in known[w] =>
      <<"event", e>> \in at[w].content \/ events[e] \in at[w].skipped

(* What was issued stays as it was, and true.                              *)
IssuedIsSound(w) ==
  w \in DOMAIN issued =>
    /\ at[w].pc \in {"record", "save", "done", "failed"}
    /\ issued[w].case = at[w].case /\ issued[w].content = at[w].content
    /\ at[w].kind # "acquisition" => known[w] \subseteq Shown(issued[w]) \cup Skipped(w)
    /\ Shown(issued[w]) \subseteq {<<"default", at[w].kind>>} \cup Subject(at[w])
    /\ \A o \in Ops : <<"done", o>> \in at[w].content /\ items[ops[o].item] = at[w].case =>
         \E m \in DOMAIN images : images[m].op = o /\ <<"image", m>> \in Shown(issued[w])

JobInv(w) ==
  ReadsItsOwn(w) /\ IsHeld(w) /\ Collected(w) /\ Heard(w) /\ IssuedIsSound(w)

(* The subject of a report only grows.                                     *)
LEMMA CaseGrows ==
  ASSUME VaultInv, Growth, NEW w, at'[w].case = at[w].case
  PROVE  CaseFacts(at[w].case) \subseteq CaseFacts(at[w].case)'
<1>1. \A i \in DOMAIN items : i \in DOMAIN items' /\ items'[i] = items[i]
  BY DEF Growth, OnlyGrows
<1>2. \A o \in DOMAIN ops : o \in DOMAIN ops' /\ ops'[o] = ops[o]
  BY DEF Growth, OnlyGrows
<1>3. \A m \in DOMAIN images : m \in DOMAIN images' /\ images'[m] = images[m]
                               /\ images[m].item \in DOMAIN items
  BY DEF Growth, OnlyGrows, VaultInv, VaultTypeOK
<1>4. \A e \in DOMAIN events : e \in DOMAIN events' /\ events'[e] = events[e]
                               /\ events[e] \in DOMAIN items
  BY DEF Growth, OnlyGrows, VaultInv, VaultTypeOK
<1>5. complete \subseteq complete' /\ complete \subseteq DOMAIN ops
  BY DEF Growth, VaultInv, VaultTypeOK
<1> QED BY <1>1, <1>2, <1>3, <1>4, <1>5 DEF CaseFacts

LEMMA SubjectGrows ==
  ASSUME VaultInv, Growth, NEW w, SameSubject(w)
  PROVE  Subject(at[w]) \subseteq Subject(at[w])'
<1>1. FirstRead(at[w].shell, at[w].kind)' = FirstRead(at[w].shell, at[w].kind)
  BY DEF SameSubject, FirstRead, FirstReadCli, FirstReadDesktop
<1>2. CaseFacts(at[w].case) \subseteq CaseFacts(at[w].case)'
  BY CaseGrows DEF SameSubject
<1>3. \A e \in DOMAIN events : e \in DOMAIN events' /\ events'[e] = events[e]
  BY DEF Growth, OnlyGrows
<1>4. CASE FirstRead(at[w].shell, at[w].kind) \in {"case", "image"}
  BY <1>1, <1>2, <1>4 DEF Subject
<1>5. CASE FirstRead(at[w].shell, at[w].kind) = "event"
  BY <1>1, <1>3, <1>5 DEF Subject, SameSubject
<1>6. CASE FirstRead(at[w].shell, at[w].kind) \notin {"case", "image", "event"}
  BY <1>6 DEF Subject
<1> QED BY <1>4, <1>5, <1>6

(* A reporter that does nothing stays sound while the vault grows.         *)
LEMMA Kept ==
  ASSUME VaultInv, VaultInv', Growth, JobsOK, NEW v \in Reporters, JobInv(v),
         at'[v] = at[v], known'[v] = known[v],
         v \in DOMAIN issued' <=> v \in DOMAIN issued,
         v \in DOMAIN issued => issued'[v] = issued[v]
  PROVE  JobInv(v)'
<1>1. Subject(at[v]) \subseteq Subject(at[v])'
  BY SubjectGrows DEF SameSubject
<1>2. ReadsItsOwn(v)'
  BY DEF JobInv, ReadsItsOwn
<1>3. IsHeld(v)'
  <2>1. ImagesOf(at[v].case) \subseteq ImagesOf(at[v].case)'
    BY DEF ImagesOf, Growth, OnlyGrows, VaultInv, VaultTypeOK
  <2>2. ItemsOf(at[v].case) \subseteq ItemsOf(at[v].case)'
    BY DEF ItemsOf, Growth, OnlyGrows
  <2> QED BY <1>1, <2>1, <2>2 DEF JobInv, IsHeld
<1>4. \A o \in Ops : at[v].kind = "exam" /\ <<"done", o>> \in at[v].content =>
        o \in DOMAIN ops /\ ops'[o] = ops[o] /\ ops[o].item \in DOMAIN items
        /\ items'[ops[o].item] = items[ops[o].item]
  <2> SUFFICES ASSUME NEW o \in Ops, at[v].kind = "exam", <<"done", o>> \in at[v].content
               PROVE  o \in complete
    BY DEF VaultInv, VaultTypeOK, Growth, OnlyGrows
  <2>1. <<"done", o>> \in CaseFacts(at[v].case)
    BY DEF JobInv, IsHeld, Subject, FirstRead, FirstReadCli, FirstReadDesktop
  <2> QED BY <2>1 DEF CaseFacts
<1>5. Collected(v)'
  <2>1. \A e \in Events : at[v].kind = "exam" /\ <<"event", e>> \in known[v] =>
          events'[e] = events[e]
    <3> SUFFICES ASSUME NEW e \in Events, at[v].kind = "exam", <<"event", e>> \in known[v]
                 PROVE  e \in DOMAIN events
      BY DEF Growth, OnlyGrows
    <3>1. <<"event", e>> \in CaseFacts(at[v].case)
      BY DEF JobInv, IsHeld, Subject, FirstRead, FirstReadCli, FirstReadDesktop
    <3> QED BY <3>1 DEF CaseFacts
  <2>2. \A m \in at[v].listed : m \in DOMAIN images /\ images'[m] = images[m]
    BY DEF JobInv, IsHeld, ImagesOf, Growth, OnlyGrows
  <2> QED BY <1>4, <2>1, <2>2 DEF JobInv, Collected
<1>7. Heard(v)'
  <2> SUFFICES ASSUME NEW e \in Events, at[v].kind \notin {"exam", "acquisition"},
                      <<"event", e>> \in known[v]
               PROVE  events'[e] = events[e]
    BY DEF JobInv, Heard
  <2>1. <<"event", e>> \in Subject(at[v])
    BY DEF JobInv, IsHeld
  <2>2. FirstRead(at[v].shell, at[v].kind) \in {"event", "head"}
    BY DEF FirstRead, FirstReadCli, FirstReadDesktop
  <2>3. e \in DOMAIN events
    BY <2>1, <2>2 DEF Subject
  <2> QED BY <2>3 DEF Growth, OnlyGrows
<1>6. IssuedIsSound(v)'
  <2> SUFFICES ASSUME v \in DOMAIN issued PROVE IssuedIsSound(v)'
    BY DEF IssuedIsSound
  <2>1. Shown(issued[v])' = Shown(issued[v])
    BY DEF Shown
  <2>2. \A m \in DOMAIN images : m \in DOMAIN images' /\ images'[m] = images[m]
    BY DEF Growth, OnlyGrows
  <2>3. \A o \in Ops : <<"done", o>> \in at[v].content => at[v].kind = "exam"
    BY DEF JobInv, IsHeld
  <2>4. v \in DOMAIN issued' /\ issued'[v] = issued[v] /\ IssuedIsSound(v)
    BY DEF JobInv
  <2>5. /\ at[v].pc \in {"record", "save", "done", "failed"}
        /\ issued[v].case = at[v].case /\ issued[v].content = at[v].content
        /\ at[v].kind # "acquisition" => known[v] \subseteq Shown(issued[v]) \cup Skipped(v)
        /\ Shown(issued[v]) \subseteq {<<"default", at[v].kind>>} \cup Subject(at[v])
    BY <2>4 DEF IssuedIsSound
  <2>6. Shown(issued[v])' \subseteq ({<<"default", at[v].kind>>} \cup Subject(at[v]))'
    BY <1>1, <2>1, <2>5
  <2>7. ASSUME NEW o \in Ops, <<"done", o>> \in at[v].content,
               items'[ops'[o].item] = at[v].case
        PROVE  \E m \in DOMAIN images' : images'[m].op = o
                                          /\ <<"image", m>> \in Shown(issued[v])
    <3>1. items[ops[o].item] = at[v].case
      BY <1>4, <2>3, <2>7
    <3>2. PICK m \in DOMAIN images : images[m].op = o /\ <<"image", m>> \in Shown(issued[v])
      BY <2>4, <2>7, <3>1 DEF IssuedIsSound
    <3> QED BY <2>2, <3>2
  <2> HIDE DEF Shown
  <2>8. /\ at'[v].pc \in {"record", "save", "done", "failed"}
        /\ issued'[v].case = at'[v].case /\ issued'[v].content = at'[v].content
        /\ at'[v].kind # "acquisition" =>
             known'[v] \subseteq Shown(issued[v])' \cup Skipped(v)'
    <3>1. Skipped(v) \subseteq Skipped(v)'
      BY DEF Skipped, Growth, OnlyGrows
    <3> QED BY <2>1, <2>4, <2>5, <3>1
  <2> QED BY <2>1, <2>6, <2>7, <2>8 DEF IssuedIsSound
<1> QED BY <1>2, <1>3, <1>5, <1>6, <1>7 DEF JobInv

-----------------------------------------------------------------------------
(* The steps of a reporter, on its own invariant.                          *)

LEMMA SubjectStays ==
  ASSUME UNCHANGED vault, NEW w, SameSubject(w)
  PROVE  /\ Subject(at[w])' = Subject(at[w])
         /\ ItemsOf(at[w].case)' = ItemsOf(at[w].case)
         /\ ImagesOf(at[w].case)' = ImagesOf(at[w].case)
         /\ at'[w].skipped = at[w].skipped => Skipped(w)' = Skipped(w)
BY DEF vault, Skipped, SameSubject, Subject, FirstRead, FirstReadCli, FirstReadDesktop, CaseFacts,
       ItemsOf, ImagesOf

(* Before the report is issued, there is nothing to show of it.            *)
LEMMA NotIssued ==
  ASSUME NEW w \in Reporters, JobInv(w), UNCHANGED issued,
         at[w].pc \notin {"record", "save", "done", "failed"}
  PROVE  w \notin DOMAIN issued /\ IssuedIsSound(w)'
BY DEF JobInv, IssuedIsSound

(* Once it is issued, nothing is read any more.                            *)
LEMMA AfterIssue ==
  ASSUME JobsOK, NEW w \in Reporters, JobInv(w), UNCHANGED <<vault, known, issued>>,
         NEW pc \in {"save", "done", "failed"}, at[w].pc \in {"record", "save"},
         Takes(w, {}, pc)
  PROVE  JobInv(w)'
<1>1. /\ SameSubject(w) /\ at'[w].pc = pc /\ at'[w].content = at[w].content
      /\ at'[w].listed = at[w].listed /\ at'[w].todo = at[w].todo
      /\ at'[w].skipped = at[w].skipped
  <2>1. {} \in SUBSET Facts /\ pc \in Phase
    BY DEF Phase
  <2>2. /\ SameSubject(w) /\ at'[w].pc = pc /\ at'[w].content = at[w].content \cup {}
        /\ at'[w].listed = at[w].listed /\ at'[w].todo = at[w].todo
        /\ at'[w].skipped = at[w].skipped
    BY <2>1, TakesJob
  <2> QED BY <2>2
<1>2. /\ Subject(at[w])' = Subject(at[w])
      /\ ItemsOf(at[w].case)' = ItemsOf(at[w].case)
      /\ ImagesOf(at[w].case)' = ImagesOf(at[w].case)
      /\ Skipped(w)' = Skipped(w)
  BY <1>1, SubjectStays
<1>3. ReadsItsOwn(w)'
  BY <1>1 DEF ReadsItsOwn
<1>4. IsHeld(w)'
  BY <1>1, <1>2 DEF JobInv, IsHeld, SameSubject
<1>5. Collected(w)' /\ Heard(w)'
  BY <1>1 DEF Collected, Heard, AfterItems, AfterOps, AfterImages
<1>6. IssuedIsSound(w)'
  BY <1>1, <1>2 DEF JobInv, IssuedIsSound, SameSubject, Shown, vault
<1> QED BY <1>3, <1>4, <1>5, <1>6 DEF JobInv

(* A step that reads nothing.                                              *)
LEMMA Advance ==
  ASSUME NEW w \in Reporters, JobInv(w), UNCHANGED <<vault, known, issued>>,
         SameSubject(w), ReadsItsOwn(w)',
         at'[w].content = at[w].content, at'[w].listed = at[w].listed,
         at'[w].todo = at[w].todo, at'[w].skipped = at[w].skipped,
         at[w].pc \notin {"record", "save", "done", "failed"},
         at'[w].pc = "failed" \/ at[w].kind = "exam"
           \/ at[w].pc \in {"head", "insert", "load"},
         at[w].kind = "exam" =>
           \/ at'[w].pc \in {"items", "failed"}
           \/ /\ at[w].pc \in AfterImages /\ at'[w].pc \in AfterImages
              /\ at[w].pc = "events" => at[w].todo = {}
  PROVE  JobInv(w)'
<1>1. /\ Subject(at[w])' = Subject(at[w])
      /\ ItemsOf(at[w].case)' = ItemsOf(at[w].case)
      /\ ImagesOf(at[w].case)' = ImagesOf(at[w].case)
  BY SubjectStays
<1>2. IsHeld(w)'
  BY <1>1 DEF JobInv, IsHeld, SameSubject
<1>3. Collected(w)'
  <2>1. CASE at[w].kind # "exam"
    BY <2>1 DEF Collected, SameSubject
  <2>2. CASE at'[w].pc \in {"items", "failed"}
    BY <2>2 DEF Collected, AfterItems, AfterOps, AfterImages
  <2>3. CASE /\ at[w].kind = "exam"
             /\ at[w].pc \in AfterImages /\ at'[w].pc \in AfterImages
             /\ at[w].pc = "events" => at[w].todo = {}
    BY <2>3 DEF JobInv, Collected, SameSubject, vault, AfterItems, AfterOps, AfterImages
  <2> QED BY <2>1, <2>2, <2>3
<1>4. IssuedIsSound(w)'
  BY NotIssued
<1>5. Heard(w)'
  BY DEF JobInv, Heard, SameSubject, vault
<1> QED BY <1>2, <1>3, <1>4, <1>5 DEF JobInv

(* What a step of a reporter leaves.                                       *)
StepOK(w) == JobsOK' /\ JobInv(w)' /\ Others(w)

LEMMA AbandonsStep ==
  ASSUME JobsOK, NEW w \in Reporters, JobInv(w), UNCHANGED <<vault, known, issued>>,
         at[w].pc \notin {"record", "save", "done", "failed"}, Abandons(w)
  PROVE  StepOK(w)
<1>1. {} \in SUBSET Facts /\ "failed" \in Phase /\ Takes(w, {}, "failed")
  BY DEF Phase, Abandons
<1>2. /\ at' \in [Reporters -> Job] /\ SameSubject(w) /\ Others(w)
      /\ at'[w].pc = "failed" /\ at'[w].content = at[w].content \cup {}
      /\ at'[w].listed = at[w].listed /\ at'[w].todo = at[w].todo
      /\ at'[w].skipped = at[w].skipped
  BY <1>1, TakesJob
<1>3. ReadsItsOwn(w)'
  BY <1>2 DEF ReadsItsOwn
<1>4. JobInv(w)'
  BY <1>2, <1>3, Advance
<1> QED BY <1>2, <1>4 DEF StepOK, JobsOK

(* A reporter passes over an item.                                         *)
LEMMA SkipsJob ==
  ASSUME JobsOK, NEW w \in Reporters, NEW i \in Items \cup {"none"}, NEW pc \in Phase,
         Skips(w, i, pc)
  PROVE  /\ at' \in [Reporters -> Job] /\ SameSubject(w) /\ Others(w)
         /\ at'[w].pc = pc /\ at'[w].content = at[w].content
         /\ at'[w].listed = at[w].listed /\ at'[w].todo = at[w].todo \ {i}
         /\ at'[w].skipped = at[w].skipped \cup {i} /\ at'[w].head = at[w].head
<1> DEFINE job == [at[w] EXCEPT !.pc = pc, !.todo = @ \ {i}, !.skipped = @ \cup {i}]
<1>1. at[w] \in Job
  BY DEF JobsOK
<1>2. /\ job \in Job /\ job.pc = pc /\ job.content = at[w].content
      /\ job.shell = at[w].shell /\ job.kind = at[w].kind /\ job.case = at[w].case
      /\ job.item = at[w].item /\ job.listed = at[w].listed
      /\ job.todo = at[w].todo \ {i} /\ job.skipped = at[w].skipped \cup {i}
      /\ job.head = at[w].head
  BY <1>1 DEF Job
<1>3. at' = [at EXCEPT ![w] = job]
  BY DEF Skips
<1> HIDE DEF job
<1>4. at' \in [Reporters -> Job] /\ at'[w] = job /\ Others(w)
  BY <1>2, <1>3 DEF JobsOK, Others
<1> QED BY <1>2, <1>4 DEF SameSubject

LEMMA RequestStep ==
  ASSUME VaultInv, JobsOK, NEW w \in Reporters, JobInv(w),
         NEW shell \in {"cli", "desktop"}, NEW kind \in Kind, NEW c \in Cases, NEW i \in Items,
         Request(w, shell, kind, c, i)
  PROVE  StepOK(w)
<1> DEFINE first == FirstRead(shell, kind)
           job == [pc |-> first, shell |-> shell, kind |-> kind, case |-> c,
                   item |-> IF first \in {"image", "event"} THEN i ELSE "none",
                   content |-> IF first = "case" THEN {} ELSE {<<"default", kind>>},
                   listed |-> {}, todo |-> {}, skipped |-> {}, head |-> 0]
<1>1. first \in {"case", "image", "event", "head"} /\ (first = "case" <=> kind = "exam")
      /\ (first = "image" => shell = "cli" /\ kind = "acquisition")
      /\ (first = "event" => shell = "cli" /\ kind = "custody")
  BY DEF FirstRead, FirstReadCli, FirstReadDesktop, Kind
<1>2. /\ at[w].pc = "idle" /\ at' = [at EXCEPT ![w] = job]
      /\ known' = [known EXCEPT ![w] = Subject(job)]
      /\ UNCHANGED <<vault, issued>>
  BY DEF Request
<1> HIDE DEF first
<1>3. /\ job \in Job /\ job.pc = first /\ job.shell = shell /\ job.kind = kind /\ job.case = c
      /\ job.content \subseteq {<<"default", kind>>} /\ job.listed = {} /\ job.todo = {}
  <2>1. first \in Phase
    BY <1>1 DEF Phase
  <2>2. /\ (IF first = "case" THEN {} ELSE {<<"default", kind>>}) \in SUBSET Facts
        /\ (IF first \in {"image", "event"} THEN i ELSE "none") \in Items \cup {"none"}
    BY DEF Facts
  <2>3. job \in Job
    BY <2>1, <2>2 DEF Job
  <2> QED BY <2>3
<1> HIDE DEF job
<1>4. Subject(job) \subseteq Facts
  BY DEF Subject, CaseFacts, Facts, VaultInv, VaultTypeOK
<1>5. /\ at' \in [Reporters -> Job] /\ at'[w] = job /\ Others(w)
      /\ known' \in [Reporters -> SUBSET Facts] /\ known'[w] = Subject(job)
  BY <1>2, <1>3, <1>4 DEF JobsOK, Others
<1>6. JobsOK'
  BY <1>2, <1>5 DEF JobsOK
<1>7. ReadsItsOwn(w)'
  BY <1>1, <1>3, <1>5 DEF ReadsItsOwn
<1>8. Subject(at[w])' = Subject(job)
  BY <1>2, <1>5 DEF Subject, CaseFacts, vault
<1>9. IsHeld(w)'
  BY <1>3, <1>5, <1>8 DEF IsHeld
<1>10. Collected(w)'
  BY <1>1, <1>3, <1>5 DEF Collected, AfterItems, AfterOps, AfterImages
<1>11. IssuedIsSound(w)'
  BY <1>2, NotIssued
<1>12. Heard(w)'
  <2> SUFFICES ASSUME kind \notin {"exam", "acquisition"}, first \in {"head", "insert", "load"}
               PROVE  known'[w] = {}
    BY <1>3, <1>5 DEF Heard
  <2>1. FirstRead(job.shell, job.kind) = "head"
    BY <1>1, <1>3 DEF first
  <2> QED BY <1>5, <2>1 DEF Subject
<1> QED BY <1>5, <1>6, <1>7, <1>9, <1>10, <1>11, <1>12 DEF StepOK, JobInv

LEMMA ReadCaseStep ==
  ASSUME JobsOK, NEW w \in Reporters, JobInv(w), ReadCase(w)
  PROVE  StepOK(w)
<1> DEFINE pc == IF at[w].case \in DOMAIN cases THEN "items" ELSE "failed"
<1>0. /\ at[w].pc = "case" /\ UNCHANGED <<vault, known, issued>>
      /\ Takes(w, {}, pc) \/ Abandons(w)
  BY DEF ReadCase, Reads
<1> SUFFICES ASSUME Takes(w, {}, pc) PROVE StepOK(w)
  BY <1>0, AbandonsStep
<1>1. /\ at[w].pc = "case" /\ Takes(w, {}, pc) /\ UNCHANGED <<vault, known, issued>>
      /\ {} \in SUBSET Facts /\ pc \in Phase /\ pc \in {"items", "failed"}
      /\ at[w].kind = "exam"
  BY <1>0 DEF Phase, JobInv, ReadsItsOwn
<1> HIDE DEF pc
<1>2. /\ at' \in [Reporters -> Job] /\ SameSubject(w) /\ Others(w)
      /\ at'[w].pc = pc /\ at'[w].content = at[w].content \cup {}
      /\ at'[w].listed = at[w].listed /\ at'[w].todo = at[w].todo
      /\ at'[w].skipped = at[w].skipped
  BY <1>1, TakesJob
<1>3. ReadsItsOwn(w)'
  BY <1>1, <1>2 DEF JobInv, ReadsItsOwn, SameSubject
<1>4. JobInv(w)'
  BY <1>1, <1>2, <1>3, Advance
<1> QED BY <1>1, <1>2, <1>4 DEF StepOK, JobsOK

(* An examination reads its case.                                          *)
LEMMA ExamSubject ==
  ASSUME NEW w, at[w].kind = "exam"
  PROVE  Subject(at[w]) = CaseFacts(at[w].case)
BY DEF Subject, FirstRead, FirstReadCli, FirstReadDesktop

(* It reads one after the other, and the vault rests meanwhile.            *)
LEMMA ExamStays ==
  ASSUME NEW w, UNCHANGED vault, SameSubject(w), at[w].kind = "exam"
  PROVE  /\ Subject(at[w])' = CaseFacts(at[w].case)
         /\ ItemsOf(at[w].case)' = ItemsOf(at[w].case)
         /\ ImagesOf(at[w].case)' = ImagesOf(at[w].case)
BY SubjectStays, ExamSubject

LEMMA ReadItemsStep ==
  ASSUME VaultInv, JobsOK, NEW w \in Reporters, JobInv(w), ReadItems(w)
  PROVE  StepOK(w)
<1> DEFINE c == at[w].case
           job == [at[w] EXCEPT !.pc = "ops", !.content = ItemFacts(c), !.todo = ItemsOf(c)]
<1>0. /\ at[w].pc = "items" /\ UNCHANGED <<vault, known, issued>>
      /\ at' = [at EXCEPT ![w] = job] \/ Abandons(w)
  BY DEF ReadItems, Reads
<1> SUFFICES ASSUME at' = [at EXCEPT ![w] = job] PROVE StepOK(w)
  BY <1>0, AbandonsStep
<1>1. /\ at[w].pc = "items" /\ at' = [at EXCEPT ![w] = job] /\ UNCHANGED <<vault, known, issued>>
  BY <1>0
<1>2. at[w] \in Job /\ at[w].kind = "exam"
  BY <1>1 DEF JobsOK, JobInv, ReadsItsOwn
<1>3. ItemFacts(c) \in SUBSET Facts /\ ItemsOf(c) \in SUBSET Items
  BY DEF ItemFacts, ItemsOf, Facts, VaultInv, VaultTypeOK
<1>4. /\ job \in Job /\ job.pc = "ops" /\ job.content = ItemFacts(c)
      /\ job.shell = at[w].shell /\ job.kind = at[w].kind /\ job.case = c
      /\ job.item = at[w].item /\ job.listed = at[w].listed /\ job.todo = ItemsOf(c)
  BY <1>2, <1>3 DEF Job, Phase
<1> HIDE DEF job
<1>5. at' \in [Reporters -> Job] /\ at'[w] = job /\ Others(w) /\ SameSubject(w)
  BY <1>1, <1>4 DEF JobsOK, Others, SameSubject
<1>6. /\ Subject(at[w])' = CaseFacts(c) /\ Subject(at[w]) = CaseFacts(c)
      /\ ItemsOf(at[w].case)' = ItemsOf(c)
      /\ ImagesOf(at[w].case)' = ImagesOf(c)
  BY <1>1, <1>2, <1>5, ExamStays, ExamSubject
<1>7. ReadsItsOwn(w)'
  BY <1>2, <1>4, <1>5 DEF ReadsItsOwn
<1>8. IsHeld(w)'
  <2>1. ItemFacts(c) \subseteq CaseFacts(c)
    BY DEF ItemFacts, ItemsOf, CaseFacts
  <2> QED BY <1>1, <1>2, <1>4, <1>5, <1>6, <2>1 DEF JobInv, IsHeld
<1>9. Collected(w)'
  <2>1. \A i \in Items : <<"item", i>> \in known[w] => <<"item", i>> \in ItemFacts(c)
    BY <1>6 DEF JobInv, IsHeld, CaseFacts, ItemFacts, ItemsOf
  <2>2. \A e \in Events : <<"event", e>> \in known[w] => events[e] \in ItemsOf(c)
    BY <1>6 DEF JobInv, IsHeld, CaseFacts, ItemsOf
  <2> QED BY <1>1, <1>4, <1>5, <2>1, <2>2 DEF Collected, AfterItems, AfterOps, AfterImages, vault
<1>10. IssuedIsSound(w)' /\ Heard(w)'
  BY <1>1, <1>4, <1>5, NotIssued DEF Heard
<1> QED BY <1>1, <1>5, <1>7, <1>8, <1>9, <1>10 DEF StepOK, JobInv, JobsOK

LEMMA ReadOpsStep ==
  ASSUME VaultInv, JobsOK, NEW w \in Reporters, JobInv(w), ReadOps(w)
  PROVE  StepOK(w)
<1> DEFINE c == at[w].case
<1>0. /\ at[w].pc = "ops" /\ UNCHANGED <<vault, known, issued>>
      /\ Takes(w, OpFacts(c), "images") \/ Abandons(w)
  BY DEF ReadOps, Reads
<1> SUFFICES ASSUME Takes(w, OpFacts(c), "images") PROVE StepOK(w)
  BY <1>0, AbandonsStep
<1>1. /\ at[w].pc = "ops" /\ Takes(w, OpFacts(c), "images") /\ UNCHANGED <<vault, known, issued>>
  BY <1>0
<1>2. at[w].kind = "exam"
  BY <1>1 DEF JobInv, ReadsItsOwn
<1>3. OpFacts(c) \in SUBSET Facts /\ "images" \in Phase
  BY DEF OpFacts, OpsOf, Facts, Phase, VaultInv, VaultTypeOK
<1>4. /\ at' \in [Reporters -> Job] /\ SameSubject(w) /\ Others(w)
      /\ at'[w].pc = "images" /\ at'[w].content = at[w].content \cup OpFacts(c)
      /\ at'[w].listed = at[w].listed /\ at'[w].todo = at[w].todo
      /\ at'[w].skipped = at[w].skipped
  BY <1>1, <1>3, TakesJob
<1>5. /\ Subject(at[w])' = CaseFacts(c) /\ Subject(at[w]) = CaseFacts(c)
      /\ ItemsOf(at[w].case)' = ItemsOf(c)
      /\ ImagesOf(at[w].case)' = ImagesOf(c)
  BY <1>1, <1>2, <1>4, ExamStays, ExamSubject
<1>6. ReadsItsOwn(w)'
  BY <1>2, <1>4 DEF ReadsItsOwn, SameSubject
<1>7. IsHeld(w)'
  <2>1. OpFacts(c) \subseteq CaseFacts(c)
    BY DEF OpFacts, OpsOf, CaseFacts
  <2> QED BY <1>1, <1>2, <1>4, <1>5, <2>1 DEF JobInv, IsHeld, SameSubject
<1>8. Collected(w)'
  <2>1. \A t \in {"op", "done"}, o \in Ops : <<t, o>> \in known[w] => <<t, o>> \in OpFacts(c)
    <3>1. \A o \in Ops : <<"op", o>> \in known[w] => <<"op", o>> \in OpFacts(c)
      BY <1>5 DEF JobInv, IsHeld, CaseFacts, OpFacts, OpsOf
    <3>2. \A o \in Ops : <<"done", o>> \in known[w] => <<"done", o>> \in OpFacts(c)
      BY <1>5 DEF JobInv, IsHeld, CaseFacts, OpFacts, OpsOf, VaultInv, VaultTypeOK
    <3> QED BY <3>1, <3>2
  <2> QED BY <1>1, <1>4, <2>1
          DEF JobInv, Collected, SameSubject, AfterItems, AfterOps, AfterImages, vault
<1>9. IssuedIsSound(w)' /\ Heard(w)'
  BY <1>1, <1>4, NotIssued DEF Heard
<1> QED BY <1>1, <1>4, <1>6, <1>7, <1>8, <1>9 DEF StepOK, JobInv, JobsOK

LEMMA ReadImagesStep ==
  ASSUME VaultInv, JobsOK, NEW w \in Reporters, JobInv(w), ReadImages(w)
  PROVE  StepOK(w)
<1> DEFINE c == at[w].case
           job == [at[w] EXCEPT !.pc = "events", !.listed = ImagesOf(c)]
<1>0. /\ at[w].pc = "images" /\ UNCHANGED <<vault, known, issued>>
      /\ at' = [at EXCEPT ![w] = job] \/ Abandons(w)
  BY DEF ReadImages, Reads
<1> SUFFICES ASSUME at' = [at EXCEPT ![w] = job] PROVE StepOK(w)
  BY <1>0, AbandonsStep
<1>1. /\ at[w].pc = "images" /\ at' = [at EXCEPT ![w] = job] /\ UNCHANGED <<vault, known, issued>>
  BY <1>0
<1>2. at[w] \in Job /\ at[w].kind = "exam"
  BY <1>1 DEF JobsOK, JobInv, ReadsItsOwn
<1>3. ImagesOf(c) \in SUBSET Images
  BY DEF ImagesOf, VaultInv, VaultTypeOK
<1>4. /\ job \in Job /\ job.pc = "events" /\ job.content = at[w].content
      /\ job.shell = at[w].shell /\ job.kind = at[w].kind /\ job.case = c
      /\ job.item = at[w].item /\ job.listed = ImagesOf(c) /\ job.todo = at[w].todo
      /\ job.skipped = at[w].skipped
  BY <1>2, <1>3 DEF Job, Phase
<1> HIDE DEF job
<1>5. at' \in [Reporters -> Job] /\ at'[w] = job /\ Others(w) /\ SameSubject(w)
  BY <1>1, <1>4 DEF JobsOK, Others, SameSubject
<1>6. /\ Subject(at[w])' = CaseFacts(c) /\ Subject(at[w]) = CaseFacts(c)
      /\ ItemsOf(at[w].case)' = ItemsOf(c)
      /\ ImagesOf(at[w].case)' = ImagesOf(c)
  BY <1>1, <1>2, <1>5, ExamStays, ExamSubject
<1>7. ReadsItsOwn(w)'
  BY <1>2, <1>4, <1>5 DEF ReadsItsOwn
<1>8. IsHeld(w)'
  BY <1>1, <1>2, <1>4, <1>5, <1>6 DEF JobInv, IsHeld
<1>9. Collected(w)'
  <2>1. \A m \in Images : <<"image", m>> \in known[w] => m \in ImagesOf(c)
    BY <1>6 DEF JobInv, IsHeld, CaseFacts, ImagesOf
  <2>2. \A o \in Ops : <<"done", o>> \in at[w].content /\ items[ops[o].item] = c =>
          \E m \in ImagesOf(c) : images[m].op = o
    <3> SUFFICES ASSUME NEW o \in Ops, <<"done", o>> \in at[w].content,
                        items[ops[o].item] = c
                 PROVE  \E m \in ImagesOf(c) : images[m].op = o
      OBVIOUS
    <3>1. <<"done", o>> \in CaseFacts(c)
      BY <1>2, <1>6 DEF JobInv, IsHeld
    <3>2. o \in complete
      BY <3>1 DEF CaseFacts
    <3>3. PICK m \in DOMAIN images : images[m].op = o
      BY <3>2 DEF VaultInv, ImagesFirst
    <3>4. images[m].item = ops[o].item
      BY <3>3 DEF VaultInv, ImagesFirst
    <3> QED BY <3>3, <3>4 DEF ImagesOf
  <2>3. \A e \in Events : <<"event", e>> \in known[w] =>
          \/ <<"event", e>> \in at[w].content
          \/ events[e] \in at[w].todo \/ events[e] \in at[w].skipped
    BY <1>1, <1>2 DEF JobInv, Collected, AfterItems
  <2>4. /\ \A i \in Items : <<"item", i>> \in known[w] => <<"item", i>> \in at[w].content
        /\ \A t \in {"op", "done"}, o \in Ops :
             <<t, o>> \in known[w] => <<t, o>> \in at[w].content
    BY <1>1, <1>2 DEF JobInv, Collected, AfterItems, AfterOps
  <2> QED BY <1>1, <1>4, <1>5, <2>1, <2>2, <2>3, <2>4 DEF Collected, vault
<1>10. IssuedIsSound(w)' /\ Heard(w)'
  BY <1>1, <1>4, <1>5, NotIssued DEF Heard
<1> QED BY <1>1, <1>5, <1>7, <1>8, <1>9, <1>10 DEF StepOK, JobInv, JobsOK

LEMMA ReadEventsStep ==
  ASSUME VaultInv, JobsOK, NEW w \in Reporters, JobInv(w), ReadEvents(w)
  PROVE  StepOK(w)
<1>1. at[w].pc = "events" /\ UNCHANGED <<vault, known, issued>>
  BY DEF ReadEvents, Reads
<1>2. at[w] \in Job /\ at[w].kind = "exam"
  BY <1>1 DEF JobsOK, JobInv, ReadsItsOwn
<1>3. CASE at[w].todo = {} /\ Takes(w, {}, "head")
  <2>1. {} \in SUBSET Facts /\ "head" \in Phase
    BY DEF Phase
  <2>2. /\ at' \in [Reporters -> Job] /\ SameSubject(w) /\ Others(w)
        /\ at'[w].pc = "head" /\ at'[w].content = at[w].content \cup {}
        /\ at'[w].listed = at[w].listed /\ at'[w].todo = at[w].todo
        /\ at'[w].skipped = at[w].skipped
    BY <1>3, <2>1, TakesJob
  <2>3. ReadsItsOwn(w)'
    BY <2>2 DEF ReadsItsOwn
  <2>4. at[w].pc \in AfterImages /\ at'[w].pc \in AfterImages
    BY <1>1, <2>2 DEF AfterImages
  <2>5. JobInv(w)'
    BY <1>1, <1>2, <1>3, <2>2, <2>3, <2>4, Advance
  <2> QED BY <1>1, <2>2, <2>5 DEF StepOK, JobsOK
<1>4. ASSUME NEW i \in at[w].todo,
             at' = [at EXCEPT ![w] = [at[w] EXCEPT !.todo = @ \ {i},
                      !.content = @ \cup EventFacts(i)]]
      PROVE  StepOK(w)
  <2> DEFINE c == at[w].case
             job == [at[w] EXCEPT !.todo = @ \ {i}, !.content = @ \cup EventFacts(i)]
  <2>1. EventFacts(i) \in SUBSET Facts /\ EventFacts(i) \subseteq CaseFacts(c)
    <3>1. i \in ItemsOf(c)
      BY DEF JobInv, IsHeld
    <3> QED BY <3>1 DEF EventFacts, EventsOf, Facts, CaseFacts, ItemsOf, VaultInv, VaultTypeOK
  <2>2. /\ job \in Job /\ job.pc = at[w].pc /\ job.content = at[w].content \cup EventFacts(i)
        /\ job.shell = at[w].shell /\ job.kind = at[w].kind /\ job.case = c
        /\ job.item = at[w].item /\ job.listed = at[w].listed /\ job.todo = at[w].todo \ {i}
        /\ job.skipped = at[w].skipped
    BY <1>2, <2>1 DEF Job
  <2>3. at' = [at EXCEPT ![w] = job]
    BY <1>4
  <2> HIDE DEF job
  <2>4. at' \in [Reporters -> Job] /\ at'[w] = job /\ Others(w) /\ SameSubject(w)
    BY <2>2, <2>3 DEF JobsOK, Others, SameSubject
  <2>5. /\ Subject(at[w])' = CaseFacts(c) /\ Subject(at[w]) = CaseFacts(c)
        /\ ItemsOf(at[w].case)' = ItemsOf(c)
        /\ ImagesOf(at[w].case)' = ImagesOf(c)
    BY <1>1, <1>2, <2>4, ExamStays, ExamSubject
  <2>6. ReadsItsOwn(w)'
    BY <1>2, <2>2, <2>4 DEF JobInv, ReadsItsOwn
  <2>7. IsHeld(w)'
    BY <1>1, <1>2, <2>1, <2>2, <2>4, <2>5 DEF JobInv, IsHeld
  <2>8. Collected(w)'
    <3>1. \A e \in Events : <<"event", e>> \in known[w] =>
            \/ <<"event", e>> \in at[w].content \cup EventFacts(i)
            \/ events[e] \in at[w].todo \ {i}
            \/ events[e] \in at[w].skipped
      <4> SUFFICES ASSUME NEW e \in Events, <<"event", e>> \in known[w], events[e] = i
                   PROVE  <<"event", e>> \in EventFacts(i)
        BY <1>1, <1>2 DEF JobInv, Collected, AfterItems
      <4>1. e \in DOMAIN events
        BY <2>5 DEF JobInv, IsHeld, CaseFacts
      <4> QED BY <4>1 DEF EventFacts, EventsOf
    <3>2. /\ \A j \in Items : <<"item", j>> \in known[w] => <<"item", j>> \in at[w].content
          /\ \A t \in {"op", "done"}, o \in Ops : <<t, o>> \in known[w] => <<t, o>> \in at[w].content
          /\ \A m \in Images : <<"image", m>> \in known[w] => m \in at[w].listed
      BY <1>1, <1>2 DEF JobInv, Collected, AfterItems, AfterOps, AfterImages
    <3>3. \A o \in Ops : <<"done", o>> \in job.content /\ items[ops[o].item] = c =>
            \E m \in at[w].listed : images[m].op = o
      BY <1>1, <1>2, <2>2 DEF JobInv, Collected, AfterImages, EventFacts
    <3> QED BY <1>1, <2>2, <2>4, <3>1, <3>2, <3>3 DEF Collected, vault
  <2>9. IssuedIsSound(w)' /\ Heard(w)'
    BY <1>1, <1>2, <2>2, <2>4, NotIssued DEF Heard
  <2> QED BY <1>1, <2>4, <2>6, <2>7, <2>8, <2>9 DEF StepOK, JobInv, JobsOK
<1>5. ASSUME NEW i \in at[w].todo, Skips(w, i, "events")
      PROVE  StepOK(w)
  <2>1. i \in Items \cup {"none"} /\ "events" \in Phase
    BY <1>2 DEF Job, Phase
  <2>2. /\ at' \in [Reporters -> Job] /\ SameSubject(w) /\ Others(w)
        /\ at'[w].pc = "events" /\ at'[w].content = at[w].content
        /\ at'[w].listed = at[w].listed /\ at'[w].todo = at[w].todo \ {i}
        /\ at'[w].skipped = at[w].skipped \cup {i}
    BY <1>5, <2>1, SkipsJob
  <2>3. /\ Subject(at[w])' = Subject(at[w])
        /\ ItemsOf(at[w].case)' = ItemsOf(at[w].case)
        /\ ImagesOf(at[w].case)' = ImagesOf(at[w].case)
    BY <1>1, <2>2, SubjectStays
  <2>4. ReadsItsOwn(w)'
    BY <1>2, <2>2 DEF ReadsItsOwn, SameSubject
  <2>5. IsHeld(w)'
    BY <1>1, <2>2, <2>3 DEF JobInv, IsHeld, SameSubject
  <2>6. Collected(w)'
    BY <1>1, <1>2, <2>2
       DEF JobInv, Collected, SameSubject, AfterItems, AfterOps, AfterImages, vault
  <2>7. IssuedIsSound(w)' /\ Heard(w)'
    BY <1>1, <1>2, <2>2, NotIssued DEF Heard
  <2> QED BY <1>1, <2>2, <2>4, <2>5, <2>6, <2>7 DEF StepOK, JobInv, JobsOK
<1> QED BY <1>3, <1>4, <1>5 DEF ReadEvents

(* The command line's acquisition report, or custody report: a fact of its *)
(* subject, which is neither an examination's nor a completion.            *)
LEMMA TakesOne ==
  ASSUME JobsOK, NEW w \in Reporters, JobInv(w), UNCHANGED <<vault, known, issued>>,
         at[w].pc \in {"image", "event"},
         NEW facts \in SUBSET Facts, facts \subseteq Subject(at[w]),
         \A o \in Ops : <<"done", o>> \notin facts,
         at[w].pc = "event" => facts = Subject(at[w]),
         Takes(w, facts, "head")
  PROVE  StepOK(w)
<1>1. "head" \in Phase /\ at[w].kind # "exam"
  BY DEF Phase, JobInv, ReadsItsOwn
<1>2. /\ at' \in [Reporters -> Job] /\ SameSubject(w) /\ Others(w)
      /\ at'[w].pc = "head" /\ at'[w].content = at[w].content \cup facts
      /\ at'[w].listed = at[w].listed /\ at'[w].todo = at[w].todo
  BY <1>1, TakesJob
<1>3. /\ Subject(at[w])' = Subject(at[w])
      /\ ItemsOf(at[w].case)' = ItemsOf(at[w].case)
      /\ ImagesOf(at[w].case)' = ImagesOf(at[w].case)
  BY <1>2, SubjectStays
<1>4. ReadsItsOwn(w)' /\ Collected(w)'
  BY <1>1, <1>2 DEF ReadsItsOwn, Collected, SameSubject
<1>5. IsHeld(w)'
  BY <1>1, <1>2, <1>3 DEF JobInv, IsHeld, SameSubject
<1>6. IssuedIsSound(w)' /\ Heard(w)'
  <2>1. at[w].kind # "acquisition" => known[w] \subseteq facts
    BY DEF JobInv, ReadsItsOwn, IsHeld
  <2> QED BY <1>2, <2>1, NotIssued DEF Heard, SameSubject
<1> QED BY <1>2, <1>4, <1>5, <1>6 DEF StepOK, JobInv, JobsOK

LEMMA ReadImageStep ==
  ASSUME VaultInv, JobsOK, NEW w \in Reporters, JobInv(w), ReadImage(w)
  PROVE  StepOK(w)
<1>1. at[w].pc = "image" /\ UNCHANGED <<vault, known, issued>>
  BY DEF ReadImage, Reads
<1>2. Subject(at[w]) = CaseFacts(at[w].case)
  BY <1>1 DEF JobInv, ReadsItsOwn, Subject, FirstRead, FirstReadCli
<1>3. CASE Takes(w, {}, "head")
  BY <1>1, <1>3, TakesOne
<1>4. ASSUME NEW m \in ImagesOf(at[w].case), Takes(w, {<<"image", m>>}, "head")
      PROVE  StepOK(w)
  <2>1. {<<"image", m>>} \in SUBSET Facts /\ \A o \in Ops : <<"done", o>> \notin {<<"image", m>>}
    BY DEF ImagesOf, Facts, VaultInv, VaultTypeOK
  <2>2. {<<"image", m>>} \subseteq CaseFacts(at[w].case)
    BY DEF ImagesOf, CaseFacts, VaultInv, VaultTypeOK
  <2> QED BY <1>1, <1>2, <1>4, <2>1, <2>2, TakesOne
<1> QED BY <1>3, <1>4 DEF ReadImage

LEMMA ReadCustodyStep ==
  ASSUME VaultInv, JobsOK, NEW w \in Reporters, JobInv(w), ReadCustody(w)
  PROVE  StepOK(w)
<1>1. /\ at[w].pc = "event" /\ UNCHANGED <<vault, known, issued>>
      /\ Takes(w, EventFacts(at[w].item), "head") \/ Skips(w, at[w].item, "head")
  BY DEF ReadCustody, Reads
<1>2. EventFacts(at[w].item) = Subject(at[w])
  BY <1>1 DEF JobInv, ReadsItsOwn, Subject, FirstRead, FirstReadCli, EventFacts, EventsOf
<1>3. /\ EventFacts(at[w].item) \in SUBSET Facts
      /\ \A o \in Ops : <<"done", o>> \notin EventFacts(at[w].item)
  BY DEF EventFacts, EventsOf, Facts, VaultInv, VaultTypeOK
<1>4. CASE Takes(w, EventFacts(at[w].item), "head")
  BY <1>1, <1>2, <1>3, <1>4, TakesOne
<1>5. CASE Skips(w, at[w].item, "head")
  <2>1. at[w].item \in Items \cup {"none"} /\ "head" \in Phase
    BY DEF JobsOK, Job, Phase
  <2>2. /\ at' \in [Reporters -> Job] /\ SameSubject(w) /\ Others(w)
        /\ at'[w].pc = "head" /\ at'[w].content = at[w].content
        /\ at'[w].listed = at[w].listed /\ at'[w].todo \subseteq at[w].todo
        /\ at'[w].skipped = at[w].skipped \cup {at[w].item}
    BY <1>5, <2>1, SkipsJob
  <2>3. /\ Subject(at[w])' = Subject(at[w])
        /\ ItemsOf(at[w].case)' = ItemsOf(at[w].case)
        /\ ImagesOf(at[w].case)' = ImagesOf(at[w].case)
    BY <1>1, <2>2, SubjectStays
  <2>4. at[w].kind = "custody"
    BY <1>1 DEF JobInv, ReadsItsOwn
  <2>5. ReadsItsOwn(w)' /\ Collected(w)'
    BY <2>2, <2>4 DEF ReadsItsOwn, Collected, SameSubject
  <2>6. IsHeld(w)'
    BY <1>1, <2>2, <2>3 DEF JobInv, IsHeld, SameSubject
  <2>7. Heard(w)'
    <3>1. \A e \in Events : <<"event", e>> \in known[w] => events[e] = at[w].item
      BY <1>2 DEF JobInv, IsHeld, EventFacts, EventsOf
    <3> QED BY <1>1, <2>2, <3>1 DEF Heard, vault
  <2>8. IssuedIsSound(w)'
    BY <1>1, NotIssued
  <2> QED BY <1>1, <2>2, <2>5, <2>6, <2>7, <2>8 DEF StepOK, JobInv, JobsOK
<1> QED BY <1>1, <1>4, <1>5

LEMMA ReadHeadStep ==
  ASSUME JobsOK, NEW w \in Reporters, JobInv(w),
         log \in Seq({Report(v) : v \in Reporters} \cup {Other}), ReadHead(w)
  PROVE  StepOK(w)
<1> DEFINE job == [at[w] EXCEPT !.pc = "insert", !.head = Len(log)]
<1>0. /\ at[w].pc = "head" /\ UNCHANGED <<vault, known, issued>>
      /\ at' = [at EXCEPT ![w] = job] \/ Abandons(w)
  BY DEF ReadHead, Reads
<1> SUFFICES ASSUME at' = [at EXCEPT ![w] = job] PROVE StepOK(w)
  BY <1>0, AbandonsStep
<1>1. /\ at[w].pc = "head" /\ at' = [at EXCEPT ![w] = job] /\ UNCHANGED <<vault, known, issued>>
  BY <1>0
<1>2. Len(log) \in Nat /\ at[w] \in Job
  BY DEF JobsOK
<1>3. /\ job \in Job /\ job.pc = "insert" /\ job.content = at[w].content
      /\ job.shell = at[w].shell /\ job.kind = at[w].kind /\ job.case = at[w].case
      /\ job.item = at[w].item /\ job.listed = at[w].listed /\ job.todo = at[w].todo
      /\ job.skipped = at[w].skipped
  BY <1>2 DEF Job, Phase
<1> HIDE DEF job
<1>4. at' \in [Reporters -> Job] /\ at'[w] = job /\ Others(w) /\ SameSubject(w)
  BY <1>1, <1>3 DEF JobsOK, Others, SameSubject
<1>5. ReadsItsOwn(w)' /\ at[w].pc \in AfterImages /\ at'[w].pc \in AfterImages
  BY <1>1, <1>3, <1>4 DEF ReadsItsOwn, AfterImages
<1>6. JobInv(w)'
  BY <1>1, <1>3, <1>4, <1>5, Advance
<1> QED BY <1>1, <1>4, <1>6 DEF StepOK, JobsOK

LEMMA InsertStep ==
  ASSUME JobsOK, NEW w \in Reporters, JobInv(w), Insert(w)
  PROVE  StepOK(w)
<1>1. /\ at[w].pc = "insert" /\ UNCHANGED <<vault, known, issued>>
      /\ \E pc \in {"load", "failed"} : Takes(w, {}, pc)
  BY DEF Insert
<1>2. PICK pc \in {"load", "failed"} : Takes(w, {}, pc)
  BY <1>1
<1>3. {} \in SUBSET Facts /\ pc \in Phase
  BY DEF Phase
<1>4. /\ at' \in [Reporters -> Job] /\ SameSubject(w) /\ Others(w)
      /\ at'[w].pc = pc /\ at'[w].content = at[w].content \cup {}
      /\ at'[w].listed = at[w].listed /\ at'[w].todo = at[w].todo
      /\ at'[w].skipped = at[w].skipped
  BY <1>2, <1>3, TakesJob
<1>5. /\ ReadsItsOwn(w)' /\ at[w].pc \in AfterImages
      /\ at'[w].pc \in AfterImages \/ at'[w].pc = "failed"
  BY <1>1, <1>4 DEF ReadsItsOwn, AfterImages
<1>6. JobInv(w)'
  BY <1>1, <1>4, <1>5, Advance
<1> QED BY <1>1, <1>4, <1>6 DEF StepOK, JobsOK

LEMMA RecordStep ==
  ASSUME JobsOK, NEW w \in Reporters, JobInv(w), Record(w) \/ SaveCli(w) \/ SaveDesktop(w)
  PROVE  StepOK(w)
<1>1. /\ at[w].pc \in {"record", "save"} /\ UNCHANGED <<vault, known, issued>>
      /\ \E pc \in {"save", "done", "failed"} : Takes(w, {}, pc)
  BY DEF Record, SaveCli, SaveDesktop, Writes, Reads
<1>2. PICK pc \in {"save", "done", "failed"} : Takes(w, {}, pc)
  BY <1>1
<1>3. {} \in SUBSET Facts /\ pc \in Phase
  BY DEF Phase
<1>4. at' \in [Reporters -> Job] /\ Others(w)
  BY <1>2, <1>3, TakesJob
<1>5. JobInv(w)'
  BY <1>1, <1>2, AfterIssue
<1> QED BY <1>1, <1>4, <1>5 DEF StepOK, JobsOK

(* What the envelope shows is what was read and the images that were       *)
(* listed; the constant of an acquisition report without image shows       *)
(* nothing.                                                                *)
LEMMA EnvelopeShows ==
  ASSUME VaultInv, JobsOK, NEW w \in Reporters, JobInv(w), NEW stamp
  PROVE  Shown(Envelope(w, stamp)) =
           at[w].content \cup { <<"image", m>> : m \in at[w].listed }
<1> DEFINE env == Envelope(w, stamp)
           shown == { m \in DOMAIN images : <<"image", m>> \in at[w].content }
<1>1. env.content = at[w].content /\ env.manifest = Manifest(w)
  BY DEF Envelope
<1>2. Constant \notin DOMAIN images /\ at[w].listed \subseteq DOMAIN images
  BY ConstantAssumption DEF VaultInv, VaultTypeOK, JobInv, IsHeld, ImagesOf
<1> HIDE DEF env
<1>3. Shown(env) = at[w].content \cup
        { <<"image", entry.hash>> : entry \in { x \in Manifest(w) : x.hash # Constant } }
  BY <1>1 DEF Shown
<1>4. CASE at[w].kind = "acquisition"
  <2>1. Manifest(w) = { [item |-> at[w].item, hash |-> m] :
                          m \in IF shown = {} THEN {Constant} ELSE shown }
    BY <1>4 DEF Manifest, AcquisitionManifest
  <2>2. ASSUME NEW x \in Manifest(w), x.hash # Constant
        PROVE  <<"image", x.hash>> \in at[w].content
    <3>1. PICK m \in IF shown = {} THEN {Constant} ELSE shown :
                 x = [item |-> at[w].item, hash |-> m]
      BY <2>1, <2>2
    <3>2. x.hash = m /\ m \in shown
      BY <2>2, <3>1
    <3> QED BY <3>2
  <2>3. at[w].listed = {}
    BY <1>4 DEF JobInv, IsHeld
  <2> QED BY <1>3, <2>2, <2>3 DEF env
<1>5. CASE at[w].kind # "acquisition"
  <2>1. Manifest(w) = { [item |-> images[m].item, hash |-> m] : m \in at[w].listed }
    BY <1>5 DEF Manifest
  <2>2. { <<"image", entry.hash>> : entry \in { x \in Manifest(w) : x.hash # Constant } } =
          { <<"image", m>> : m \in at[w].listed }
    <3>1. ASSUME NEW x \in Manifest(w)
          PROVE  x.hash \in at[w].listed
      <4>1. PICK m \in at[w].listed : x = [item |-> images[m].item, hash |-> m]
        BY <2>1
      <4> QED BY <4>1
    <3>2. ASSUME NEW m \in at[w].listed
          PROVE  \E x \in Manifest(w) : x.hash = m /\ x.hash # Constant
      <4>1. [item |-> images[m].item, hash |-> m] \in Manifest(w)
        BY <2>1
      <4> QED BY <1>2, <4>1
    <3> HIDE DEF Manifest
    <3> QED BY <3>1, <3>2
  <2> QED BY <1>3, <2>2 DEF env
<1> QED BY <1>4, <1>5

LEMMA LoadStep ==
  ASSUME VaultInv, JobsOK, NEW w \in Reporters, JobInv(w), Load(w)
  PROVE  /\ StepOK(w)
         /\ DOMAIN issued \subseteq DOMAIN issued' /\ DOMAIN issued' \subseteq DOMAIN issued \cup {w}
         /\ \A v \in DOMAIN issued : v # w => issued'[v] = issued[v]
<1>0. CASE Abandons(w) /\ UNCHANGED issued
  BY <1>0, AbandonsStep DEF Load
<1> SUFFICES ASSUME ~ (Abandons(w) /\ UNCHANGED issued)
             PROVE  /\ StepOK(w) /\ DOMAIN issued' = DOMAIN issued \cup {w}
                    /\ \A v \in DOMAIN issued : v # w => issued'[v] = issued[v]
  BY <1>0
<1>1. /\ at[w].pc = "load" /\ UNCHANGED <<vault, known>> /\ Takes(w, {}, "record")
      /\ \E stamp \in Stamps : issued' = With(issued, w, Envelope(w, stamp))
  BY DEF Load
<1>2. PICK stamp \in Stamps : issued' = With(issued, w, Envelope(w, stamp))
  BY <1>1
<1> DEFINE env == Envelope(w, stamp)
           listed == { <<"image", m>> : m \in at[w].listed }
<1>3. Shown(env) = at[w].content \cup listed
  BY EnvelopeShows
<1>4. env.case = at[w].case /\ env.content = at[w].content
  BY DEF Envelope
<1> HIDE DEF env
<1>5. /\ DOMAIN issued' = DOMAIN issued \cup {w} /\ issued'[w] = env
      /\ \A v \in DOMAIN issued : v # w => issued'[v] = issued[v]
  BY <1>2 DEF With, env
<1>6. {} \in SUBSET Facts /\ "record" \in Phase
  BY DEF Phase
<1>7. /\ at' \in [Reporters -> Job] /\ SameSubject(w) /\ Others(w)
      /\ at'[w].pc = "record" /\ at'[w].content = at[w].content \cup {}
      /\ at'[w].listed = at[w].listed /\ at'[w].todo = at[w].todo
      /\ at'[w].skipped = at[w].skipped
  BY <1>1, <1>6, TakesJob
<1>8. /\ Subject(at[w])' = Subject(at[w])
      /\ ItemsOf(at[w].case)' = ItemsOf(at[w].case)
      /\ ImagesOf(at[w].case)' = ImagesOf(at[w].case)
      /\ Skipped(w)' = Skipped(w)
  BY <1>1, <1>7, SubjectStays
<1>9. JobsOK'
  BY <1>1, <1>5, <1>7 DEF JobsOK
<1>10. ReadsItsOwn(w)' /\ Collected(w)' /\ Heard(w)'
  BY <1>7 DEF ReadsItsOwn, Collected, Heard, AfterItems, AfterOps, AfterImages
<1>11. IsHeld(w)'
  BY <1>1, <1>7, <1>8 DEF JobInv, IsHeld, SameSubject
<1>12. at[w].kind = "exam" => known[w] \subseteq Shown(env) \cup Skipped(w)
  <2> SUFFICES ASSUME at[w].kind = "exam", NEW fact \in CaseFacts(at[w].case), fact \in known[w]
               PROVE  fact \in at[w].content \cup listed \cup Skipped(w)
    BY <1>3, ExamSubject DEF JobInv, IsHeld
  <2>1. /\ \A i \in Items : <<"item", i>> \in known[w] => <<"item", i>> \in at[w].content
        /\ \A t \in {"op", "done"}, o \in Ops : <<t, o>> \in known[w] => <<t, o>> \in at[w].content
        /\ \A m \in Images : <<"image", m>> \in known[w] => m \in at[w].listed
        /\ \A e \in Events : <<"event", e>> \in known[w] =>
             <<"event", e>> \in at[w].content \/ events[e] \in at[w].skipped
    BY <1>1 DEF JobInv, Collected, AfterItems, AfterOps, AfterImages
  <2>2. /\ DOMAIN items \subseteq Items /\ DOMAIN ops \subseteq Ops /\ complete \subseteq Ops
        /\ DOMAIN images \subseteq Images /\ DOMAIN events \subseteq Events
    BY DEF VaultInv, VaultTypeOK
  <2>3. \/ \E i \in Items : fact = <<"item", i>>
        \/ \E t \in {"op", "done"}, o \in Ops : fact = <<t, o>>
        \/ \E m \in Images : fact = <<"image", m>>
        \/ \E e \in DOMAIN events : fact = <<"event", e>>
    BY <2>2 DEF CaseFacts
  <2> QED BY <2>1, <2>2, <2>3 DEF Skipped
<1>17. at[w].kind \notin {"exam", "acquisition"} => known[w] \subseteq Shown(env) \cup Skipped(w)
  <2> SUFFICES ASSUME at[w].kind \notin {"exam", "acquisition"}, NEW fact \in known[w]
               PROVE  fact \in at[w].content \cup Skipped(w)
    BY <1>3
  <2>1. fact \in Subject(at[w]) /\ FirstRead(at[w].shell, at[w].kind) \in {"event", "head"}
    BY DEF JobInv, IsHeld, FirstRead, FirstReadCli, FirstReadDesktop
  <2>2. PICK e \in DOMAIN events : fact = <<"event", e>>
    BY <2>1 DEF Subject
  <2>3. <<"event", e>> \in at[w].content \/ events[e] \in at[w].skipped
    BY <1>1, <2>2 DEF JobInv, Heard, VaultInv, VaultTypeOK
  <2> QED BY <2>2, <2>3 DEF Skipped
<1>13. Shown(env) \subseteq {<<"default", at[w].kind>>} \cup Subject(at[w])
  <2>1. CASE at[w].kind = "exam"
    <3>1. listed \subseteq CaseFacts(at[w].case)
      BY DEF JobInv, IsHeld, ImagesOf, CaseFacts, VaultInv, VaultTypeOK
    <3> QED BY <1>3, <2>1, <3>1, ExamSubject DEF JobInv, IsHeld
  <2>2. CASE at[w].kind # "exam"
    BY <1>3, <2>2 DEF JobInv, IsHeld
  <2> QED BY <2>1, <2>2
<1>14. \A o \in Ops : <<"done", o>> \in at[w].content /\ items[ops[o].item] = at[w].case =>
         \E m \in DOMAIN images : images[m].op = o /\ <<"image", m>> \in Shown(env)
  <2> SUFFICES ASSUME NEW o \in Ops, <<"done", o>> \in at[w].content,
                      items[ops[o].item] = at[w].case
               PROVE  \E m \in DOMAIN images : images[m].op = o /\ <<"image", m>> \in Shown(env)
    OBVIOUS
  <2>1. at[w].kind = "exam"
    BY DEF JobInv, IsHeld
  <2>2. PICK m \in at[w].listed : images[m].op = o
    BY <1>1, <2>1 DEF JobInv, Collected, AfterImages
  <2>3. m \in DOMAIN images
    BY DEF JobInv, IsHeld, ImagesOf
  <2> QED BY <1>3, <2>2, <2>3
<1>15. Shown(issued[w])' = Shown(env)
  BY <1>5 DEF Shown
<1>16. IssuedIsSound(w)'
  <2> HIDE DEF Shown
  <2>1. Shown(issued[w])' \subseteq ({<<"default", at[w].kind>>} \cup Subject(at[w]))'
    BY <1>7, <1>8, <1>13, <1>15 DEF SameSubject
  <2>2. (at[w].kind # "acquisition" => known[w] \subseteq Shown(issued[w]) \cup Skipped(w))'
    BY <1>1, <1>7, <1>8, <1>12, <1>15, <1>17 DEF SameSubject
  <2>3. (\A o \in Ops : <<"done", o>> \in at[w].content /\ items[ops[o].item] = at[w].case =>
           \E m \in DOMAIN images : images[m].op = o /\ <<"image", m>> \in Shown(issued[w]))'
    BY <1>1, <1>7, <1>14, <1>15 DEF SameSubject, vault
  <2>4. (/\ at[w].pc \in {"record", "save", "done", "failed"}
         /\ issued[w].case = at[w].case /\ issued[w].content = at[w].content)'
    BY <1>4, <1>5, <1>7 DEF SameSubject
  <2> QED BY <2>1, <2>2, <2>3, <2>4 DEF IssuedIsSound
<1> QED BY <1>5, <1>7, <1>9, <1>10, <1>11, <1>16 DEF StepOK, JobInv

-----------------------------------------------------------------------------
(* The audit log, the reports table and the files.                         *)

Entry == {Report(w) : w \in Reporters} \cup {Other}

Book ==
  /\ log \in Seq(Entry)
  /\ \A w \in Reporters :
       /\ at[w].head \in 0 .. Len(log)
       /\ at[w].pc \in {"record", "save"} => w \in DOMAIN issued
  /\ reports \subseteq Reporters
  /\ DOMAIN files \subseteq DOMAIN issued
  /\ damage \in 0 .. MaxDamage

(* A step of w that leaves what it has written so far.                     *)
LEMMA BookRests ==
  ASSUME Book, NEW w \in Reporters, UNCHANGED <<log, reports, issued, files, damage>>, Others(w),
         at'[w].head \in {0, at[w].head, Len(log)},
         at'[w].pc \in {"record", "save"} => w \in DOMAIN issued
  PROVE  Book'
<1>1. Len(log) \in Nat
  BY DEF Book
<1> QED BY <1>1 DEF Book, Others

LEMMA ReadsBook ==
  ASSUME JobsOK, Book, NEW w \in Reporters,
         \/ \E shell \in {"cli", "desktop"}, kind \in Kind, c \in Cases, i \in Items :
              Request(w, shell, kind, c, i)
         \/ ReadCase(w) \/ ReadItems(w) \/ ReadOps(w) \/ ReadImages(w) \/ ReadEvents(w)
         \/ ReadImage(w) \/ ReadCustody(w) \/ ReadHead(w)
  PROVE  Book'
<1>1. at[w] \in Job /\ at \in [Reporters -> Job]
  BY DEF JobsOK
<1>2. SUFFICES /\ UNCHANGED <<log, reports, issued, files, damage>> /\ Others(w)
               /\ at'[w].head \in {0, at[w].head, Len(log)}
               /\ at'[w].pc \notin {"record", "save"}
  BY BookRests
<1>3. ASSUME NEW shell \in {"cli", "desktop"}, NEW kind \in Kind, NEW c \in Cases, NEW i \in Items,
             Request(w, shell, kind, c, i)
      PROVE  /\ UNCHANGED <<log, reports, issued, files, damage>> /\ Others(w)
             /\ at'[w].head = 0 /\ at'[w].pc \notin {"record", "save"}
  BY <1>1, <1>3 DEF Request, Others, FirstRead, FirstReadCli, FirstReadDesktop
<1>12. ASSUME NEW facts, NEW pc, Takes(w, facts, pc)
       PROVE  Others(w) /\ at'[w].head = at[w].head /\ at'[w].pc = pc
  BY <1>1, <1>12 DEF Takes, Others, Job
<1>13. CASE Reads /\ Abandons(w)
  BY <1>12, <1>13 DEF Reads, Abandons
<1>4. CASE ReadCase(w)
  <2>1. Reads /\ (Abandons(w) \/ \E pc \in {"items", "failed"} : Takes(w, {}, pc))
    BY <1>4 DEF ReadCase
  <2> QED BY <1>12, <1>13, <2>1 DEF Reads
<1>5. CASE ReadItems(w)
  <2> SUFFICES ASSUME at' = [at EXCEPT ![w] = [at[w] EXCEPT !.pc = "ops",
                        !.content = ItemFacts(at[w].case), !.todo = ItemsOf(at[w].case)]]
               PROVE  Others(w) /\ at'[w].head = at[w].head /\ at'[w].pc = "ops"
    BY <1>5, <1>13 DEF ReadItems, Reads
  <2> QED BY <1>1 DEF Others, Job
<1>6. CASE ReadOps(w)
  BY <1>6, <1>12, <1>13 DEF ReadOps, Reads
<1>7. CASE ReadImages(w)
  <2> SUFFICES ASSUME at' = [at EXCEPT ![w] = [at[w] EXCEPT !.pc = "events",
                               !.listed = ImagesOf(at[w].case)]]
               PROVE  Others(w) /\ at'[w].head = at[w].head /\ at'[w].pc = "events"
    BY <1>7, <1>13 DEF ReadImages, Reads
  <2> QED BY <1>1 DEF Others, Job
<1>8. CASE ReadEvents(w)
  <2>1. CASE Takes(w, {}, "head") /\ Reads
    BY <1>1, <2>1 DEF Takes, Reads, Others, Job
  <2>2. CASE /\ at[w].pc = "events" /\ Reads
             /\ \E i \in at[w].todo :
                  at' = [at EXCEPT ![w] = [at[w] EXCEPT !.todo = @ \ {i},
                           !.content = @ \cup EventFacts(i)]]
    BY <1>1, <2>2 DEF Reads, Others, Job
  <2>3. CASE at[w].pc = "events" /\ Reads /\ \E i \in at[w].todo : Skips(w, i, "events")
    BY <1>1, <2>3 DEF Skips, Reads, Others, Job
  <2> QED BY <1>8, <2>1, <2>2, <2>3 DEF ReadEvents
<1>9. CASE ReadImage(w)
  <2>1. Reads /\ \E facts : Takes(w, facts, "head")
    BY <1>9 DEF ReadImage
  <2> QED BY <1>1, <2>1 DEF Takes, Reads, Others, Job
<1>10. CASE ReadCustody(w)
  <2>1. CASE Takes(w, EventFacts(at[w].item), "head")
    BY <1>10, <1>12, <2>1 DEF ReadCustody, Reads
  <2>2. CASE Skips(w, at[w].item, "head")
    BY <1>1, <1>10, <2>2 DEF ReadCustody, Skips, Reads, Others, Job
  <2> QED BY <1>10, <2>1, <2>2 DEF ReadCustody
<1>11. CASE ReadHead(w)
  <2> SUFFICES ASSUME at' = [at EXCEPT ![w] = [at[w] EXCEPT !.pc = "insert", !.head = Len(log)]]
               PROVE  Others(w) /\ at'[w].head = Len(log) /\ at'[w].pc = "insert"
    BY <1>11, <1>13 DEF ReadHead, Reads
  <2> QED BY <1>1 DEF Others, Job
<1> QED BY <1>3, <1>4, <1>5, <1>6, <1>7, <1>8, <1>9, <1>10, <1>11

LEMMA InsertBook ==
  ASSUME JobsOK, Book, NEW w \in Reporters, Insert(w)
  PROVE  Book'
<1>1. /\ UNCHANGED <<reports, issued, files, damage>>
      /\ log' = Append(log, Report(w)) \/ UNCHANGED log
      /\ \E pc \in {"load", "failed"} : Takes(w, {}, pc)
  BY DEF Insert
<1>2. PICK pc \in {"load", "failed"} : Takes(w, {}, pc)
  BY <1>1
<1>3. {} \in SUBSET Facts /\ pc \in Phase
  BY DEF Phase
<1>4. Others(w) /\ at'[w].pc = pc /\ at'[w].head = at[w].head
  BY <1>2, <1>3, TakesJob
<1>5. log' \in Seq(Entry) /\ Len(log) \in Nat /\ Len(log') \in {Len(log), Len(log) + 1}
  BY <1>1 DEF Book, Entry
<1> QED BY <1>1, <1>4, <1>5 DEF Book, Others

LEMMA LoadBook ==
  ASSUME JobsOK, Book, NEW w \in Reporters, Load(w)
  PROVE  Book'
<1>1. /\ UNCHANGED <<log, reports, files, damage>>
      /\ \/ Takes(w, {}, "record") /\ DOMAIN issued' = DOMAIN issued \cup {w}
         \/ Takes(w, {}, "failed") /\ UNCHANGED issued
  BY DEF Load, With, Abandons
<1>2. {} \in SUBSET Facts /\ "record" \in Phase /\ "failed" \in Phase
  BY DEF Phase
<1>3. /\ Others(w) /\ at'[w].head = at[w].head
      /\ at'[w].pc = "failed" \/ DOMAIN issued' = DOMAIN issued \cup {w}
      /\ DOMAIN issued \subseteq DOMAIN issued'
  BY <1>1, <1>2, TakesJob
<1> QED BY <1>1, <1>3 DEF Book, Others

LEMMA WriteBook ==
  ASSUME JobsOK, Book, NEW w \in Reporters, Record(w) \/ SaveCli(w) \/ SaveDesktop(w)
  PROVE  Book'
<1>1. /\ at[w].pc \in {"record", "save"} /\ UNCHANGED <<log, issued, damage>>
      /\ \E pc \in {"save", "done", "failed"} : Takes(w, {}, pc)
      /\ reports' \subseteq reports \cup {w} /\ DOMAIN files' \subseteq DOMAIN files \cup {w}
  BY DEF Record, RecordReport, SaveCli, SaveDesktop, Writes, Reads, With
<1>2. PICK pc \in {"save", "done", "failed"} : Takes(w, {}, pc)
  BY <1>1
<1>3. {} \in SUBSET Facts /\ pc \in Phase
  BY DEF Phase
<1>4. Others(w) /\ at'[w].head = at[w].head
  BY <1>2, <1>3, TakesJob
<1> QED BY <1>1, <1>4 DEF Book, Others

-----------------------------------------------------------------------------
(* The inductive invariant.                                                *)

Inv == VaultInv /\ JobsOK /\ Book /\ \A w \in Reporters : JobInv(w)

LEMMA InitInv == Init => Inv
<1> SUFFICES ASSUME Init PROVE Inv
  OBVIOUS
<1>1. VaultInv
  BY InitVault DEF Init
<1>2. at = [w \in Reporters |-> Resting] /\ known = [w \in Reporters |-> {}]
      /\ issued = <<>> /\ files = <<>> /\ log = <<>> /\ reports = {} /\ damage = 0
  BY DEF Init
<1>3. Resting \in Job
  BY DEF Resting, Job, Phase, Kind
<1>4. JobsOK
  BY <1>2, <1>3 DEF JobsOK
<1>5. Book
  BY <1>2, BoundsAssumption DEF Book, Resting
<1>6. ASSUME NEW w \in Reporters
      PROVE  JobInv(w)
  <2>1. at[w] = Resting /\ known[w] = {} /\ DOMAIN issued = {}
    BY <1>2
  <2> QED BY <2>1 DEF JobInv, ReadsItsOwn, IsHeld, Collected, Heard, IssuedIsSound, Resting,
                      AfterItems, AfterOps, AfterImages
<1> QED BY <1>1, <1>4, <1>5, <1>6 DEF Inv

(* A step of one reporter leaves the vault and the others as they are.     *)
LEMMA GenerateInv ==
  ASSUME Inv, NEW w \in Reporters, Generate(w)
  PROVE  Inv' /\ UNCHANGED vault
<1>1. VaultInv /\ JobsOK /\ Book /\ JobInv(w)
  BY DEF Inv
<1>2. log \in Seq({Report(v) : v \in Reporters} \cup {Other})
  BY <1>1 DEF Book, Entry
<1>3. StepOK(w)
  BY <1>1, <1>2, RequestStep, ReadCaseStep, ReadItemsStep, ReadOpsStep, ReadImagesStep,
     ReadEventsStep, ReadImageStep, ReadCustodyStep, ReadHeadStep, InsertStep, LoadStep,
     RecordStep DEF Generate
<1>4. Book'
  BY <1>1, ReadsBook, InsertBook, LoadBook, WriteBook DEF Generate
<1>5. /\ UNCHANGED vault
      /\ \A v \in Reporters \ {w} :
           /\ known'[v] = known[v]
           /\ v \in DOMAIN issued' <=> v \in DOMAIN issued
           /\ v \in DOMAIN issued => issued'[v] = issued[v]
  <2>1. CASE \E shell \in {"cli", "desktop"}, kind \in Kind, c \in Cases, i \in Items :
               Request(w, shell, kind, c, i)
    BY <1>1, <2>1 DEF Request, JobsOK
  <2>2. CASE Load(w)
    BY <1>1, <2>2, LoadStep DEF Load
  <2>3. CASE \/ ReadCase(w) \/ ReadItems(w) \/ ReadOps(w) \/ ReadImages(w) \/ ReadEvents(w)
             \/ ReadImage(w) \/ ReadCustody(w) \/ ReadHead(w)
    BY <2>3 DEF ReadCase, ReadItems, ReadOps, ReadImages, ReadEvents, ReadImage, ReadCustody,
                ReadHead, Reads
  <2>4. CASE Insert(w) \/ Record(w) \/ SaveCli(w) \/ SaveDesktop(w)
    BY <2>4 DEF Insert, Record, SaveCli, SaveDesktop, Writes, Reads
  <2> QED BY <2>1, <2>2, <2>3, <2>4 DEF Generate
<1>6. VaultInv' /\ Growth
  BY <1>1, <1>5, StillVault
<1>7. \A v \in Reporters \ {w} : JobInv(v)'
  BY <1>1, <1>3, <1>5, <1>6, Kept DEF Inv, StepOK, Others
<1> QED BY <1>3, <1>4, <1>5, <1>6, <1>7 DEF Inv, StepOK

LEMMA NextInv == Inv /\ [Next]_vars => Inv' /\ (Growth \/ UNCHANGED vault)
<1> SUFFICES ASSUME Inv, [Next]_vars PROVE Inv' /\ (Growth \/ UNCHANGED vault)
  OBVIOUS
<1>1. VaultInv /\ JobsOK /\ Book /\ \A w \in Reporters : JobInv(w)
  BY DEF Inv
<1>2. CASE \E w \in Reporters : Generate(w)
  BY <1>2, GenerateInv
<1>3. CASE VaultStep \/ OtherEntry \/ Alter \/ UNCHANGED vars
  <2>1. /\ VaultNext \/ UNCHANGED vault
        /\ UNCHANGED <<reports, at, known, issued>>
    BY <1>3 DEF VaultStep, OtherEntry, Alter, vars
  <2>2. VaultInv' /\ Growth
    BY <1>1, <2>1, NextVault, StillVault
  <2>3. JobsOK'
    BY <1>1, <2>1 DEF JobsOK
  <2>4. \A w \in Reporters : JobInv(w)'
    BY <1>1, <2>1, <2>2, Kept
  <2>5. Book'
    <3>1. CASE VaultStep \/ UNCHANGED vars
      BY <1>1, <3>1 DEF VaultStep, vars, Book
    <3>2. CASE OtherEntry
      <4>1. log' = Append(log, Other) /\ UNCHANGED <<reports, at, issued, files, damage>>
        BY <3>2 DEF OtherEntry
      <4>2. log' \in Seq(Entry) /\ Len(log) \in Nat /\ Len(log') = Len(log) + 1
        BY <1>1, <4>1 DEF Book, Entry
      <4> QED BY <1>1, <4>1, <4>2 DEF Book
    <3>3. CASE Alter
      <4>1. /\ UNCHANGED <<log, reports, at, issued>> /\ DOMAIN files' = DOMAIN files
            /\ damage < MaxDamage /\ damage' = damage + 1
        BY <3>3 DEF Alter
      <4> QED BY <1>1, <4>1, BoundsAssumption DEF Book
    <3> QED BY <1>3, <3>1, <3>2, <3>3
  <2> QED BY <2>2, <2>3, <2>4, <2>5 DEF Inv
<1> QED BY <1>2, <1>3 DEF Next

LEMMA Invariance == Spec => []Inv
<1>1. Inv /\ [Next]_vars => Inv'
  BY NextInv
<1> QED BY InitInv, <1>1, PTL DEF Spec

-----------------------------------------------------------------------------
(* The chain a segment is cut from.                                        *)

(* The least-number principle for a set of numbers.                        *)
LEMMA LeastNumber ==
  ASSUME NEW T \in SUBSET Nat, T # {}
  PROVE  \E x \in T : \A y \in T : x <= y
<1> DEFINE R == OpToRel(<, Nat)
<1>1. IsWellFoundedOn(R, Nat)
  BY NatLessThanWellFounded
<1>2. \A x, y \in Nat : y < x => <<y, x>> \in R
  BY DEF OpToRel
<1> HIDE DEF R
<1>3. PICK x \in T : \A y \in T : ~ (<<y, x>> \in R)
  BY <1>1, WFMin
<1>4. T \subseteq Nat
  OBVIOUS
<1>5. \A y \in T : ~ (y < x)
  BY <1>2, <1>3, <1>4, Zenon
<1> QED
  BY <1>4, <1>5

(* The payloads of the first n entries, which is what the hash of entry n  *)
(* stands for.                                                             *)
Payloads(stored, n) == [i \in 1 .. n |-> [seq |-> i, event |-> stored[i]]]

LEMMA PayloadsStep ==
  ASSUME NEW E, NEW stored \in Seq(E), NEW n \in 1 .. Len(stored)
  PROVE  /\ EntryHash(n, stored[n], Payloads(stored, n - 1)) = Payloads(stored, n)
         /\ Payloads(stored, n) \in Seq([seq : Nat, event : E]) /\ Len(Payloads(stored, n)) = n
         /\ Payloads(stored, n - 1) \in Seq([seq : Nat, event : E])
         /\ Len(Payloads(stored, n - 1)) = n - 1
<1> DEFINE S == [seq : Nat, event : E]
           h == Payloads(stored, n - 1)
           e == [seq |-> n, event |-> stored[n]]
<1>1. Len(stored) \in Nat /\ \A i \in 1 .. Len(stored) : stored[i] \in E
  OBVIOUS
<1>2. n \in Nat /\ n - 1 \in Nat /\ n <= Len(stored)
  BY <1>1
<1>3. \A i \in 1 .. n : [seq |-> i, event |-> stored[i]] \in S
  BY <1>1, <1>2
<1>4. h \in Seq(S) /\ Len(h) = n - 1 /\ \A i \in 1 .. n - 1 : h[i] = [seq |-> i, event |-> stored[i]]
  <2>1. \A i \in 1 .. n - 1 : [seq |-> i, event |-> stored[i]] \in S
    BY <1>2, <1>3
  <2>2. \A k \in Nat : (\A i \in 1 .. k : [seq |-> i, event |-> stored[i]] \in S) =>
          [i \in 1 .. k |-> [seq |-> i, event |-> stored[i]]] \in Seq(S)
    OBVIOUS
  <2>3. Payloads(stored, n - 1) \in Seq(S)
    BY <1>2, <2>1, <2>2 DEF Payloads
  <2> QED BY <1>2, <2>3 DEF Payloads
<1>5. Payloads(stored, n) \in Seq(S) /\ Len(Payloads(stored, n)) = n
      /\ \A i \in 1 .. n : Payloads(stored, n)[i] = [seq |-> i, event |-> stored[i]]
  BY <1>2, <1>3 DEF Payloads
<1>6. e \in S
  BY <1>2, <1>3
<1>7. /\ Append(h, e) \in Seq(S) /\ Len(Append(h, e)) = n
      /\ \A i \in 1 .. n - 1 : Append(h, e)[i] = h[i]
      /\ Append(h, e)[n] = e
  BY <1>2, <1>4, <1>6, AppendProperties
<1>8. \A i \in 1 .. n : Append(h, e)[i] = Payloads(stored, n)[i]
  BY <1>2, <1>4, <1>5, <1>7
<1>9. Append(h, e) = Payloads(stored, n)
  <2> HIDE DEF h, e
  <2> QED BY <1>2, <1>5, <1>7, <1>8, SeqEqual
<1> QED BY <1>4, <1>5, <1>9 DEF EntryHash

(* What ChainOf computes, which is defined by recursion over the log.      *)
LEMMA ChainIs ==
  ASSUME NEW E, NEW stored \in Seq(E)
  PROVE  ChainOf(stored) =
           [n \in 1 .. Len(stored) |->
              [seq |-> n, event |-> stored[n],
               prev |-> Payloads(stored, n - 1), hash |-> Payloads(stored, n)]]
<1> DEFINE Step(h) == [n \in 0 .. Len(stored) |->
                         IF n = 0 THEN Genesis ELSE EntryHash(n, stored[n], h[n - 1])]
           H == CHOOSE h : h = Step(h)
           P == [n \in 0 .. Len(stored) |-> Payloads(stored, n)]
<1>1. Len(stored) \in Nat
  OBVIOUS
<1>2. Payloads(stored, 0) = Genesis
  BY DEF Payloads, Genesis
<1>3. \A n \in 1 .. Len(stored) :
        EntryHash(n, stored[n], Payloads(stored, n - 1)) = Payloads(stored, n)
  BY PayloadsStep
<1>4. P = Step(P)
  <2>1. \A n \in 0 .. Len(stored) :
          P[n] = IF n = 0 THEN Genesis ELSE EntryHash(n, stored[n], P[n - 1])
    <3> SUFFICES ASSUME NEW n \in 0 .. Len(stored)
                 PROVE  P[n] = IF n = 0 THEN Genesis ELSE EntryHash(n, stored[n], P[n - 1])
      OBVIOUS
    <3>1. CASE n = 0
      BY <1>2, <3>1
    <3>2. CASE n # 0
      <4>1. n \in 1 .. Len(stored) /\ n - 1 \in 0 .. Len(stored)
        BY <1>1, <3>2
      <4> QED BY <1>3, <3>2, <4>1
    <3> QED BY <3>1, <3>2
  <2> QED BY <2>1
<1>5. H = Step(H)
  <2> HIDE DEF P
  <2> QED BY <1>4
<1> HIDE DEF H
<1>6. /\ H[0] = Genesis
      /\ \A n \in 1 .. Len(stored) : H[n] = EntryHash(n, stored[n], H[n - 1])
  BY <1>1, <1>5
<1>7. \A n \in 0 .. Len(stored) : H[n] = Payloads(stored, n)
  <2> DEFINE T == { n \in 0 .. Len(stored) : H[n] # Payloads(stored, n) }
  <2>1. T \in SUBSET Nat
    BY <1>1
  <2>2. ASSUME T # {} PROVE FALSE
    <3>1. PICK n \in T : \A m \in T : n <= m
      <4> HIDE DEF T
      <4> QED BY <2>1, <2>2, LeastNumber
    <3>2. n \in 0 .. Len(stored) /\ n # 0
      BY <1>2, <1>6
    <3>3. n \in 1 .. Len(stored) /\ n - 1 \in 0 .. Len(stored) /\ n - 1 < n
      BY <1>1, <3>2
    <3>4. n - 1 \notin T
      BY <3>1, <3>3
    <3>5. H[n - 1] = Payloads(stored, n - 1)
      BY <3>3, <3>4
    <3> QED BY <1>3, <1>6, <3>1, <3>3, <3>5
  <2> QED BY <2>2
<1>8. ChainOf(stored) = [n \in 1 .. Len(stored) |->
         [seq |-> n, event |-> stored[n], prev |-> H[n - 1], hash |-> H[n]]]
  BY DEF ChainOf, H
<1>9. \A n \in 1 .. Len(stored) : n \in 0 .. Len(stored) /\ n - 1 \in 0 .. Len(stored)
  BY <1>1
<1> QED BY <1>7, <1>8, <1>9

Link(stored, n) ==
  [seq |-> n, event |-> stored[n],
   prev |-> Payloads(stored, n - 1), hash |-> Payloads(stored, n)]

(* The segment of a report that was made of a log, and of a longer one.    *)
LEMMA SegmentIs ==
  ASSUME NEW E, NEW stored \in Seq(E), NEW n \in 0 .. Len(stored)
  PROVE  /\ SubSeq(ChainOf(stored), 1, n) = [i \in 1 .. n |-> Link(stored, i)]
         /\ SubSeq(ChainOf(stored), 1, n) \in Seq({ Link(stored, i) : i \in 1 .. n })
         /\ Len(SubSeq(ChainOf(stored), 1, n)) = n
<1> DEFINE S == { Link(stored, i) : i \in 1 .. n }
           segment == SubSeq(ChainOf(stored), 1, n)
<1>1. Len(stored) \in Nat /\ n \in Nat /\ n \in Int
  OBVIOUS
<1>2. \A i \in 1 .. n : ChainOf(stored)[i] = Link(stored, i) /\ Link(stored, i) \in S
  BY <1>1, ChainIs DEF Link
<1>3. \A i \in 1 .. n : ChainOf(stored)[i] \in S
  BY <1>2
<1>4. /\ segment \in Seq(S) /\ Len(segment) = IF 1 <= n THEN n - 1 + 1 ELSE 0
      /\ \A i \in 1 .. n - 1 + 1 : segment[i] = ChainOf(stored)[1 + i - 1]
  <2> HIDE DEF S
  <2> QED BY <1>1, <1>3, SubSeqProperties
<1> HIDE DEF S, segment
<1>5. Len(segment) = n /\ \A i \in 1 .. n : segment[i] = Link(stored, i)
  BY <1>1, <1>2, <1>4
<1>6. segment = [i \in 1 .. n |-> segment[i]]
  BY <1>4, <1>5
<1> QED BY <1>4, <1>5, <1>6 DEF S, segment

LEMMA SegmentOfLonger ==
  ASSUME NEW E, NEW stored \in Seq(E), NEW e \in E, NEW n \in 0 .. Len(stored)
  PROVE  SubSeq(ChainOf(Append(stored, e)), 1, n) = SubSeq(ChainOf(stored), 1, n)
<1> DEFINE longer == Append(stored, e)
<1>1. /\ longer \in Seq(E) /\ Len(longer) = Len(stored) + 1
      /\ \A i \in 1 .. Len(stored) : longer[i] = stored[i]
  BY AppendProperties
<1>2. Len(stored) \in Nat /\ n \in 0 .. Len(stored) + 1
  OBVIOUS
<1> HIDE DEF longer
<1>3. \A i \in 1 .. n : Link(longer, i) = Link(stored, i)
  <2>1. \A k \in 0 .. n : Payloads(longer, k) = Payloads(stored, k)
    <3> SUFFICES ASSUME NEW k \in 0 .. n PROVE Payloads(longer, k) = Payloads(stored, k)
      OBVIOUS
    <3>1. \A i \in 1 .. k : longer[i] = stored[i]
      BY <1>1, <1>2
    <3> QED BY <3>1 DEF Payloads
  <2>2. \A i \in 1 .. n : i \in 0 .. n /\ i - 1 \in 0 .. n /\ longer[i] = stored[i]
    BY <1>1, <1>2
  <2> QED BY <2>1, <2>2 DEF Link
<1>4. SubSeq(ChainOf(longer), 1, n) = [i \in 1 .. n |-> Link(longer, i)]
  BY <1>1, <1>2, SegmentIs
<1>5. SubSeq(ChainOf(stored), 1, n) = [i \in 1 .. n |-> Link(stored, i)]
  BY SegmentIs
<1> QED BY <1>3, <1>4, <1>5 DEF longer

(* A segment that was not touched passes the verifier's check.             *)
LEMMA SegmentPasses ==
  ASSUME NEW E, NEW stored \in Seq(E), NEW n \in 1 .. Len(stored)
  PROVE  ChainCheck(SubSeq(ChainOf(stored), 1, n))
<1> DEFINE segment == SubSeq(ChainOf(stored), 1, n)
<1>1. Len(stored) \in Nat /\ n \in 0 .. Len(stored) /\ n \in Nat
  OBVIOUS
<1>2. segment = [i \in 1 .. n |-> Link(stored, i)] /\ Len(segment) = n
  BY <1>1, SegmentIs
<1> HIDE DEF segment
<1>3. segment # <<>>
  BY <1>1, <1>2
<1>4. ASSUME NEW i \in 1 .. n PROVE EntryPasses(segment, i)
  <2>1. i \in 1 .. Len(stored) /\ segment[i] = Link(stored, i)
    BY <1>1, <1>2
  <2>2. i > 1 => segment[i - 1] = Link(stored, i - 1)
    BY <1>1, <1>2
  <2>3. EntryHash(i, stored[i], Payloads(stored, i - 1)) = Payloads(stored, i)
    BY <2>1, PayloadsStep
  <2> QED BY <2>1, <2>2, <2>3 DEF EntryPasses, Link
<1> QED BY <1>2, <1>3, <1>4 DEF ChainCheck, segment

-----------------------------------------------------------------------------
(* Whatever a segment is made of: entries that may tell of any event.      *)
Payload(E) == [seq : Nat, event : E]

Links(E) == [seq : Nat, event : E, prev : Seq(Payload(E)), hash : Seq(Payload(E))]

(* The hash of an entry leaves no choice of the entry.                     *)
LEMMA HashTellsAll ==
  ASSUME NEW E, NEW stored \in Seq(E), NEW k \in 0 .. Len(stored), NEW e \in Links(E),
         e.hash = EntryHash(e.seq, e.event, e.prev), e.hash = Payloads(stored, k)
  PROVE  k >= 1 /\ e = Link(stored, k)
<1> DEFINE p == [seq |-> e.seq, event |-> e.event]
           h == e.prev
<1>1. /\ h \in Seq(Payload(E)) /\ Len(h) \in Nat /\ p \in Payload(E)
      /\ Append(h, p) = Payloads(stored, k)
  BY DEF Links, Payload, EntryHash
<1>2. /\ Len(Append(h, p)) = Len(h) + 1 /\ Append(h, p)[Len(h) + 1] = p
      /\ \A i \in 1 .. Len(h) : Append(h, p)[i] = h[i]
  BY <1>1, AppendProperties
<1>3. Len(stored) \in Nat /\ k \in Nat
  OBVIOUS
<1>4. k >= 1
  <2> SUFFICES ASSUME k = 0 PROVE FALSE
    BY <1>3
  <2>1. Payloads(stored, 0) = <<>>
    BY DEF Payloads
  <2>2. Len(h) + 1 = 0
    BY <1>1, <1>2, <2>1
  <2> QED BY <1>1, <2>2
<1>5. k \in 1 .. Len(stored) /\ k - 1 \in Nat
  BY <1>3, <1>4
<1>6. /\ Len(Payloads(stored, k)) = k
      /\ Payloads(stored, k - 1) \in Seq(Payload(E)) /\ Len(Payloads(stored, k - 1)) = k - 1
  BY <1>5, PayloadsStep DEF Payload
<1>7. Len(h) = k - 1
  BY <1>1, <1>2, <1>5, <1>6
<1>8. \A i \in 1 .. k : Payloads(stored, k)[i] = [seq |-> i, event |-> stored[i]]
  BY DEF Payloads
<1>9. \A i \in 1 .. k - 1 : h[i] = Payloads(stored, k - 1)[i]
  <2> SUFFICES ASSUME NEW i \in 1 .. k - 1 PROVE h[i] = Payloads(stored, k - 1)[i]
    OBVIOUS
  <2>1. i \in 1 .. k /\ h[i] = Append(h, p)[i]
    BY <1>2, <1>5, <1>7
  <2>2. h[i] = [seq |-> i, event |-> stored[i]]
    BY <1>1, <1>8, <2>1
  <2> QED BY <2>2 DEF Payloads
<1>10. h = Payloads(stored, k - 1)
  <2> HIDE DEF h
  <2> QED BY <1>1, <1>6, <1>7, <1>9, SeqEqual
<1>11. p = [seq |-> k, event |-> stored[k]]
  <2>1. Len(h) + 1 = k /\ k \in 1 .. k
    BY <1>5, <1>7
  <2>2. p = Append(h, p)[k]
    BY <1>2, <2>1
  <2> HIDE DEF p, h
  <2> QED BY <1>1, <1>8, <2>1, <2>2
<1>12. e.seq = p.seq /\ e.event = p.event
  OBVIOUS
<1>13. e.seq = k /\ e.event = stored[k]
  <2> HIDE DEF p
  <2> QED BY <1>11, <1>12
<1>14. e = [seq |-> e.seq, event |-> e.event, prev |-> e.prev, hash |-> e.hash]
  BY DEF Links
<1> QED BY <1>4, <1>10, <1>13, <1>14 DEF Link

(* A segment that passes the check and ends with the hash of entry n of a  *)
(* chain is that chain, from some entry on: going back, each entry has the *)
(* hash its successor states, and that leaves no choice of it.             *)
LEMMA PassingLeadsTo ==
  ASSUME NEW E, NEW stored \in Seq(E), NEW all \in 1 .. Len(stored), NEW n \in 1 .. all,
         NEW segment \in Seq(Links(E)), ChainCheck(segment),
         segment[Len(segment)].hash = Payloads(stored, n)
  PROVE  LeadsTo(segment, SubSeq(ChainOf(stored), 1, all), n)
<1> DEFINE whole == SubSeq(ChainOf(stored), 1, all)
           L == Len(segment)
<1>1. Len(stored) \in Nat /\ all \in Nat /\ all \in 0 .. Len(stored) /\ n \in Nat /\ n >= 1
      /\ n <= all
  OBVIOUS
<1>2. whole = [i \in 1 .. all |-> Link(stored, i)] /\ Len(whole) = all
  BY <1>1, SegmentIs
<1> HIDE DEF whole
<1>3. /\ L \in Nat /\ L >= 1 /\ segment = [i \in 1 .. L |-> segment[i]]
      /\ \A i \in 1 .. L : segment[i] \in Links(E) /\ EntryPasses(segment, i)
  <2>1. segment # <<>> /\ \A i \in 1 .. L : EntryPasses(segment, i)
    BY DEF ChainCheck
  <2> QED BY <2>1, EmptySeq
<1>4. \A d \in 0 .. L - 1 : d < n /\ segment[L - d] = Link(stored, n - d)
  <2> DEFINE T == { d \in 0 .. L - 1 : ~ (d < n /\ segment[L - d] = Link(stored, n - d)) }
  <2>1. T \in SUBSET Nat
    BY <1>3
  <2>2. ASSUME T # {} PROVE FALSE
    <3>1. PICK d \in T : \A c \in T : d <= c
      <4> HIDE DEF T
      <4> QED BY <2>1, <2>2, LeastNumber
    <3>2. /\ d \in Nat /\ d <= L - 1 /\ L - d \in 1 .. L
          /\ ~ (d < n /\ segment[L - d] = Link(stored, n - d))
      BY <1>3, <3>1
    <3>3. segment[L - d] \in Links(E)
          /\ segment[L - d].hash
               = EntryHash(segment[L - d].seq, segment[L - d].event, segment[L - d].prev)
      BY <1>3, <3>2 DEF EntryPasses
    <3>4. n - d \in 0 .. Len(stored) /\ segment[L - d].hash = Payloads(stored, n - d)
      <4>1. CASE d = 0
        BY <1>1, <1>3, <4>1
      <4>2. CASE d # 0
        <5>1. d - 1 \in 0 .. L - 1 /\ d - 1 < d
          BY <1>3, <3>2, <4>2
        <5>2. d - 1 \notin T
          <6> HIDE DEF T
          <6> QED BY <3>1, <3>2, <5>1
        <5>3. d - 1 < n /\ segment[L - (d - 1)] = Link(stored, n - (d - 1))
          BY <5>1, <5>2
        <5>4. /\ L - (d - 1) \in 1 .. L /\ L - (d - 1) > 1 /\ L - (d - 1) - 1 = L - d
              /\ n - (d - 1) - 1 = n - d
          BY <1>1, <1>3, <3>2, <4>2
        <5>5. segment[L - (d - 1)].prev = segment[L - d].hash
          BY <1>3, <5>4 DEF EntryPasses
        <5>6. segment[L - (d - 1)].prev = Payloads(stored, n - d)
          BY <5>3, <5>4 DEF Link
        <5> QED BY <1>1, <3>2, <5>3, <5>5, <5>6
      <4> QED BY <4>1, <4>2
    <3>5. n - d >= 1 /\ segment[L - d] = Link(stored, n - d)
      BY <3>3, <3>4, HashTellsAll
    <3> QED BY <1>1, <3>2, <3>5
  <2> QED BY <2>2
<1> DEFINE a == n - L + 1
<1>5. a \in 1 .. n /\ a \in Nat /\ n - a + 1 = L
  <2>1. L - 1 \in 0 .. L - 1
    BY <1>3
  <2>2. L - 1 < n
    BY <1>4, <2>1
  <2> QED BY <1>1, <1>3, <2>2
<1>6. \A i \in 1 .. L : segment[i] = Link(stored, a + i - 1) /\ a + i - 1 \in 1 .. all
  <2> SUFFICES ASSUME NEW i \in 1 .. L
               PROVE  segment[i] = Link(stored, a + i - 1) /\ a + i - 1 \in 1 .. all
    OBVIOUS
  <2>1. L - i \in 0 .. L - 1 /\ L - (L - i) = i /\ n - (L - i) = a + i - 1
    BY <1>1, <1>3
  <2>2. segment[L - (L - i)] = Link(stored, n - (L - i))
    BY <1>4, <2>1
  <2>3. segment[i] = Link(stored, a + i - 1)
    <3> HIDE DEF a, L
    <3> QED BY <2>1, <2>2
  <2>4. a + i - 1 \in 1 .. all
    <3> HIDE DEF a, L
    <3> QED BY <1>1, <1>3, <1>5
  <2> QED BY <2>3, <2>4
<1>7. segment = SubSeq(whole, a, n)
  <2> DEFINE S == { Link(stored, i) : i \in 1 .. all }
  <2> HIDE DEF a
  <2>1. \A i \in a .. n : whole[i] \in S
    BY <1>1, <1>2, <1>5
  <2>2. \A i \in 1 .. L : segment[i] \in S
    BY <1>6
  <2> HIDE DEF S
  <2>3. /\ SubSeq(whole, a, n) \in Seq(S)
        /\ Len(SubSeq(whole, a, n)) = IF a <= n THEN n - a + 1 ELSE 0
        /\ \A i \in 1 .. n - a + 1 : SubSeq(whole, a, n)[i] = whole[a + i - 1]
    <3>1. a \in Int /\ n \in Int
      BY <1>5
    <3> QED BY <2>1, <3>1, SubSeqProperties
  <2>4. Len(SubSeq(whole, a, n)) = L
    BY <1>5, <2>3
  <2>5. \A i \in 1 .. L : SubSeq(whole, a, n)[i] = segment[i]
    <3> SUFFICES ASSUME NEW i \in 1 .. L PROVE SubSeq(whole, a, n)[i] = segment[i]
      OBVIOUS
    <3>1. SubSeq(whole, a, n)[i] = whole[a + i - 1]
      BY <1>5, <2>3
    <3> QED BY <1>2, <1>6, <3>1
  <2>6. segment \in Seq(S)
    BY <1>3, <2>2
  <2> QED BY <2>3, <2>4, <2>5, <2>6, SeqEqual
<1> QED BY <1>5, <1>7 DEF LeadsTo, whole

-----------------------------------------------------------------------------
(* What a report accounts for.                                             *)

Recorded(w) == \E k \in 1 .. Len(log) : log[k] = Report(w)

Fields == {"kind", "case", "content", "digest", "cert", "signature", "segment", "stamp",
           "manifest"}

(* An envelope as it was generated: signed by its reporter, with a segment *)
(* that holds the entry of the report, and with images of its case.        *)
Signed(w) ==
  LET env == issued[w] IN
  /\ DOMAIN env = Fields
  /\ env.content \subseteq Facts /\ env.digest = Digest(env.content)
  /\ env.cert = w /\ env.signature = Signature(w, Digest(env.content))
  /\ env.stamp \in Stamps
  /\ Len(env.segment) \in 1 .. Len(log)
  /\ env.segment = SubSeq(ChainOf(log), 1, Len(env.segment))
  /\ \E k \in 1 .. Len(env.segment) : log[k] = Report(w)
  /\ \A entry \in env.manifest :
       \/ entry.hash = Constant
       \/ entry.hash \in DOMAIN images /\ items[images[entry.hash].item] = env.case

(* What any number of alterations can make of a file: any content and any  *)
(* segment, but no signature of its reporter other than the first.         *)
Event == Entry \cup {AlteredEvent}

Derives(env, original) ==
  /\ DOMAIN env = Fields
  /\ env.content \subseteq Facts
  /\ env.signature \in {original.signature, Garbage}
       \cup { Signature(OtherKey, Digest(content)) : content \in SUBSET Facts }
  /\ env.segment \in Seq(Links(Event))

Accounts ==
  /\ \A w \in Reporters : at[w].pc = "load" => Recorded(w)
  /\ reports \subseteq DOMAIN issued
  /\ \A w \in DOMAIN issued : Signed(w)
  /\ \A w \in DOMAIN files : Derives(files[w], issued[w])

LEMMA RecordedStays ==
  ASSUME Book, NEW w \in Reporters, Recorded(w),
         log' = log \/ \E e \in Entry : log' = Append(log, e)
  PROVE  Recorded(w)'
<1>1. CASE log' = log
  BY <1>1 DEF Recorded
<1>2. ASSUME NEW e \in Entry, log' = Append(log, e)
      PROVE  Recorded(w)'
  <2>1. /\ log \in Seq(Entry) /\ Len(log') = Len(log) + 1 /\ Len(log) \in Nat
        /\ \A k \in 1 .. Len(log) : log'[k] = log[k]
    BY <1>2, AppendProperties DEF Book
  <2>2. \A k \in 1 .. Len(log) : k \in 1 .. Len(log')
    BY <2>1
  <2> QED BY <2>1, <2>2 DEF Recorded
<1> QED BY <1>1, <1>2

(* An envelope stays what it was while the log and the vault grow.         *)
LEMMA SignedStays ==
  ASSUME VaultInv, Book, Growth \/ UNCHANGED vault, NEW w \in Reporters, Signed(w),
         issued'[w] = issued[w], log' = log \/ \E e \in Entry : log' = Append(log, e)
  PROVE  Signed(w)'
<1> DEFINE env == issued[w]
           n == Len(env.segment)
<1>1. \A m \in DOMAIN images :
        /\ m \in DOMAIN images' /\ images'[m] = images[m]
        /\ items'[images[m].item] = items[images[m].item]
  BY DEF VaultInv, VaultTypeOK, Growth, OnlyGrows, vault
<1>2. \A entry \in env.manifest :
        \/ entry.hash = Constant
        \/ entry.hash \in DOMAIN images' /\ items'[images'[entry.hash].item] = env.case
  BY <1>1 DEF Signed
<1>3. n \in 1 .. Len(log) /\ env.segment = SubSeq(ChainOf(log), 1, n)
      /\ \E k \in 1 .. n : log[k] = Report(w)
  BY DEF Signed
<1>4. n \in 1 .. Len(log') /\ env.segment = SubSeq(ChainOf(log'), 1, n)
      /\ \E k \in 1 .. n : log'[k] = Report(w)
  <2>1. CASE log' = log
    BY <1>3, <2>1
  <2>2. ASSUME NEW e \in Entry, log' = Append(log, e)
        PROVE  /\ n \in 1 .. Len(log') /\ env.segment = SubSeq(ChainOf(log'), 1, n)
               /\ \E k \in 1 .. n : log'[k] = Report(w)
    <3>1. /\ log \in Seq(Entry) /\ Len(log') = Len(log) + 1 /\ Len(log) \in Nat
          /\ \A k \in 1 .. Len(log) : log'[k] = log[k]
      BY <2>2, AppendProperties DEF Book
    <3>2. n \in 0 .. Len(log) /\ n \in 1 .. Len(log') /\ \A k \in 1 .. n : k \in 1 .. Len(log)
      BY <1>3, <3>1
    <3>3. SubSeq(ChainOf(log'), 1, n) = SubSeq(ChainOf(log), 1, n)
      BY <2>2, <3>1, <3>2, SegmentOfLonger
    <3> HIDE DEF n, env
    <3> QED BY <1>3, <3>1, <3>2, <3>3
  <2> QED BY <2>1, <2>2
<1> HIDE DEF n
<1>5. env' = env
  OBVIOUS
<1>6. /\ DOMAIN env = Fields
      /\ env.content \subseteq Facts /\ env.digest = Digest(env.content)
      /\ env.cert = w /\ env.signature = Signature(w, Digest(env.content))
      /\ env.stamp \in Stamps
  BY DEF Signed
<1> QED BY <1>2, <1>4, <1>6 DEF Signed, n

(* The envelope that is generated after the entry was made.                *)
LEMMA EnvelopeIsSigned ==
  ASSUME VaultInv, JobsOK, Book, NEW w \in Reporters, JobInv(w), Recorded(w),
         NEW stamp \in Stamps, UNCHANGED <<vault, log>>, issued'[w] = Envelope(w, stamp)
  PROVE  Signed(w)'
<1> DEFINE env == Envelope(w, stamp)
<1>1. /\ DOMAIN env = Fields
      /\ env.content = at[w].content /\ env.digest = Digest(env.content)
      /\ env.cert = w /\ env.signature = Signature(w, Digest(env.content))
      /\ env.stamp = stamp /\ env.segment = ChainOf(log) /\ env.manifest = Manifest(w)
      /\ env.case = at[w].case
  BY DEF Envelope, Fields, Segment
<1> HIDE DEF env
<1>2. env.content \subseteq Facts
  BY <1>1 DEF JobsOK, Job
<1>3. /\ Len(env.segment) = Len(log) /\ Len(log) \in 1 .. Len(log)
      /\ env.segment = SubSeq(ChainOf(log), 1, Len(log))
  <2>1. log \in Seq(Entry) /\ Len(log) \in Nat /\ Len(log) >= 1
    BY DEF Book, Recorded
  <2>2. ChainOf(log) = [i \in 1 .. Len(log) |-> Link(log, i)]
    BY <2>1, ChainIs DEF Link
  <2>3. SubSeq(ChainOf(log), 1, Len(log)) = [i \in 1 .. Len(log) |-> Link(log, i)]
        /\ Len(SubSeq(ChainOf(log), 1, Len(log))) = Len(log)
    BY <2>1, SegmentIs
  <2> QED BY <1>1, <2>1, <2>2, <2>3
<1>4. \A entry \in env.manifest :
        \/ entry.hash = Constant
        \/ entry.hash \in DOMAIN images /\ items[images[entry.hash].item] = env.case
  <2> DEFINE shown == { m \in DOMAIN images : <<"image", m>> \in at[w].content }
  <2>1. CASE at[w].kind = "acquisition"
    <3>1. Manifest(w) = { [item |-> at[w].item, hash |-> m] :
                            m \in IF shown = {} THEN {Constant} ELSE shown }
      BY <2>1 DEF Manifest, AcquisitionManifest
    <3>2. ASSUME NEW m \in shown PROVE items[images[m].item] = at[w].case
      <4>1. <<"image", m>> \in {<<"default", at[w].kind>>} \cup Subject(at[w])
        BY DEF JobInv, IsHeld
      <4>2. <<"image", m>> # <<"default", at[w].kind>>
        OBVIOUS
      <4>3. <<"image", m>> \in Subject(at[w])
        BY <4>1, <4>2
      <4>4. <<"image", m>> \in CaseFacts(at[w].case)
        BY <2>1, <4>3 DEF Subject, FirstRead, FirstReadCli, FirstReadDesktop
      <4> QED BY <4>4 DEF CaseFacts
    <3>3. ASSUME NEW entry \in env.manifest
          PROVE  \/ entry.hash = Constant
                 \/ entry.hash \in DOMAIN images /\ items[images[entry.hash].item] = env.case
      <4>0. entry \in Manifest(w)
        BY <1>1, <3>3
      <4>1. PICK m \in IF shown = {} THEN {Constant} ELSE shown :
                   entry = [item |-> at[w].item, hash |-> m]
        BY <3>1, <4>0
      <4>2. entry.hash = m /\ (m = Constant \/ m \in shown)
        BY <4>1
      <4> QED BY <1>1, <3>2, <4>2
    <3> QED BY <3>3
  <2>2. CASE at[w].kind # "acquisition"
    <3>1. Manifest(w) = { [item |-> images[m].item, hash |-> m] : m \in at[w].listed }
      BY <2>2 DEF Manifest
    <3>2. ASSUME NEW entry \in env.manifest
          PROVE  entry.hash \in at[w].listed
      <4>1. PICK m \in at[w].listed : entry = [item |-> images[m].item, hash |-> m]
        BY <1>1, <3>1, <3>2
      <4> QED BY <4>1
    <3>3. at[w].listed \subseteq ImagesOf(at[w].case)
      BY DEF JobInv, IsHeld
    <3> QED BY <1>1, <3>2, <3>3 DEF ImagesOf
  <2> QED BY <2>1, <2>2
<1>5. \E k \in 1 .. Len(log) : log[k] = Report(w)
  BY DEF Recorded
<1>6. issued'[w] = env
  BY DEF env
<1>7. log' = log /\ images' = images /\ items' = items
  BY DEF vault
<1> QED BY <1>1, <1>2, <1>3, <1>4, <1>5, <1>6, <1>7 DEF Signed

(* What a step may do to the log, the reports and the files.               *)
Frame ==
  /\ log' = log \/ \E e \in Entry : log' = Append(log, e)
  /\ \A w \in Reporters : at'[w].pc = "load" =>
       at[w].pc = "load" \/ log' = Append(log, Report(w))
  /\ \A w \in DOMAIN issued : w \in DOMAIN issued' /\ issued'[w] = issued[w]
  /\ \A w \in DOMAIN issued' \ DOMAIN issued :
       /\ at[w].pc = "load" /\ UNCHANGED <<vault, log>>
       /\ \E stamp \in Stamps : issued'[w] = Envelope(w, stamp)
  /\ reports' \subseteq reports \cup DOMAIN issued
  /\ \A w \in DOMAIN files' :
       \/ w \in DOMAIN files /\ (files'[w] = files[w] \/ files'[w] \in Altered(files[w]))
       \/ w \in DOMAIN issued /\ files'[w] = issued[w]

LEMMA GenerateFrame ==
  ASSUME Inv, NEW w \in Reporters, Generate(w)
  PROVE  Frame
<1>1. /\ JobsOK /\ Book /\ JobInv(w) /\ VaultInv
      /\ log \in Seq({Report(v) : v \in Reporters} \cup {Other})
  BY DEF Inv, Book, Entry
<1>2. at[w] \in Job /\ at \in [Reporters -> Job] /\ DOMAIN issued \subseteq Reporters
  BY <1>1 DEF JobsOK
<1>3. Others(w)
  BY <1>1, RequestStep, ReadCaseStep, ReadItemsStep, ReadOpsStep, ReadImagesStep,
     ReadEventsStep, ReadImageStep, ReadCustodyStep, ReadHeadStep, InsertStep, LoadStep,
     RecordStep DEF Generate, StepOK
<1>4. ASSUME UNCHANGED <<log, reports, issued, files>>, at'[w].pc # "load"
      PROVE  Frame
  BY <1>3, <1>4 DEF Frame, Others
<1>5. ASSUME NEW shell \in {"cli", "desktop"}, NEW kind \in Kind, NEW c \in Cases, NEW i \in Items,
             Request(w, shell, kind, c, i)
      PROVE  Frame
  BY <1>2, <1>4, <1>5 DEF Request, FirstRead, FirstReadCli, FirstReadDesktop
<1>13. ASSUME NEW facts, NEW pc \in {"items", "images", "head", "failed"}, Reads,
              Takes(w, facts, pc)
       PROVE  Frame
  <2>1. at'[w].pc = pc
    BY <1>2, <1>13 DEF Takes, Job
  <2> QED BY <1>4, <1>13, <2>1 DEF Reads
<1>14. CASE Reads /\ Abandons(w)
  BY <1>13, <1>14 DEF Abandons
<1>6. CASE ReadCase(w) \/ ReadItems(w) \/ ReadOps(w) \/ ReadImages(w)
  <2>1. CASE ReadCase(w)
    <3>1. Reads /\ (Abandons(w) \/ \E pc \in {"items", "failed"} : Takes(w, {}, pc))
      BY <2>1 DEF ReadCase
    <3> QED BY <1>13, <1>14, <3>1
  <2>2. CASE ReadOps(w)
    BY <1>13, <1>14, <2>2 DEF ReadOps
  <2>3. CASE ReadItems(w) \/ ReadImages(w)
    BY <1>2, <1>4, <1>14, <2>3 DEF ReadItems, ReadImages, Reads, Job
  <2> QED BY <1>6, <2>1, <2>2, <2>3
<1>7. CASE ReadEvents(w)
  <2>1. CASE Takes(w, {}, "head") /\ Reads
    BY <1>2, <1>4, <2>1 DEF Takes, Reads, Job
  <2>2. CASE /\ at[w].pc = "events" /\ Reads
             /\ \E i \in at[w].todo :
                  at' = [at EXCEPT ![w] = [at[w] EXCEPT !.todo = @ \ {i},
                           !.content = @ \cup EventFacts(i)]]
    BY <1>2, <1>4, <2>2 DEF Reads, Job
  <2>3. CASE at[w].pc = "events" /\ Reads /\ \E i \in at[w].todo : Skips(w, i, "events")
    BY <1>2, <1>4, <2>3 DEF Skips, Reads, Job
  <2> QED BY <1>7, <2>1, <2>2, <2>3 DEF ReadEvents
<1>8. CASE ReadImage(w)
  <2>1. Reads /\ \E facts : Takes(w, facts, "head")
    BY <1>8 DEF ReadImage
  <2> QED BY <1>2, <1>4, <2>1 DEF Takes, Reads, Job
<1>9. CASE ReadCustody(w) \/ ReadHead(w)
  <2>1. CASE ReadCustody(w) /\ Takes(w, EventFacts(at[w].item), "head")
    BY <1>13, <2>1 DEF ReadCustody
  <2>2. CASE ReadCustody(w) /\ Skips(w, at[w].item, "head")
    BY <1>2, <1>4, <2>2 DEF ReadCustody, Skips, Reads, Job
  <2>3. CASE ReadHead(w)
    <3> SUFFICES ASSUME at' = [at EXCEPT ![w] = [at[w] EXCEPT !.pc = "insert", !.head = Len(log)]]
                 PROVE  at'[w].pc = "insert"
      BY <1>4, <1>14, <2>3 DEF ReadHead, Reads
    <3> QED BY <1>2 DEF Job
  <2> QED BY <1>9, <2>1, <2>2, <2>3 DEF ReadCustody
<1>10. CASE Insert(w)
  <2>1. CASE Takes(w, {}, "failed") /\ UNCHANGED log
    <3>1. at'[w].pc = "failed"
      BY <1>2, <2>1 DEF Takes, Job
    <3> QED BY <1>4, <1>10, <2>1, <3>1 DEF Insert
  <2>2. CASE log' = Append(log, Report(w))
    <3>1. UNCHANGED <<reports, issued, files>>
      BY <1>10 DEF Insert
    <3> QED BY <1>3, <2>2, <3>1 DEF Frame, Others, Entry
  <2> QED BY <1>10, <2>1, <2>2 DEF Insert
<1>11. CASE Load(w)
  <2>0. CASE Abandons(w) /\ UNCHANGED issued
    <3>1. at'[w].pc = "failed"
      BY <1>2, <2>0 DEF Abandons, Takes, Job
    <3> QED BY <1>4, <1>11, <2>0, <3>1 DEF Load
  <2> SUFFICES ASSUME ~ (Abandons(w) /\ UNCHANGED issued) PROVE Frame
    BY <2>0
  <2>1. /\ at[w].pc = "load" /\ UNCHANGED <<vault, log, reports, files>> /\ Takes(w, {}, "record")
        /\ \E stamp \in Stamps : issued' = With(issued, w, Envelope(w, stamp))
    BY <1>11 DEF Load
  <2>2. at'[w].pc = "record"
    BY <1>2, <2>1 DEF Takes, Job
  <2>3. w \notin DOMAIN issued
    BY <1>1, <2>1 DEF JobInv, IssuedIsSound
  <2>4. /\ DOMAIN issued' = DOMAIN issued \cup {w}
        /\ \A v \in DOMAIN issued : issued'[v] = issued[v]
        /\ \E stamp \in Stamps : issued'[w] = Envelope(w, stamp)
    BY <2>1, <2>3 DEF With
  <2> QED BY <1>3, <2>1, <2>2, <2>4 DEF Frame, Others
<1>12. CASE Record(w) \/ SaveCli(w) \/ SaveDesktop(w)
  <2>1. /\ UNCHANGED <<log, issued>> /\ at[w].pc \in {"record", "save"}
        /\ \E pc \in {"save", "done", "failed"} : Takes(w, {}, pc)
        /\ reports' \subseteq reports \cup {w}
        /\ files' = files \/ files' = With(files, w, issued[w])
    BY <1>12 DEF Record, RecordReport, SaveCli, SaveDesktop, Writes, Reads
  <2>2. at'[w].pc \in {"save", "done", "failed"}
    BY <1>2, <2>1 DEF Takes, Job
  <2>3. w \in DOMAIN issued
    BY <1>1, <2>1 DEF Book
  <2>4. \A v \in DOMAIN files' :
          (v \in DOMAIN files /\ files'[v] = files[v]) \/ (v = w /\ files'[v] = issued[w])
    BY <2>1 DEF With
  <2> QED BY <1>3, <2>1, <2>2, <2>3, <2>4 DEF Frame, Others
<1> QED BY <1>5, <1>6, <1>7, <1>8, <1>9, <1>10, <1>11, <1>12 DEF Generate

LEMMA StepFrame ==
  ASSUME Inv, [Next]_vars
  PROVE  Frame
<1>1. CASE \E w \in Reporters : Generate(w)
  BY <1>1, GenerateFrame
<1>2. CASE VaultStep \/ UNCHANGED vars
  BY <1>2 DEF VaultStep, vars, Frame
<1>3. CASE OtherEntry
  BY <1>3 DEF OtherEntry, Frame, Entry
<1>4. CASE Alter
  <2>1. /\ UNCHANGED <<log, reports, at, issued>>
        /\ \E w \in DOMAIN files : \E env \in Altered(files[w]) :
             files' = [files EXCEPT ![w] = env]
    BY <1>4 DEF Alter
  <2>2. PICK w \in DOMAIN files : \E env \in Altered(files[w]) : files' = [files EXCEPT ![w] = env]
    BY <2>1
  <2>3. \A v \in DOMAIN files' :
          v \in DOMAIN files /\ (files'[v] = files[v] \/ files'[v] \in Altered(files[v]))
    BY <2>2
  <2> QED BY <2>1, <2>3 DEF Frame
<1> QED BY <1>1, <1>2, <1>3, <1>4 DEF Next

(* Segments that are cut, retold or chained anew are segments.             *)
LEMMA CutsAreSegments ==
  ASSUME NEW S, NEW segment \in Seq(S)
  PROVE  Cuts(segment) \subseteq Seq(S)
<1> DEFINE shorter == { SubSeq(segment, a, b) :
                          a \in 1 .. 2, b \in Len(segment) - 1 .. Len(segment) }
           without == { SubSeq(segment, 1, i - 1) \o SubSeq(segment, i + 1, Len(segment)) :
                          i \in 1 .. Len(segment) }
<1>1. Len(segment) \in Nat /\ \A i \in 1 .. Len(segment) : segment[i] \in S
  OBVIOUS
<1>2. ASSUME NEW a \in Int, NEW b \in Int, a >= 1, b <= Len(segment)
      PROVE  SubSeq(segment, a, b) \in Seq(S)
  <2>1. \A i \in a .. b : segment[i] \in S
    BY <1>1, <1>2
  <2> QED BY <2>1, SubSeqProperties
<1>3. shorter \subseteq Seq(S)
  <2> SUFFICES ASSUME NEW cut \in shorter PROVE cut \in Seq(S)
    OBVIOUS
  <2>0. PICK a \in 1 .. 2, b \in Len(segment) - 1 .. Len(segment) : cut = SubSeq(segment, a, b)
    OBVIOUS
  <2>1. a \in Int /\ b \in Int /\ a >= 1 /\ b <= Len(segment)
    BY <1>1
  <2> QED BY <1>2, <2>0, <2>1
<1>4. without \subseteq Seq(S)
  <2> SUFFICES ASSUME NEW cut \in without PROVE cut \in Seq(S)
    OBVIOUS
  <2>0. PICK i \in 1 .. Len(segment) :
               cut = SubSeq(segment, 1, i - 1) \o SubSeq(segment, i + 1, Len(segment))
    OBVIOUS
  <2>1. /\ SubSeq(segment, 1, i - 1) \in Seq(S)
        /\ SubSeq(segment, i + 1, Len(segment)) \in Seq(S)
    BY <1>1, <1>2
  <2> QED BY <2>0, <2>1, ConcatProperties
<1> HIDE DEF shorter, without
<1>5. Cuts(segment) = shorter \cup without
  BY DEF Cuts, shorter, without
<1> QED BY <1>3, <1>4, <1>5

LEMMA RetoldAreSegments ==
  ASSUME NEW segment \in Seq(Links(Event))
  PROVE  Retold(segment) \subseteq Seq(Links(Event))
<1> SUFFICES ASSUME NEW altered \in Retold(segment) PROVE altered \in Seq(Links(Event))
  OBVIOUS
<1> DEFINE hashes(j) == {segment[j].hash,
                         EntryHash(segment[j].seq, AlteredEvent, segment[j].prev)}
           retold(j) == { [segment EXCEPT ![j] = [@ EXCEPT !.event = AlteredEvent, !.hash = hash]] :
                            hash \in hashes(j) }
<1>0. PICK i \in 1 .. Len(segment) : altered \in retold(i)
  <2>1. altered \in UNION { retold(j) : j \in 1 .. Len(segment) }
    BY DEF Retold
  <2> HIDE DEF retold
  <2> QED BY <2>1
<1>5. PICK hash \in hashes(i) :
             altered = [segment EXCEPT ![i] = [segment[i] EXCEPT !.event = AlteredEvent,
                                                                 !.hash = hash]]
  BY <1>0
<1> DEFINE e == [segment[i] EXCEPT !.event = AlteredEvent, !.hash = hash]
<1>1. segment[i] \in Links(Event)
  OBVIOUS
<1>2. hash \in Seq(Payload(Event))
  <2>1. [seq |-> segment[i].seq, event |-> AlteredEvent] \in Payload(Event)
    BY <1>1 DEF Links, Payload, Event
  <2>2. segment[i].prev \in Seq(Payload(Event)) /\ segment[i].hash \in Seq(Payload(Event))
    BY <1>1 DEF Links
  <2>3. EntryHash(segment[i].seq, AlteredEvent, segment[i].prev) \in Seq(Payload(Event))
    <3> HIDE DEF Payload
    <3> QED BY <2>1, <2>2, AppendProperties DEF EntryHash
  <2> QED BY <2>2, <2>3
<1>3. e \in Links(Event)
  BY <1>1, <1>2 DEF Links, Event
<1> HIDE DEF e
<1>4. [segment EXCEPT ![i] = e] \in Seq(Links(Event))
  BY <1>3, ExceptSeq
<1> QED BY <1>4, <1>5 DEF e

LEMMA ChainIsSegment ==
  ASSUME NEW E, NEW stored \in Seq(E)
  PROVE  ChainOf(stored) \in Seq(Links(E))
<1>1. Len(stored) \in Nat
  OBVIOUS
<1>2. ASSUME NEW n \in 1 .. Len(stored) PROVE Link(stored, n) \in Links(E)
  <2>1. /\ Payloads(stored, n) \in Seq(Payload(E)) /\ Payloads(stored, n - 1) \in Seq(Payload(E))
    BY PayloadsStep DEF Payload
  <2>2. n \in Nat /\ stored[n] \in E
    BY <1>1
  <2> QED BY <2>1, <2>2 DEF Link, Links
<1>3. ChainOf(stored) = [n \in 1 .. Len(stored) |-> Link(stored, n)]
  BY ChainIs DEF Link
<1>4. \A k \in Nat : (\A n \in 1 .. k : Link(stored, n) \in Links(E)) =>
        [n \in 1 .. k |-> Link(stored, n)] \in Seq(Links(E))
  <2> HIDE DEF Links
  <2> QED OBVIOUS
<1> HIDE DEF Links
<1> QED BY <1>1, <1>2, <1>3, <1>4

LEMMA RechainedAreSegments ==
  ASSUME NEW segments, segments \subseteq Seq(Links(Event))
  PROVE  Rechained(segments) \subseteq Seq(Links(Event))
<1> SUFFICES ASSUME NEW segment \in segments
             PROVE  ChainOf([i \in 1 .. Len(segment) |-> segment[i].event]) \in Seq(Links(Event))
  BY DEF Rechained
<1> DEFINE told == [i \in 1 .. Len(segment) |-> segment[i].event]
<1>1. segment \in Seq(Links(Event)) /\ Len(segment) \in Nat
  OBVIOUS
<1>2. \A i \in 1 .. Len(segment) : segment[i].event \in Event
  <2> SUFFICES ASSUME NEW i \in 1 .. Len(segment) PROVE segment[i].event \in Event
    OBVIOUS
  <2>1. segment[i] \in Links(Event)
    <3> HIDE DEF Links
    <3> QED BY <1>1
  <2> QED BY <2>1 DEF Links
<1>3. told \in Seq(Event)
  <2> HIDE DEF Event
  <2> QED BY <1>1, <1>2
<1> HIDE DEF told
<1>4. ChainOf(told) \in Seq(Links(Event))
  BY <1>3, ChainIsSegment
<1> QED BY <1>4 DEF told

LEMMA AlteredDerives ==
  ASSUME NEW original, NEW env, Derives(env, original), NEW altered \in Altered(env)
  PROVE  Derives(altered, original)
<1> DEFINE signatures == {original.signature, Garbage}
             \cup { Signature(OtherKey, Digest(content)) : content \in SUBSET Facts }
<1>1. /\ DOMAIN env = Fields /\ env.content \subseteq Facts
      /\ env.signature \in signatures /\ env.segment \in Seq(Links(Event))
  BY DEF Derives
<1>2. CASE altered \in Resigned(env)
  <2>1. PICK content \in Contents(env) : altered \in Signings(env, content)
    BY <1>2 DEF Resigned
  <2>2. PICK digest \in {env.digest, Digest(content)},
               signature \in {env.signature, Garbage, Signature(OtherKey, Digest(content))},
               cert \in {env.cert, NoKey, OtherKey} :
          altered = [env EXCEPT !.content = content, !.digest = digest,
                                !.signature = signature, !.cert = cert]
    BY <2>1 DEF Signings
  <2>3. content \in SUBSET Facts
    BY <1>1 DEF Contents
  <2>4. signature \in signatures
    BY <1>1, <2>3
  <2> HIDE DEF signatures
  <2>5. /\ DOMAIN altered = Fields /\ altered.content = content
        /\ altered.signature = signature /\ altered.segment = env.segment
    BY <1>1, <2>2 DEF Fields
  <2> QED BY <1>1, <2>3, <2>4, <2>5 DEF Derives, signatures
<1>3. CASE altered \in Resegmented(env)
  <2> DEFINE apart == Cuts(env.segment) \cup Retold(env.segment)
  <2>1. apart \subseteq Seq(Links(Event))
    BY <1>1, CutsAreSegments, RetoldAreSegments
  <2>2. Rechained(apart) \subseteq Seq(Links(Event))
    BY <2>1, RechainedAreSegments
  <2>3. PICK segment \in apart \cup Rechained(apart) : altered = [env EXCEPT !.segment = segment]
    BY <1>3 DEF Resegmented
  <2>4. segment \in Seq(Links(Event))
    BY <2>1, <2>2
  <2> HIDE DEF signatures
  <2>5. /\ DOMAIN altered = Fields /\ altered.content = env.content
        /\ altered.signature = env.signature /\ altered.segment = segment
    BY <1>1, <2>3 DEF Fields
  <2> QED BY <1>1, <2>4, <2>5 DEF Derives, signatures
<1>4. CASE altered \in { [env EXCEPT !.stamp.token = FALSE], [env EXCEPT !.manifest = {}] }
  <2> HIDE DEF signatures
  <2>1. /\ DOMAIN altered = Fields /\ altered.content = env.content
        /\ altered.signature = env.signature /\ altered.segment = env.segment
    BY <1>1, <1>4 DEF Fields
  <2> QED BY <1>1, <2>1 DEF Derives, signatures
<1> QED BY <1>2, <1>3, <1>4 DEF Altered

(* The segment of a signed envelope, entry by entry.                       *)
LEMMA SignedSegment ==
  ASSUME Book, NEW w, Signed(w)
  PROVE  /\ Len(issued[w].segment) \in 1 .. Len(log)
         /\ issued[w].segment = [i \in 1 .. Len(issued[w].segment) |-> Link(log, i)]
         /\ issued[w].segment \in Seq(Links(Event))
<1> DEFINE n == Len(issued[w].segment)
<1>1. /\ log \in Seq(Entry) /\ n \in 1 .. Len(log) /\ n \in 0 .. Len(log) /\ n \in Int
      /\ issued[w].segment = SubSeq(ChainOf(log), 1, n)
  BY DEF Book, Signed
<1>2. issued[w].segment = [i \in 1 .. n |-> Link(log, i)]
  BY <1>1, SegmentIs
<1>3. issued[w].segment \in Seq(Links(Event))
  <2>1. log \in Seq(Event)
    BY <1>1 DEF Event
  <2>2. ChainOf(log) \in Seq(Links(Event)) /\ Len(ChainOf(log)) = Len(log)
    BY <1>1, <2>1, ChainIsSegment, ChainIs
  <2> HIDE DEF n
  <2>3. \A i \in 1 .. n : ChainOf(log)[i] \in Links(Event)
    BY <1>1, <2>2
  <2> QED BY <1>1, <2>3, SubSeqProperties
<1> QED BY <1>1, <1>2, <1>3

LEMMA NextAccounts == Inv /\ Accounts /\ [Next]_vars => Accounts'
<1> SUFFICES ASSUME Inv, Accounts, [Next]_vars PROVE Accounts'
  OBVIOUS
<1>1. VaultInv /\ JobsOK /\ Book /\ \A w \in Reporters : JobInv(w)
  BY DEF Inv
<1>2. Inv' /\ (Growth \/ UNCHANGED vault) /\ Frame
  BY NextInv, StepFrame
<1>3. /\ DOMAIN issued \subseteq Reporters /\ DOMAIN issued' \subseteq Reporters
      /\ DOMAIN files \subseteq DOMAIN issued
  BY <1>1, <1>2 DEF Inv, JobsOK, Book
<1>4. ASSUME NEW w \in Reporters, at'[w].pc = "load" PROVE Recorded(w)'
  <2>1. CASE at[w].pc = "load"
    BY <1>1, <1>2, <2>1, RecordedStays DEF Accounts, Frame
  <2>2. CASE log' = Append(log, Report(w))
    <3>1. /\ Len(log') = Len(log) + 1 /\ Len(log) \in Nat /\ log'[Len(log) + 1] = Report(w)
      BY <1>1, <2>2, AppendProperties DEF Book, Entry
    <3> QED BY <3>1 DEF Recorded
  <2> QED BY <1>2, <1>4, <2>1, <2>2 DEF Frame
<1>5. ASSUME NEW w \in DOMAIN issued' PROVE Signed(w)'
  <2>1. CASE w \in DOMAIN issued
    BY <1>1, <1>2, <1>3, <2>1, SignedStays DEF Accounts, Frame
  <2>2. CASE w \notin DOMAIN issued
    <3>1. /\ w \in Reporters /\ at[w].pc = "load" /\ UNCHANGED <<vault, log>>
          /\ \E stamp \in Stamps : issued'[w] = Envelope(w, stamp)
      BY <1>2, <1>3, <2>2 DEF Frame
    <3> QED BY <1>1, <3>1, EnvelopeIsSigned DEF Accounts
  <2> QED BY <2>1, <2>2
<1>6. reports' \subseteq DOMAIN issued'
  BY <1>2 DEF Accounts, Frame
<1>7. ASSUME NEW w \in DOMAIN files' PROVE Derives(files'[w], issued'[w])
  <2>1. w \in DOMAIN issued /\ issued'[w] = issued[w] /\ Signed(w)
    BY <1>2, <1>3 DEF Accounts, Frame
  <2>2. issued[w].segment \in Seq(Links(Event))
    BY <1>1, <2>1, SignedSegment
  <2>3. CASE w \in DOMAIN files /\ files'[w] = files[w]
    BY <2>1, <2>3 DEF Accounts
  <2>4. CASE w \in DOMAIN files /\ files'[w] \in Altered(files[w])
    BY <2>1, <2>4, AlteredDerives DEF Accounts
  <2>5. CASE files'[w] = issued[w]
    BY <2>1, <2>2, <2>5 DEF Derives, Signed
  <2> QED BY <1>2, <2>3, <2>4, <2>5 DEF Frame
<1> QED BY <1>4, <1>5, <1>6, <1>7 DEF Accounts

LEMMA AccountsHold == Spec => []Accounts
<1>1. Init => Accounts
  BY DEF Init, Accounts, Resting
<1> QED BY <1>1, NextAccounts, Invariance, PTL DEF Spec

-----------------------------------------------------------------------------
(* Theorems.                                                               *)

(* Everything has its type; every row of the vault refers to rows that     *)
(* exist (the foreign keys), and a file is only written of a report that   *)
(* was issued.                                                             *)
THEOREM Types == Spec => []TypeOK
<1>1. Inv => TypeOK
  <2> SUFFICES ASSUME Inv PROVE TypeOK
    OBVIOUS
  <2>1. VaultTypeOK /\ JobsOK /\ Book
    BY DEF Inv, VaultInv
  <2>2. ASSUME NEW w \in Reporters
        PROVE  /\ at[w].content \subseteq Facts
               /\ at[w].todo \subseteq DOMAIN items
               /\ at[w].listed \subseteq DOMAIN images
               /\ known[w] \subseteq Facts
    <3>1. at[w].content \subseteq Facts /\ known[w] \subseteq Facts
      BY <2>1 DEF JobsOK, Job
    <3>2. at[w].todo \subseteq ItemsOf(at[w].case) /\ at[w].listed \subseteq ImagesOf(at[w].case)
      BY DEF Inv, JobInv, IsHeld
    <3> QED BY <3>1, <3>2 DEF ItemsOf, ImagesOf
  <2> QED BY <2>1, <2>2 DEF TypeOK, JobsOK, Book
<1> QED BY <1>1, Invariance, PTL

(* No row ever leaves the vault or moves to another case or item, and a    *)
(* closed case is never reopened, whatever the processes do and in         *)
(* whatever order.                                                         *)
THEOREM Permanence == Spec => RecordsArePermanent
<1>1. Inv /\ [Next]_vars =>
        [/\ \A c \in DOMAIN cases :
              c \in DOMAIN cases' /\ (cases[c] = "Closed" => cases'[c] = "Closed")
         /\ OnlyGrows(items) /\ OnlyGrows(ops) /\ OnlyGrows(images) /\ OnlyGrows(events)
         /\ complete \subseteq complete']_vault
  BY NextInv DEF Growth
<1> QED BY <1>1, Invariance, PTL DEF Spec, RecordsArePermanent

(* No report states anything about another case, however its reads         *)
(* interleave with the writes of other processes, and an examination or a  *)
(* custody report misses nothing that was in the vault when it was asked   *)
(* for but the events of items whose query failed.                         *)
THEOREM Coverage == Spec => []ReportCoversVault
<1>1. Inv => ReportCoversVault
  BY DEF Inv, JobsOK, JobInv, IssuedIsSound, ReportCoversVault
<1> QED BY <1>1, Invariance, PTL

(* A report that shows an acquisition of its case as completed shows an    *)
(* image of it: the engine stores the image before it completes the        *)
(* operation, and the report reads operations before images.               *)
THEOREM CompletedHasImage == Spec => []CompletionShowsImage
<1>1. Inv => CompletionShowsImage
  <2> SUFFICES ASSUME Inv, NEW w \in DOMAIN issued, NEW o \in OpsOf(issued[w].case),
                      <<"done", o>> \in issued[w].content,
                      items[ops[o].item] = issued[w].case
               PROVE  \E m \in DOMAIN images :
                        images[m].op = o /\ <<"image", m>> \in Shown(issued[w])
    BY DEF CompletionShowsImage
  <2>1. w \in Reporters /\ o \in Ops
    BY DEF Inv, JobsOK, VaultInv, VaultTypeOK, OpsOf
  <2>2. IssuedIsSound(w)
    BY <2>1 DEF Inv, JobInv
  <2> QED BY <2>1, <2>2 DEF IssuedIsSound
<1> QED BY <1>1, Invariance, PTL

(* Every report passes the verifier, vouches for images of its own case    *)
(* only, and holds its own entry in a segment that is the log up to some   *)
(* moment; no row and no file is without the entry, whatever the processes *)
(* append in between and whatever fails.                                   *)
THEOREM Accountable == Spec => []ReportIsAccountable
<1>1. Inv /\ Accounts => ReportIsAccountable
  <2> SUFFICES ASSUME Inv, Accounts PROVE ReportIsAccountable
    OBVIOUS
  <2>1. Book /\ VaultInv /\ log \in Seq(Entry) /\ DOMAIN issued \subseteq Reporters
    BY DEF Inv, JobsOK, Book
  <2>2. ASSUME NEW w \in DOMAIN issued
        PROVE  /\ Verify(issued[w])
               /\ \E n \in 1 .. Len(issued[w].segment) : issued[w].segment[n].event = Report(w)
               /\ issued[w].segment = SubSeq(ChainOf(log), 1, Len(issued[w].segment))
               /\ \A m \in DOMAIN images :
                    EvidenceCheck(issued[w], m) => images[m].item \in ItemsOf(issued[w].case)
               /\ \E n \in 1 .. Len(log) : log[n] = Report(w)
    <3>1. Signed(w) /\ w \in Reporters /\ w # NoKey
      BY <2>1, KeyAssumption DEF Accounts
    <3>2. /\ Len(issued[w].segment) \in 1 .. Len(log)
          /\ issued[w].segment = SubSeq(ChainOf(log), 1, Len(issued[w].segment))
          /\ \E k \in 1 .. Len(issued[w].segment) : log[k] = Report(w)
      BY <3>1 DEF Signed
    <3>3. ChainCheck(issued[w].segment)
      BY <2>1, <3>2, SegmentPasses
    <3>4. TimestampCheck(issued[w].stamp)
      BY <3>1 DEF Signed, Stamps, TimestampCheck
    <3>5. Verify(issued[w])
      BY <3>1, <3>3, <3>4 DEF Verify, Signed, SignatureCheck, KeyOf
    <3>6. issued[w].segment = [i \in 1 .. Len(issued[w].segment) |-> Link(log, i)]
      BY <2>1, <3>1, SignedSegment
    <3>7. \E n \in 1 .. Len(issued[w].segment) : issued[w].segment[n].event = Report(w)
      <4>1. PICK k \in 1 .. Len(issued[w].segment) : log[k] = Report(w)
        BY <3>2
      <4>2. issued[w].segment[k] = Link(log, k)
        BY <3>6
      <4> QED BY <4>1, <4>2 DEF Link
    <3>8. \A m \in DOMAIN images :
            EvidenceCheck(issued[w], m) => images[m].item \in ItemsOf(issued[w].case)
      BY <2>1, <3>1, ConstantAssumption DEF EvidenceCheck, Signed, ItemsOf, VaultInv, VaultTypeOK
    <3>9. \E n \in 1 .. Len(log) : log[n] = Report(w)
      BY <2>1, <3>2
    <3> QED BY <3>2, <3>5, <3>7, <3>8, <3>9
  <2>3. reports \cup DOMAIN files \subseteq DOMAIN issued
    BY <2>1 DEF Accounts, Book
  <2> QED BY <2>2, <2>3 DEF ReportIsAccountable
<1> QED BY <1>1, AccountsHold, Invariance, PTL

(* Whatever is done to a written file, and however often: if it verifies   *)
(* with the certificate it was issued with then its content is what was    *)
(* signed, and if it verifies and ends with a hash of the log of the time  *)
(* then its segment is the log up to there, without a gap.  With another   *)
(* certificate, or another last hash, a file may say what it likes.        *)
THEOREM Genuine == Spec => []VerifiedIsGenuine
<1>1. Inv /\ Accounts => VerifiedIsGenuine
  <2> SUFFICES ASSUME Inv, Accounts, NEW w \in DOMAIN issued, w \in DOMAIN files,
                      Verify(files[w])
               PROVE  /\ files[w].cert = issued[w].cert => files[w].content = issued[w].content
                      /\ \A n \in DOMAIN issued[w].segment :
                           files[w].segment[Len(files[w].segment)].hash
                               = issued[w].segment[n].hash
                             => LeadsTo(files[w].segment, issued[w].segment, n)
    BY DEF VerifiedIsGenuine, CliVerdict, DesktopVerdict
  <2>1. Book /\ log \in Seq(Entry) /\ w \in Reporters
    BY DEF Inv, JobsOK, Book
  <2>2. Signed(w) /\ Derives(files[w], issued[w])
    BY DEF Accounts
  <2>3. ASSUME files[w].cert = issued[w].cert PROVE files[w].content = issued[w].content
    <3>1. files[w].signature = Signature(w, Digest(files[w].content))
      BY <2>2, <2>3 DEF Verify, SignatureCheck, KeyOf, Signed
    <3>2. files[w].content \in SUBSET Facts
      BY <2>2 DEF Derives
    <3>3. files[w].signature # Garbage
      BY <2>1, <3>1, <3>2, GarbageAssumption
    <3>4. \A content \in SUBSET Facts : files[w].signature # Signature(OtherKey, Digest(content))
      BY <2>1, <3>1, KeyAssumption DEF Signature
    <3>5. files[w].signature = Signature(w, Digest(issued[w].content))
      BY <2>2, <3>3, <3>4 DEF Derives, Signed
    <3> QED BY <3>1, <3>5 DEF Signature, Digest
  <2>4. ASSUME NEW n \in DOMAIN issued[w].segment,
               files[w].segment[Len(files[w].segment)].hash = issued[w].segment[n].hash
        PROVE  LeadsTo(files[w].segment, issued[w].segment, n)
    <3> DEFINE all == Len(issued[w].segment)
    <3>1. /\ all \in 1 .. Len(log) /\ issued[w].segment = SubSeq(ChainOf(log), 1, all)
          /\ issued[w].segment = [i \in 1 .. all |-> Link(log, i)]
      BY <2>1, <2>2, SignedSegment DEF Signed
    <3> HIDE DEF all
    <3>2. n \in 1 .. all /\ issued[w].segment[n].hash = Payloads(log, n)
      <4>1. n \in 1 .. all /\ issued[w].segment[n] = Link(log, n)
        BY <2>4, <3>1
      <4> QED BY <4>1 DEF Link
    <3>3. /\ ChainCheck(files[w].segment) /\ files[w].segment \in Seq(Links(Event))
          /\ files[w].segment[Len(files[w].segment)].hash = Payloads(log, n)
      BY <2>2, <2>4, <3>2 DEF Verify, Derives
    <3>4. log \in Seq(Event)
      BY <2>1 DEF Event
    <3> HIDE DEF Event
    <3>5. LeadsTo(files[w].segment, SubSeq(ChainOf(log), 1, all), n)
      BY <3>1, <3>2, <3>3, <3>4, PassingLeadsTo
    <3> QED BY <3>1, <3>5
  <2> QED BY <2>3, <2>4
<1> QED BY <1>1, AccountsHold, Invariance, PTL
=============================================================================
