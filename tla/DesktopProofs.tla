--------------------------- MODULE DesktopProofs ---------------------------
(* Proofs about the job map and the gate registry (module Desktop), for    *)
(* any number of calls and any, however few, identifiers.                  *)
EXTENDS Desktop, TLAPS

Entry == [state : States \cup {"none"}, done : 0 .. Chunks, error : BOOLEAN]

LEMMA InitTypeOK == Init => TypeOK
BY ChunkAssumption DEF Init, TypeOK, NoJob

(* A thread that runs was given an identifier, and has copied nothing      *)
(* before it was started.                                                  *)
StartedInv ==
  \A s \in Starts : /\ pc[s] = "idle" <=> id[s] = None
                    /\ pc[s] = "idle" => copied[s] = 0

LEMMA InitStarted == Init => StartedInv
BY DEF Init, StartedInv

(* The steps of the registry leave the job map alone, and the other way    *)
(* round.                                                                  *)
LEMMA Apart ==
  /\ (\E s \in Sessions : BeginGate(s) \/ FinalizeGate(s) \/ ExecuteSanitization(s))
       => UNCHANGED jobVars
  /\ (\E s \in Starts : StartAcquisition(s) \/ Work(s)) => UNCHANGED gateVars
  /\ ResumeAcquisition => UNCHANGED gateVars
BY DEF BeginGate, FinalizeGate, ExecuteSanitization, StartAcquisition, Work,
       OpenDrive, CreateImage, CopyChunk, Complete, WorkerFails, ResumeAcquisition,
       gateVars, jobVars

JobTypeOK ==
  /\ jobs \in [Ids \cup ResumeIds -> Entry]
  /\ pc \in [Starts -> {"idle", "queued", "opened", "copying", "completed", "failed"}]
  /\ id \in [Starts -> Ids \cup {None}]
  /\ copied \in [Starts -> 0 .. Chunks]

GateTypeOK ==
  /\ pending \in [Gates -> Sessions \cup {None}]
  /\ issued \subseteq Sessions
  /\ device \in [Sessions -> Devices \cup {None}]
  /\ gate \in [Sessions -> Gates \cup {None}]
  /\ token \in [Sessions -> Sessions \cup {None}]
  /\ certs \subseteq Sessions \X Devices

LEMMA TypeSplit == TypeOK <=> JobTypeOK /\ GateTypeOK
BY DEF TypeOK, JobTypeOK, GateTypeOK, Entry

(* The entries stay entries and the threads stay threads.                  *)
LEMMA NextJobType == JobTypeOK /\ StartedInv /\ [Next]_vars => JobTypeOK' /\ StartedInv'
<1> SUFFICES ASSUME JobTypeOK, StartedInv, [Next]_vars
             PROVE  JobTypeOK' /\ StartedInv'
  OBVIOUS
<1> USE DEF JobTypeOK, StartedInv
<1>1. ASSUME NEW s \in Starts, StartAcquisition(s)
      PROVE  JobTypeOK' /\ StartedInv'
  <2>1. PICK i \in Ids : id' = [id EXCEPT ![s] = i]
                         /\ jobs' = Registered(i, [NoJob EXCEPT !.state = "queued"])
    BY <1>1 DEF StartAcquisition
  <2>2. [NoJob EXCEPT !.state = "queued"] \in Entry
    <3>1. 0 \in 0 .. Chunks
      BY ChunkAssumption
    <3>2. NoJob \in Entry
      BY <3>1 DEF NoJob, Entry
    <3> QED BY <3>2 DEF Entry, States
  <2>3. jobs' \in [Ids \cup ResumeIds -> Entry]
    BY <2>1, <2>2 DEF Registered
  <2> QED BY <1>1, <2>1, <2>3, NoneAssumption DEF StartAcquisition
<1>2. ASSUME NEW s \in Starts, Work(s)
      PROVE  JobTypeOK' /\ StartedInv'
  <2>1. pc[s] # "idle"
    BY <1>2 DEF Work, OpenDrive, CreateImage, CopyChunk, Complete, WorkerFails
  <2>2. id[s] \in Ids /\ jobs[id[s]] \in Entry
    BY <2>1
  <2>3. CASE OpenDrive(s)
    BY <2>1, <2>2, <2>3 DEF OpenDrive, Updated, Entry, States
  <2>4. CASE CreateImage(s)
    BY <2>1, <2>4 DEF CreateImage
  <2>5. CASE CopyChunk(s)
    <3>1. copied[s] + 1 \in 0 .. Chunks
      BY <2>5, ChunkAssumption DEF CopyChunk, MoreToCopy
    <3>2. jobs' \in [Ids \cup ResumeIds -> Entry]
      BY <2>2, <2>5, <3>1 DEF CopyChunk, Updated, Entry, States
    <3>3. /\ UNCHANGED <<pc, id>>
          /\ copied' \in [Starts -> 0 .. Chunks]
          /\ \A t \in Starts \ {s} : copied'[t] = copied[t]
      BY <2>5, <3>1 DEF CopyChunk
    <3> QED BY <2>1, <3>2, <3>3
  <2>6. CASE Complete(s)
    <3>1. Chunks \in 0 .. Chunks
      BY ChunkAssumption
    <3>2. jobs' \in [Ids \cup ResumeIds -> Entry]
      BY <2>2, <2>6, <3>1 DEF Complete, Updated, Entry, States
    <3> QED BY <2>1, <2>6, <3>2 DEF Complete
  <2>7. CASE WorkerFails(s)
    <3>1. jobs' \in [Ids \cup ResumeIds -> Entry]
      BY <2>2, <2>7 DEF WorkerFails, FailureReported, Updated, Entry, States
    <3> QED BY <2>1, <2>7, <3>1 DEF WorkerFails
  <2> QED BY <1>2, <2>3, <2>4, <2>5, <2>6, <2>7 DEF Work
<1>3. CASE ResumeAcquisition
  BY <1>3 DEF ResumeAcquisition, ResumeDraws, Registered, Entry, States
<1>4. CASE UNCHANGED jobVars
  BY <1>4 DEF jobVars
<1> QED BY <1>1, <1>2, <1>3, <1>4, Apart DEF Next, vars

(* A ticket is pending under the gate of the session that began it, or was *)
(* made a token of a session with the same gate, once; and the device of a *)
(* session that was admitted is none that is protected.                    *)
TicketInv ==
  /\ \A g \in Gates : pending[g] # None => gate[pending[g]] = g
  /\ \A s \in Sessions : token[s] # None =>
       /\ gate[s] # None /\ gate[token[s]] = gate[s]
       /\ \A g \in Gates : pending[g] # token[s]
  /\ \A s \in Sessions : gate[s] # None => device[s] \in Devices \ Protected
  /\ OneTokenPerTicket

(* What was certified, and for whom.                                       *)
CertInv ==
  \A c \in certs :
    /\ gate[c[1]] # None /\ c[2] \notin Protected
    /\ ~ SharedGate(c[1]) => c[2] = device[c[1]]

GateInv == GateTypeOK /\ TicketInv /\ CertInv

LEMMA InitGateInv == Init => GateInv
BY NoneAssumption
   DEF Init, GateInv, GateTypeOK, TicketInv, CertInv, OneTokenPerTicket

LEMMA NextGateInv == GateInv /\ [Next]_vars => GateInv'
<1> SUFFICES ASSUME GateInv, [Next]_vars
             PROVE  GateInv'
  OBVIOUS
<1> USE DEF GateInv, GateTypeOK
<1>1. ASSUME NEW s \in Sessions, BeginGate(s)
      PROVE  GateInv'
  <2>1. PICK d \in Devices, g \in Gates :
          /\ d \notin Protected
          /\ device' = [device EXCEPT ![s] = d]
          /\ gate' = [gate EXCEPT ![s] = g]
          /\ pending' = [pending EXCEPT ![g] = s]
    BY <1>1 DEF BeginGate, Admits
  <2>2. gate[s] = None /\ UNCHANGED <<issued, token, certs>> /\ g # None
    BY <1>1, NoneAssumption DEF BeginGate
  <2>3. GateTypeOK'
    BY <2>1, <2>2
  <2>4. TicketInv'
    <3>1. \A h \in Gates : pending[h] # s
      BY <2>1, <2>2, NoneAssumption DEF TicketInv
    <3>2. \A t \in Sessions : token[t] # s
      BY <2>2, NoneAssumption DEF TicketInv
    <3>3. \A h \in Gates : pending'[h] # None => gate'[pending'[h]] = h
      BY <2>1, <3>1 DEF TicketInv
    <3>4. ASSUME NEW t \in Sessions, token'[t] # None
          PROVE  /\ gate'[t] # None /\ gate'[token'[t]] = gate'[t]
                 /\ \A h \in Gates : pending'[h] # token'[t]
      BY <2>1, <2>2, <3>2, <3>4 DEF TicketInv
    <3>5. \A t \in Sessions : gate'[t] # None => device'[t] \in Devices \ Protected
      BY <2>1 DEF TicketInv
    <3> QED BY <2>2, <3>3, <3>4, <3>5 DEF TicketInv, OneTokenPerTicket
  <2>5. CertInv'
    <3> SUFFICES ASSUME NEW c \in certs
                 PROVE  /\ gate'[c[1]] # None /\ c[2] \notin Protected
                        /\ ~ SharedGate(c[1])' => c[2] = device'[c[1]]
      BY <2>2 DEF CertInv
    <3>1. c[1] \in Sessions /\ c[1] # s /\ gate[c[1]] # None
      BY <2>2 DEF CertInv
    <3>2. gate'[c[1]] = gate[c[1]] /\ device'[c[1]] = device[c[1]]
      BY <2>1, <3>1
    <3>3. SharedGate(c[1]) => SharedGate(c[1])'
      BY <2>1, <2>2, <3>1, <3>2 DEF SharedGate
    <3> QED BY <3>1, <3>2, <3>3 DEF CertInv
  <2> QED BY <2>3, <2>4, <2>5
<1>2. ASSUME NEW s \in Sessions, FinalizeGate(s)
      PROVE  GateInv'
  <2>1. /\ gate[s] \in Gates /\ pending[gate[s]] \in Sessions
        /\ token' = [token EXCEPT ![s] = pending[gate[s]]]
        /\ issued' = issued \cup {pending[gate[s]]}
        /\ pending' = [pending EXCEPT ![gate[s]] = None]
        /\ UNCHANGED <<device, gate, certs>>
    BY <1>2 DEF FinalizeGate, AfterTaking
  <2>2. GateTypeOK'
    BY <2>1, NoneAssumption
  <2>3. TicketInv'
    <3>1. gate[pending[gate[s]]] = gate[s] /\ gate[s] # None
      BY <1>2, <2>1 DEF TicketInv, FinalizeGate
    <3>2. \A h \in Gates : pending[h] = pending[gate[s]] => h = gate[s]
      BY <2>1, <3>1, NoneAssumption DEF TicketInv
    <3>3. \A t \in Sessions : token[t] # pending[gate[s]]
      BY <2>1, NoneAssumption DEF TicketInv
    <3>4. ASSUME NEW t \in Sessions, token'[t] # None
          PROVE  /\ gate'[t] # None /\ gate'[token'[t]] = gate'[t]
                 /\ \A h \in Gates : pending'[h] # token'[t]
      <4>1. CASE t = s
        BY <2>1, <3>1, <3>2, <4>1, NoneAssumption
      <4>2. CASE t # s
        BY <2>1, <3>4, <4>2 DEF TicketInv
      <4> QED BY <4>1, <4>2
    <3>5. OneTokenPerTicket'
      BY <2>1, <3>3 DEF TicketInv, OneTokenPerTicket
    <3> QED BY <2>1, <3>4, <3>5 DEF TicketInv
  <2>4. CertInv'
    BY <2>1 DEF CertInv, SharedGate
  <2> QED BY <2>2, <2>3, <2>4
<1>3. ASSUME NEW s \in Sessions, ExecuteSanitization(s)
      PROVE  GateInv'
  <2>1. /\ token[s] \in Sessions
        /\ certs' = certs \cup {<<s, device[token[s]]>>}
        /\ UNCHANGED <<pending, issued, device, gate, token>>
    BY <1>3 DEF ExecuteSanitization
  <2>2. /\ gate[s] # None /\ gate[token[s]] = gate[s]
        /\ device[token[s]] \in Devices \ Protected
    BY <2>1, NoneAssumption DEF TicketInv
  <2>3. ~ SharedGate(s) => token[s] = s
    BY <2>1, <2>2 DEF SharedGate
  <2>4. CertInv'
    BY <2>1, <2>2, <2>3 DEF CertInv, SharedGate
  <2>5. TicketInv'
    BY <2>1 DEF TicketInv, OneTokenPerTicket
  <2>6. GateTypeOK'
    BY <2>1, <2>2
  <2> QED BY <2>4, <2>5, <2>6
<1>4. CASE UNCHANGED gateVars
  BY <1>4 DEF gateVars, TicketInv, CertInv, OneTokenPerTicket, SharedGate
<1> QED BY <1>1, <1>2, <1>3, <1>4, Apart DEF Next, vars

LEMMA GateInvariant == Spec => []GateInv
<1> QED BY InitGateInv, NextGateInv, PTL DEF Spec

(* No two sessions ever hold a token made of one ticket, whatever gate     *)
(* identifiers they were given and however often they finalize.            *)
THEOREM TicketsAreSpentOnce == Spec => []OneTokenPerTicket
<1>1. GateInv => OneTokenPerTicket
  BY DEF GateInv, TicketInv
<1> QED BY <1>1, GateInvariant, PTL

(* No certificate for a protected device, and none for a device other than *)
(* the one a session began on unless its gate identifier was drawn twice.  *)
THEOREM CertificatesNameTheDevice == Spec => []CertificateForOwnDevice
<1>1. GateInv => CertificateForOwnDevice
  BY DEF GateInv, CertInv, CertificateForOwnDevice
<1> QED BY <1>1, GateInvariant, PTL

LEMMA JobTypeInvariant == Spec => [](JobTypeOK /\ StartedInv)
<1>1. Init => JobTypeOK /\ StartedInv
  BY InitTypeOK, InitStarted, TypeSplit
<1> QED BY <1>1, NextJobType, PTL DEF Spec

(* Every variable keeps its type, however identifiers collide.             *)
THEOREM TypeCorrect == Spec => []TypeOK
<1>1. JobTypeOK /\ GateInv => TypeOK
  BY TypeSplit DEF GateInv
<1> QED BY <1>1, JobTypeInvariant, GateInvariant, PTL


(* An entry under the identifier of a started call is there, says what the *)
(* worker does as long as no other call drew the identifier, and has ended *)
(* once all workers that write it have.                                    *)
ReportInv ==
  /\ \A s \in Starts : id[s] # None => jobs[id[s]].state # "none"
  /\ ReportedIsReal
  /\ QuietJobsHaveEnded

LEMMA InitReportInv == Init => ReportInv
BY DEF Init, ReportInv, ReportedIsReal, QuietJobsHaveEnded, Ended

(* A worker that hands an entry to update_job replaces its own.            *)
LEMMA UpdateHits ==
  ASSUME JobTypeOK, ReportInv, NEW s \in Starts, id[s] \in Ids, NEW entry
  PROVE  Updated(id[s], entry) = [jobs EXCEPT ![id[s]] = entry]
BY NoneAssumption DEF JobTypeOK, ReportInv, Updated

(* What a step of a worker comes to: an entry of its own that agrees with  *)
(* what it now does keeps the invariant.                                   *)
LEMMA WorkerStep ==
  ASSUME JobTypeOK, StartedInv, ReportInv, NEW s \in Starts, id[s] \in Ids,
         NEW entry, entry.state # "none",
         jobs' = [jobs EXCEPT ![id[s]] = entry],
         id' = id,
         \A t \in Starts \ {s} : pc'[t] = pc[t] /\ copied'[t] = copied[t],
         pc'[s] # "idle",
         Ended(pc'[s]) => Ended(entry.state),
         ~ SharedId(s) => entry = Progress(s)'
  PROVE  ReportInv'
<1> USE NoneAssumption DEF JobTypeOK
<1>1. \A t \in Starts : id'[t] # None => jobs'[id'[t]].state # "none"
  BY DEF ReportInv
<1>2. ReportedIsReal'
  <2> SUFFICES ASSUME NEW t \in Starts, pc'[t] # "idle", ~ SharedId(t)'
               PROVE  jobs'[id'[t]] = Progress(t)'
    BY DEF ReportedIsReal
  <2>1. ~ SharedId(t)
    BY DEF SharedId
  <2>2. CASE t = s
    BY <2>1, <2>2
  <2>3. CASE t # s
    <3>1. id[t] # id[s] /\ id[t] \in Ids
      BY <2>1, <2>3 DEF SharedId, StartedInv
    <3>2. jobs'[id[t]] = jobs[id[t]]
      BY <3>1
    <3>3. Progress(t)' = Progress(t)
      BY <2>3 DEF Progress
    <3>4. jobs[id[t]] = Progress(t)
      BY <2>1, <2>3 DEF ReportInv, ReportedIsReal
    <3> QED BY <3>2, <3>3, <3>4
  <2> QED BY <2>2, <2>3
<1>3. QuietJobsHaveEnded'
  <2> SUFFICES ASSUME NEW t \in Starts,
                      \A u \in Starts : id'[u] = id'[t] => Ended(pc'[u])
               PROVE  Ended(jobs'[id'[t]].state)
    BY DEF QuietJobsHaveEnded
  <2>1. CASE id[t] = id[s]
    BY <2>1
  <2>2. CASE id[t] # id[s]
    <3>1. Ended(jobs[id[t]].state)
      BY <2>2 DEF ReportInv, QuietJobsHaveEnded
    <3> QED BY <2>2, <3>1
  <2> QED BY <2>1, <2>2
<1> QED BY <1>1, <1>2, <1>3 DEF ReportInv

LEMMA NextReportInv ==
  JobTypeOK /\ StartedInv /\ ReportInv /\ [Next]_vars => ReportInv'
<1> SUFFICES ASSUME JobTypeOK, StartedInv, ReportInv, [Next]_vars
             PROVE  ReportInv'
  OBVIOUS
<1> USE DEF JobTypeOK
<1>1. ASSUME NEW s \in Starts, StartAcquisition(s)
      PROVE  ReportInv'
  <2>1. PICK i \in Ids :
          /\ id' = [id EXCEPT ![s] = i]
          /\ jobs' = [jobs EXCEPT ![i] = [NoJob EXCEPT !.state = "queued"]]
    BY <1>1 DEF StartAcquisition, Registered
  <2>2. /\ pc[s] = "idle" /\ id[s] = None /\ copied[s] = 0
        /\ pc' = [pc EXCEPT ![s] = "queued"] /\ copied' = copied
    BY <1>1 DEF StartAcquisition, StartedInv
  <2>3. jobs'[i] = [state |-> "queued", done |-> 0, error |-> FALSE]
    BY <2>1 DEF NoJob
  <2>4. \A t \in Starts : id'[t] # None => jobs'[id'[t]].state # "none"
    <3> SUFFICES ASSUME NEW t \in Starts, id'[t] # None
                 PROVE  jobs'[id'[t]].state # "none"
      OBVIOUS
    <3>1. CASE id'[t] = i
      BY <2>3, <3>1
    <3>2. CASE id'[t] # i
      BY <2>1, <3>2 DEF ReportInv
    <3> QED BY <3>1, <3>2
  <2>5. ReportedIsReal'
    <3> SUFFICES ASSUME NEW t \in Starts, pc'[t] # "idle", ~ SharedId(t)'
                 PROVE  jobs'[id'[t]] = Progress(t)'
      BY DEF ReportedIsReal
    <3>1. CASE t = s
      BY <2>1, <2>2, <2>3, <3>1 DEF Progress
    <3>2. CASE t # s
      <4>1. id[t] \in Ids /\ id[t] # i /\ id'[t] = id[t]
        BY <2>1, <2>2, <3>2 DEF SharedId, StartedInv
      <4>2. ~ SharedId(t)
        BY <2>1, <2>2, <3>2, <4>1, NoneAssumption DEF SharedId
      <4>3. Progress(t)' = Progress(t)
        BY <2>2, <3>2 DEF Progress
      <4> QED BY <2>1, <2>2, <3>2, <4>1, <4>2, <4>3 DEF ReportInv, ReportedIsReal
    <3> QED BY <3>1, <3>2
  <2>6. QuietJobsHaveEnded'
    <3> SUFFICES ASSUME NEW t \in Starts,
                        \A u \in Starts : id'[u] = id'[t] => Ended(pc'[u])
                 PROVE  Ended(jobs'[id'[t]].state)
      BY DEF QuietJobsHaveEnded
    <3>1. t # s /\ id'[t] # i
      BY <2>1, <2>2 DEF Ended
    <3>2. \A u \in Starts : id[u] = id[t] => Ended(pc[u])
      <4>1. id[t] # None
        BY <2>2, <3>1 DEF StartedInv, Ended
      <4> QED BY <2>1, <2>2, <3>1, <4>1
    <3>3. Ended(jobs[id[t]].state)
      BY <3>2 DEF ReportInv, QuietJobsHaveEnded
    <3> QED BY <2>1, <3>1, <3>3
  <2> QED BY <2>4, <2>5, <2>6 DEF ReportInv
<1>2. ASSUME NEW s \in Starts, Work(s)
      PROVE  ReportInv'
  <2>1. pc[s] # "idle"
    BY <1>2 DEF Work, OpenDrive, CreateImage, CopyChunk, Complete, WorkerFails
  <2>2. id[s] \in Ids /\ jobs[id[s]] \in Entry /\ jobs[id[s]].state # "none"
    BY <2>1 DEF StartedInv, ReportInv
  <2>3. ~ SharedId(s) => jobs[id[s]] = Progress(s)
    BY <2>1 DEF ReportInv, ReportedIsReal
  <2>4. CASE OpenDrive(s)
    <3> DEFINE entry == [jobs[id[s]] EXCEPT !.state = "running"]
    <3>1. jobs' = [jobs EXCEPT ![id[s]] = entry]
      BY <2>2, <2>4, UpdateHits DEF OpenDrive
    <3>2. /\ pc[s] = "queued" /\ pc' = [pc EXCEPT ![s] = "opened"]
          /\ id' = id /\ copied' = copied
      BY <2>4 DEF OpenDrive
    <3>3. entry.state = "running"
      BY <2>2 DEF Entry
    <3>4. ~ SharedId(s) => entry = Progress(s)'
      BY <2>3, <3>2 DEF Progress
    <3> HIDE DEF entry
    <3> QED BY <2>2, <3>1, <3>2, <3>3, <3>4, WorkerStep DEF Ended
  <2>5. CASE CreateImage(s)
    <3> DEFINE entry == jobs[id[s]]
    <3>1. jobs' = [jobs EXCEPT ![id[s]] = entry]
      BY <2>5 DEF CreateImage
    <3>2. /\ pc[s] = "opened" /\ pc' = [pc EXCEPT ![s] = "copying"]
          /\ id' = id /\ copied' = copied
      BY <2>5 DEF CreateImage
    <3>3. ~ SharedId(s) => entry = Progress(s)'
      BY <2>3, <3>2 DEF Progress
    <3>4. entry.state # "none"
      BY <2>2
    <3> HIDE DEF entry
    <3> QED BY <2>2, <3>1, <3>2, <3>3, <3>4, WorkerStep DEF Ended
  <2>6. CASE CopyChunk(s)
    <3> DEFINE entry == [state |-> "running", done |-> copied[s] + 1,
                         error |-> jobs[id[s]].error]
    <3>1. jobs' = [jobs EXCEPT ![id[s]] = entry]
      BY <2>2, <2>6, UpdateHits DEF CopyChunk
    <3>2. /\ pc[s] = "copying" /\ pc' = pc /\ id' = id
          /\ copied' = [copied EXCEPT ![s] = copied[s] + 1]
      BY <2>6 DEF CopyChunk
    <3>3. entry.state = "running"
      BY <2>2 DEF Entry
    <3>4. ~ SharedId(s) => entry = Progress(s)'
      BY <2>3, <3>2 DEF Progress
    <3> HIDE DEF entry
    <3> QED BY <2>2, <3>1, <3>2, <3>3, <3>4, WorkerStep DEF Ended
  <2>7. CASE Complete(s)
    <3> DEFINE entry == [state |-> "completed", done |-> Chunks, error |-> jobs[id[s]].error]
    <3>1. jobs' = [jobs EXCEPT ![id[s]] = entry]
      BY <2>2, <2>7, UpdateHits DEF Complete
    <3>2. /\ pc[s] = "copying" /\ pc' = [pc EXCEPT ![s] = "completed"]
          /\ id' = id /\ copied' = copied /\ copied[s] = Chunks
      BY <2>7, ChunkAssumption DEF Complete, MoreToCopy
    <3>3. entry.state = "completed"
      BY <2>2 DEF Entry
    <3>4. ~ SharedId(s) => entry = Progress(s)'
      BY <2>3, <3>2 DEF Progress
    <3> HIDE DEF entry
    <3> QED BY <2>2, <3>1, <3>2, <3>3, <3>4, WorkerStep DEF Ended
  <2>8. CASE WorkerFails(s)
    <3> DEFINE entry == [state |-> "failed", done |-> jobs[id[s]].done, error |-> TRUE]
    <3>1. jobs' = [jobs EXCEPT ![id[s]] = entry]
      BY <2>2, <2>8, UpdateHits DEF WorkerFails, FailureReported
    <3>2. /\ pc' = [pc EXCEPT ![s] = "failed"] /\ id' = id /\ copied' = copied
      BY <2>8 DEF WorkerFails
    <3>3. entry.state = "failed"
      BY <2>2 DEF Entry
    <3>4. ~ SharedId(s) => entry = Progress(s)'
      <4>1. ~ SharedId(s) => jobs[id[s]].done = copied[s]
        BY <2>3 DEF Progress
      <4>2. Progress(s)' = [state |-> "failed", done |-> copied[s], error |-> TRUE]
        BY <3>2 DEF Progress
      <4> QED BY <4>1, <4>2
    <3> HIDE DEF entry
    <3> QED BY <2>2, <3>1, <3>2, <3>3, <3>4, WorkerStep DEF Ended
  <2> QED BY <1>2, <2>4, <2>5, <2>6, <2>7, <2>8 DEF Work
<1>3. CASE ResumeAcquisition
  <2>1. PICK i \in ResumeIds : \E entry : jobs' = [jobs EXCEPT ![i] = entry]
    BY <1>3 DEF ResumeAcquisition, ResumeDraws, Registered
  <2>2. UNCHANGED <<pc, id, copied>>
    BY <1>3 DEF ResumeAcquisition
  <2>3. \A s \in Starts : id[s] # None => id[s] # i /\ jobs'[id[s]] = jobs[id[s]]
    BY <2>1, IdAssumption
  <2>4. \A s \in Starts : (\A t \in Starts : id[t] = id[s] => Ended(pc[t])) => id[s] # None
    BY DEF StartedInv, Ended
  <2>5. \A s \in Starts : Progress(s)' = Progress(s) /\ (SharedId(s)' <=> SharedId(s))
    BY <2>2 DEF Progress, SharedId
  <2>6. ReportedIsReal'
    BY <2>2, <2>3, <2>5 DEF ReportInv, ReportedIsReal, StartedInv
  <2>7. QuietJobsHaveEnded'
    BY <2>2, <2>3, <2>4 DEF ReportInv, QuietJobsHaveEnded
  <2> QED BY <2>2, <2>3, <2>6, <2>7 DEF ReportInv
<1>4. CASE UNCHANGED jobVars
  BY <1>4 DEF jobVars, ReportInv, ReportedIsReal, QuietJobsHaveEnded, Progress, SharedId
<1> QED BY <1>1, <1>2, <1>3, <1>4, Apart DEF Next, vars

LEMMA ReportInvariant == Spec => []ReportInv
<1>1. Init => JobTypeOK /\ StartedInv /\ ReportInv
  BY InitTypeOK, InitStarted, InitReportInv, TypeSplit
<1> QED BY <1>1, NextJobType, NextReportInv, PTL DEF Spec

(* For any number of calls: unless its identifier was drawn twice, a job   *)
(* is polled as what its worker is doing.                                  *)
THEOREM PollsTellTheTruth == Spec => []ReportedIsReal
<1>1. ReportInv => ReportedIsReal
  BY DEF ReportInv
<1> QED BY <1>1, ReportInvariant, PTL

(* For any number of calls on any number of identifiers: a job is ended    *)
(* once none of its workers runs.                                          *)
THEOREM NoJobIsLeftRunning == Spec => []QuietJobsHaveEnded
<1>1. ReportInv => QuietJobsHaveEnded
  BY DEF ReportInv
<1> QED BY <1>1, ReportInvariant, PTL

=============================================================================
