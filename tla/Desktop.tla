------------------------------ MODULE Desktop ------------------------------
(***************************************************************************)
(* The shared state of the desktop shell (vajra-tauri-app): the job map    *)
(* that worker threads write and the user interface polls, and the         *)
(* registry of sanitization gates.  Both are maps behind a mutex, and both *)
(* are keyed by a few random digits that nothing keeps distinct.           *)
(***************************************************************************)
EXTENDS Integers

CONSTANTS
  Starts,    (* calls of start_acquisition                                 *)
  Ids,       (* identifiers they draw; the code draws one of 10,000        *)
  ResumeIds, (* identifiers of resume_acquisition; one of 1,000            *)
  Chunks,    (* chunks of the devices acquired                             *)
  Sessions,  (* calls of begin_sanitization_gate and what follows them     *)
  Gates,     (* identifiers of gates; the code draws one of 10,000         *)
  Devices,   (* devices that are enumerated                                *)
  Protected, (* those that are a system disk or write-blocked              *)
  None       (* no identifier, ticket or device                            *)

ASSUME IdAssumption == Ids \cap ResumeIds = {}
ASSUME ChunkAssumption == Chunks \in Nat
ASSUME ProtectedAssumption == Protected \subseteq Devices
ASSUME NoneAssumption ==
  None \notin Ids /\ None \notin Sessions /\ None \notin Gates /\ None \notin Devices

VARIABLES
  jobs,     (* the job map                                                 *)
  pc,       (* of every start: its worker thread                           *)
  id,       (* of every start: the identifier it drew                      *)
  copied,   (* of every start: chunks its engine copied                    *)
  pending,  (* pending_gates: the session whose ticket is kept             *)
  issued,   (* authorized_tokens: the tickets that were finalized          *)
  device,   (* of every session: the device it began on                    *)
  gate,     (* of every session: the gate identifier it was given          *)
  token,    (* of every session: the ticket its token was made of          *)
  certs     (* certificates handed out, with the session that asked        *)

jobVars == <<jobs, pc, id, copied>>
gateVars == <<pending, issued, device, gate, token, certs>>
vars == <<jobVars, gateVars>>

States == {"queued", "running", "completed", "failed"}
NoJob == [state |-> "none", done |-> 0, error |-> FALSE]
Ended(state) == state \in {"completed", "failed"}

TypeOK ==
  /\ jobs \in [Ids \cup ResumeIds -> [state : States \cup {"none"},
                                      done : 0 .. Chunks, error : BOOLEAN]]
  /\ pc \in [Starts -> {"idle", "queued", "opened", "copying", "completed", "failed"}]
  /\ id \in [Starts -> Ids \cup {None}]
  /\ copied \in [Starts -> 0 .. Chunks]
  /\ pending \in [Gates -> Sessions \cup {None}]
  /\ issued \subseteq Sessions
  /\ device \in [Sessions -> Devices \cup {None}]
  /\ gate \in [Sessions -> Gates \cup {None}]
  /\ token \in [Sessions -> Sessions \cup {None}]
  /\ certs \subseteq Sessions \X Devices

Init ==
  /\ jobs = [i \in Ids \cup ResumeIds |-> NoJob]
  /\ pc = [s \in Starts |-> "idle"]
  /\ id = [s \in Starts |-> None]
  /\ copied = [s \in Starts |-> 0]
  /\ pending = [g \in Gates |-> None]
  /\ issued = {}
  /\ device = [s \in Sessions |-> None]
  /\ gate = [s \in Sessions |-> None]
  /\ token = [s \in Sessions |-> None]
  /\ certs = {}

-----------------------------------------------------------------------------
(* The job map.                                                            *)

(* register_job overwrites whatever the identifier stood for; update_job   *)
(* changes an entry that is there.                                         *)
Registered(i, entry) == [jobs EXCEPT ![i] = entry]
Updated(i, entry) ==
  IF jobs[i].state = "none" THEN jobs ELSE [jobs EXCEPT ![i] = entry]

(* The entry is registered before the worker is spawned and the caller is  *)
(* told the identifier.                                                    *)
StartAcquisition(s) ==
  /\ pc[s] = "idle"
  /\ \E i \in Ids :
       /\ id' = [id EXCEPT ![s] = i]
       /\ jobs' = Registered(i, [NoJob EXCEPT !.state = "queued"])
  /\ pc' = [pc EXCEPT ![s] = "queued"]
  /\ UNCHANGED <<copied, gateVars>>

OpenDrive(s) ==
  /\ pc[s] = "queued"
  /\ jobs' = Updated(id[s], [jobs[id[s]] EXCEPT !.state = "running"])
  /\ pc' = [pc EXCEPT ![s] = "opened"]
  /\ UNCHANGED <<id, copied, gateVars>>

CreateImage(s) ==
  /\ pc[s] = "opened"
  /\ pc' = [pc EXCEPT ![s] = "copying"]
  /\ UNCHANGED <<jobs, id, copied, gateVars>>

(* The engine's loop condition.  Plausible defect: it runs once too often. *)
MoreToCopyInclusive(s) == copied[s] <= Chunks
MoreToCopy(s) == copied[s] < Chunks

(* A chunk is copied and on_progress called.                               *)
CopyChunk(s) ==
  /\ pc[s] = "copying" /\ MoreToCopy(s)
  /\ copied' = [copied EXCEPT ![s] = @ + 1]
  /\ jobs' = Updated(id[s], [state |-> "running", done |-> copied[s] + 1,
                             error |-> jobs[id[s]].error])
  /\ UNCHANGED <<pc, id, gateVars>>

Complete(s) ==
  /\ pc[s] = "copying" /\ ~ MoreToCopy(s)
  /\ jobs' = Updated(id[s], [state |-> "completed", done |-> Chunks,
                             error |-> jobs[id[s]].error])
  /\ pc' = [pc EXCEPT ![s] = "completed"]
  /\ UNCHANGED <<id, copied, gateVars>>

(* The drive cannot be opened, the image cannot be created, or acquire     *)
(* returns an error after any number of chunks.  What the worker writes in *)
(* the map, and two plausible defects: the arm is missing, and the message *)
(* is written without the state.                                           *)
FailureUnreported(s) == jobs
FailureMessageOnly(s) == Updated(id[s], [jobs[id[s]] EXCEPT !.error = TRUE])
FailureReported(s) ==
  Updated(id[s], [state |-> "failed", done |-> jobs[id[s]].done, error |-> TRUE])

WorkerFails(s) ==
  /\ pc[s] \in {"queued", "opened", "copying"}
  /\ jobs' = FailureReported(s)
  /\ pc' = [pc EXCEPT ![s] = "failed"]
  /\ UNCHANGED <<id, copied, gateVars>>

(* resume_acquisition registers a running job from a checkpoint and spawns *)
(* no worker.  Plausible defect: it draws its identifier as a start does.  *)
ResumeDrawsAny == Ids \cup ResumeIds
ResumeDraws == ResumeIds

ResumeAcquisition ==
  /\ \E i \in ResumeDraws, done \in 0 .. Chunks :
       jobs' = Registered(i, [state |-> "running", done |-> done, error |-> FALSE])
  /\ UNCHANGED <<pc, id, copied, gateVars>>

Work(s) ==
  OpenDrive(s) \/ CreateImage(s) \/ CopyChunk(s) \/ Complete(s) \/ WorkerFails(s)

-----------------------------------------------------------------------------
(* The gate registry.                                                      *)

(* What the command and the gate behind it admit; the serial typed is the  *)
(* device's own.  Plausible defect: nothing is refused.                    *)
AdmitsAll(d) == TRUE
Admits(d) == d \notin Protected

(* store_pending overwrites a ticket that is kept under the identifier.    *)
BeginGate(s) ==
  /\ gate[s] = None
  /\ \E d \in Devices, g \in Gates :
       /\ Admits(d)
       /\ device' = [device EXCEPT ![s] = d]
       /\ gate' = [gate EXCEPT ![s] = g]
       /\ pending' = [pending EXCEPT ![g] = s]
  /\ UNCHANGED <<jobVars, issued, token, certs>>

(* What is left of pending_gates once a ticket is taken.                   *)
AfterTaking(g) == [pending EXCEPT ![g] = None]

(* finalize_gate: the ticket is removed and its token stored under both    *)
(* locks.  The serial typed only has to be there.  A caller may ask twice; *)
(* without a ticket it gets an error.                                      *)
FinalizeGate(s) ==
  /\ gate[s] # None /\ pending[gate[s]] # None
  /\ token' = [token EXCEPT ![s] = pending[gate[s]]]
  /\ issued' = issued \cup {pending[gate[s]]}
  /\ pending' = AfterTaking(gate[s])
  /\ UNCHANGED <<jobVars, device, gate, certs>>

(* execute_sanitization: a token is looked up and stays; a certificate is  *)
(* handed out for the device its ticket was begun on.                      *)
ExecuteSanitization(s) ==
  /\ token[s] \in issued
  /\ certs' = certs \cup {<<s, device[token[s]]>>}
  /\ UNCHANGED <<jobVars, pending, issued, device, gate, token>>

Next ==
  \/ \E s \in Starts : StartAcquisition(s) \/ Work(s)
  \/ ResumeAcquisition
  \/ \E s \in Sessions : BeginGate(s) \/ FinalizeGate(s) \/ ExecuteSanitization(s)

Spec == Init /\ [][Next]_vars

(* A worker is a thread of its own and waits for no other for long.        *)
FairSpec == Spec /\ \A s \in Starts : WF_vars(Work(s))

-----------------------------------------------------------------------------
SharedId(s) == \E t \in Starts \ {s} : id[t] = id[s]
SharedGate(s) == \E t \in Sessions \ {s} : gate[t] = gate[s]

(* What a poll should say of the worker of a call.                         *)
Progress(s) ==
  [state |-> IF pc[s] \in {"opened", "copying"} THEN "running" ELSE pc[s],
   done |-> copied[s],
   error |-> pc[s] = "failed"]

(* Unless another call drew its identifier, a job is polled as what its    *)
(* worker is doing: no resume, no other worker and no fallback answer ever *)
(* speaks for it, and it is never taken back once it has ended.            *)
ReportedIsReal ==
  \A s \in Starts : pc[s] # "idle" /\ ~ SharedId(s) => jobs[id[s]] = Progress(s)

(* Even under a shared identifier, the entry has ended once no worker is   *)
(* left that could end it: no interleaving of the workers' updates leaves  *)
(* a job running for ever.                                                 *)
QuietJobsHaveEnded ==
  \A s \in Starts :
    (\A t \in Starts : id[t] = id[s] => Ended(pc[t])) => Ended(jobs[id[s]].state)

(* Whoever polls the identifier it was given will see the job end.         *)
JobsEnd ==
  \A s \in Starts :
    (pc[s] # "idle") ~> (pc[s] # "idle" /\ Ended(jobs[id[s]].state))

(* A ticket is finalized at most once: two sessions never hold a token     *)
(* made of the same ticket, also when they were given the same gate.       *)
OneTokenPerTicket ==
  \A s, t \in Sessions : token[s] # None /\ token[s] = token[t] => s = t

(* A certificate is for a device that is not protected, and, unless the    *)
(* gate identifier was given to another session as well, for the device    *)
(* that was shown to the session which asks for it.                        *)
CertificateForOwnDevice ==
  \A c \in certs :
    /\ c[2] \notin Protected
    /\ ~ SharedGate(c[1]) => c[2] = device[c[1]]

=============================================================================
