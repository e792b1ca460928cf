----------------------------- MODULE Reporting -----------------------------
(* Report generation (vajra-audit report, the command line's and the       *)
(* desktop's report commands) against a vault that other processes keep    *)
(* writing to: the reads of a report, its signature, its audit entry, its  *)
(* row, its file, and what the verifier says of the file after damage.     *)
(*                                                                         *)
(* A report states facts: the rows it lists, and <<"done", op>> for an     *)
(* acquisition it lists as Completed.  <<"default", kind>> stands for the  *)
(* constants a command fills in where it reads nothing.  The artifact and  *)
(* sanitization tables are left out: no command stores a row in them.      *)
EXTENDS CaseVault, ReportVerifier

CONSTANTS
  Reporters, (* processes, each of which generates one report              *)
  Faults,    (* among "read" (a query fails), "db" (a row is not stored),  *)
             (* "io" (nor a file)                                          *)
  MaxLog,    (* bound: length up to which others append to the audit log   *)
  MaxDamage, (* bound: alterations of written files                        *)
  Alterable, (* bound: kinds of reports whose files are altered            *)
  OtherKey   (* a key that is no reporter's                                *)

Kind == {"exam", "sanitization", "acquisition", "recovery", "health", "custody"}

ASSUME FaultsAssumption == Faults \subseteq {"read", "db", "io"}
ASSUME BoundsAssumption == MaxLog \in Nat /\ MaxDamage \in Nat /\ Alterable \subseteq Kind
ASSUME KeyAssumption == NoKey \notin Reporters /\ OtherKey \notin Reporters

VARIABLES
  log,     (* the audit log, an append-only ledger (AuditLedger)           *)
  reports, (* reports with a row in the reports table                      *)
  at,      (* what each reporter is doing, and what it has read            *)
  known,   (* history: what the vault held on its subject when it started  *)
  issued,  (* the envelopes as they were generated                         *)
  files,   (* the envelopes as they are on disk                            *)
  damage   (* alterations so far                                           *)

vars == <<vault, log, reports, at, known, issued, files, damage>>

Report(w) == <<"report", w>>
Other == <<"other", "process">>

(* What the queries of a report find on a case, or on an item.             *)

(* A plausible defect: the query is not restricted to the case.            *)
ItemFactsOfAny(c) == { <<"item", i>> : i \in DOMAIN items }

ItemFacts(c)  == { <<"item", i>> : i \in ItemsOf(c) }
OpFacts(c)    == { <<"op", o>> : o \in OpsOf(c) }
                   \cup { <<"done", o>> : o \in OpsOf(c) \cap complete }
EventFacts(i) == { <<"event", e>> : e \in EventsOf(i) }

(* All the vault holds on a case.                                          *)
CaseFacts(c) ==
  LET held == { i \in DOMAIN items : items[i] = c } IN
  { <<"item", i>> : i \in held }
    \cup { <<"op", o>> : o \in { p \in DOMAIN ops : ops[p].case = c } }
    \cup { <<"done", o>> : o \in { p \in complete : ops[p].case = c } }
    \cup { <<"image", m>> : m \in { n \in DOMAIN images : images[n].item \in held } }
    \cup { <<"event", e>> : e \in { d \in DOMAIN events : events[d] \in held } }

(* The first thing a report reads.  From the command line the acquisition  *)
(* and the custody report read something, too; the recovery report reads   *)
(* artifacts, of which there are none.                                     *)
FirstReadCli(kind) ==
  CASE kind = "exam" -> "case"
    [] kind = "acquisition" -> "image"
    [] kind = "custody" -> "event"
    [] OTHER -> "head"

(* The desktop fills in constants for all kinds but the examination.       *)
FirstReadDesktop(kind) == IF kind = "exam" THEN "case" ELSE "head"

FirstRead(shell, kind) ==
  IF shell = "cli" THEN FirstReadCli(kind) ELSE FirstReadDesktop(kind)

(* What a report is to be about.                                           *)
Subject(job) ==
  CASE FirstRead(job.shell, job.kind) \in {"case", "image"} -> CaseFacts(job.case)
    [] FirstRead(job.shell, job.kind) = "event" ->
         { <<"event", e>> : e \in { d \in DOMAIN events : events[d] = job.item } }
    [] OTHER -> {}

(* fetch_timestamp_opportunistic: a token of the authority, a refusal by   *)
(* it, or no answer.                                                       *)
Stamps == { [rfc |-> TRUE, token |-> TRUE, url |-> TRUE, local |-> FALSE],
            [rfc |-> FALSE, token |-> FALSE, url |-> TRUE, local |-> TRUE],
            [rfc |-> FALSE, token |-> FALSE, url |-> FALSE, local |-> TRUE] }

-----------------------------------------------------------------------------
Resting == [pc |-> "idle", shell |-> "cli", kind |-> "exam", case |-> "none",
            item |-> "none", content |-> {}, listed |-> {}, todo |-> {},
            skipped |-> {}, head |-> 0]

Init ==
  /\ VaultInit
  /\ log = <<>>
  /\ reports = {}
  /\ at = [w \in Reporters |-> Resting]
  /\ known = [w \in Reporters |-> {}]
  /\ issued = <<>>
  /\ files = <<>>
  /\ damage = 0

(* A reporter takes facts in and goes on.                                  *)
Takes(w, facts, pc) ==
  at' = [at EXCEPT ![w] = [at[w] EXCEPT !.content = @ \cup facts, !.pc = pc]]

(* A query fails: the report is abandoned, or the reporter passes over it  *)
(* and goes on.  `skipped` is history: the items it read no events of.     *)
Abandons(w) == "read" \in Faults /\ Takes(w, {}, "failed")
Skips(w, i, pc) ==
  "read" \in Faults /\ at' = [at EXCEPT ![w] = [at[w] EXCEPT !.pc = pc,
                                !.todo = @ \ {i}, !.skipped = @ \cup {i}]]

Reads == UNCHANGED <<vault, log, reports, known, issued, files, damage>>

(* cmd_report_generate of the command line, generate_report of the desktop:*)
(* a kind, a case and an item.                                             *)
Request(w, shell, kind, c, i) ==
  LET first == FirstRead(shell, kind)
      job == [pc |-> first, shell |-> shell, kind |-> kind, case |-> c,
              item |-> IF first \in {"image", "event"} THEN i ELSE "none",
              content |-> IF first = "case" THEN {} ELSE {<<"default", kind>>},
              listed |-> {}, todo |-> {}, skipped |-> {}, head |-> 0] IN
  /\ at[w].pc = "idle"
  /\ at' = [at EXCEPT ![w] = job]
  /\ known' = [known EXCEPT ![w] = Subject(job)]
  /\ UNCHANGED <<vault, log, reports, issued, files, damage>>

(* get_case: the examination of an unknown case is refused.                *)
ReadCase(w) ==
  /\ at[w].pc = "case"
  /\ \/ Takes(w, {}, IF at[w].case \in DOMAIN cases THEN "items" ELSE "failed")
     \/ Abandons(w)
  /\ Reads

(* list_evidence_for_case; the items are also those to ask for custody.    *)
ReadItems(w) ==
  /\ at[w].pc = "items"
  /\ \/ at' = [at EXCEPT ![w] = [at[w] EXCEPT !.pc = "ops",
                 !.content = ItemFacts(at[w].case), !.todo = ItemsOf(at[w].case)]]
     \/ Abandons(w)
  /\ Reads

(* get_operations_for_case (and get_recovered_artifacts_for_case, empty).  *)
ReadOps(w) ==
  /\ at[w].pc = "ops"
  /\ Takes(w, OpFacts(at[w].case), "images") \/ Abandons(w)
  /\ Reads

(* get_forensic_images_for_case, which goes into the manifest only.        *)
ReadImages(w) ==
  /\ at[w].pc = "images"
  /\ \/ at' = [at EXCEPT ![w] = [at[w] EXCEPT !.pc = "events",
                 !.listed = ImagesOf(at[w].case)]]
     \/ Abandons(w)
  /\ Reads

(* list_custody_events_for_evidence, for one listed item after the other.  *)
(* An item whose query fails is passed over, and the report says nothing   *)
(* of it (if let Ok).                                                      *)
ReadEvents(w) ==
  /\ at[w].pc = "events"
  /\ \/ /\ at[w].todo = {}
        /\ Takes(w, {}, "head")
     \/ \E i \in at[w].todo :
          at' = [at EXCEPT ![w] = [at[w] EXCEPT !.todo = @ \ {i},
                   !.content = @ \cup EventFacts(i)]]
     \/ \E i \in at[w].todo : Skips(w, i, "events")
  /\ Reads

(* The acquisition report of the command line: an image of the item, if    *)
(* the case has one; otherwise, and where the query fails, the constants   *)
(* stand (unwrap_or_default).                                              *)
ReadImage(w) ==
  /\ at[w].pc = "image"
  /\ LET found == { m \in ImagesOf(at[w].case) : images[m].item = at[w].item } IN
     \/ (found = {} \/ "read" \in Faults) /\ Takes(w, {}, "head")
     \/ \E m \in found : Takes(w, {<<"image", m>>}, "head")
  /\ Reads

(* The custody report of the command line: the events of the item, of      *)
(* whatever case it is, or none where the query fails (unwrap_or_default). *)
ReadCustody(w) ==
  /\ at[w].pc = "event"
  /\ Takes(w, EventFacts(at[w].item), "head") \/ Skips(w, at[w].item, "head")
  /\ Reads

(* package_and_sign up to the head of the chain: digest, signature and     *)
(* certificate are made of what was read and touch nothing else.           *)
ReadHead(w) ==
  /\ at[w].pc = "head"
  /\ \/ at' = [at EXCEPT ![w] = [at[w] EXCEPT !.pc = "insert", !.head = Len(log)]]
     \/ Abandons(w)
  /\ Reads

(* AuditChain::append: the entry is refused when another took its number,  *)
(* or not stored for another reason.  The report is then abandoned.        *)
Insert(w) ==
  /\ at[w].pc = "insert"
  /\ \/ /\ Len(log) = at[w].head
        /\ log' = Append(log, Report(w))
        /\ Takes(w, {}, "load")
     \/ /\ Len(log) # at[w].head \/ "db" \in Faults
        /\ Takes(w, {}, "failed")
        /\ UNCHANGED log
  /\ UNCHANGED <<vault, reports, known, issued, files, damage>>

(* The hash a command states for the image of an item that has none.       *)
Constant == "constant"

ASSUME ConstantAssumption == Constant \notin Images

(* The manifest of an acquisition report: the image it is about, or what   *)
(* the command has filled in.                                              *)
AcquisitionManifest(w) ==
  LET shown == { m \in DOMAIN images : <<"image", m>> \in at[w].content } IN
  { [item |-> at[w].item, hash |-> m] : m \in IF shown = {} THEN {Constant} ELSE shown }

(* The manifest of the other kinds; only the examination report fills it.  *)
Manifest(w) ==
  IF at[w].kind = "acquisition" THEN AcquisitionManifest(w)
  ELSE { [item |-> images[m].item, hash |-> m] : m \in at[w].listed }

(* A plausible defect: the segment ends at the head that was extended.     *)
SegmentOfHead(w) == SubSeq(ChainOf(log), 1, at[w].head)

(* load_entries gives the whole log, whatever case its entries are of.     *)
Segment(w) == ChainOf(log)

(* The envelope: only the content is covered by the signature.             *)
Envelope(w, stamp) ==
  [kind |-> at[w].kind, case |-> at[w].case, content |-> at[w].content,
   digest |-> Digest(at[w].content), cert |-> w,
   signature |-> Signature(w, Digest(at[w].content)),
   segment |-> Segment(w), stamp |-> stamp, manifest |-> Manifest(w)]

(* Where the log cannot be read the report is abandoned after its entry.   *)
Load(w) ==
  /\ at[w].pc = "load"
  /\ \/ /\ \E stamp \in Stamps : issued' = With(issued, w, Envelope(w, stamp))
        /\ Takes(w, {}, "record")
     \/ Abandons(w) /\ UNCHANGED issued
  /\ UNCHANGED <<vault, log, reports, known, files, damage>>

(* record_report: the foreign key refuses the row of an unknown case.      *)
RecordReport(w) == at[w].case \in DOMAIN cases /\ reports' = reports \cup {w}

(* Its result is discarded.                                                *)
Record(w) ==
  /\ at[w].pc = "record"
  /\ \/ RecordReport(w)
     \/ /\ at[w].case \notin DOMAIN cases \/ "db" \in Faults
        /\ UNCHANGED reports
  /\ Takes(w, {}, "save")
  /\ UNCHANGED <<vault, log, known, issued, files, damage>>

Writes(w, file) ==
  /\ files' = With(files, w, file)
  /\ UNCHANGED <<vault, log, reports, known, issued, damage>>

(* The file.  The command line ignores a failure and reports success.      *)
SaveCli(w) ==
  /\ at[w].pc = "save" /\ at[w].shell = "cli"
  /\ Takes(w, {}, "done")
  /\ \/ Writes(w, issued[w])
     \/ "io" \in Faults /\ Reads

(* The desktop returns the error, after the entry and the row were made.   *)
SaveDesktop(w) ==
  /\ at[w].pc = "save" /\ at[w].shell = "desktop"
  /\ \/ Takes(w, {}, "done") /\ Writes(w, issued[w])
     \/ Takes(w, {}, "failed") /\ "io" \in Faults /\ Reads

(* Another process appends an audit entry.                                 *)
OtherEntry ==
  /\ Len(log) < MaxLog
  /\ log' = Append(log, Other)
  /\ UNCHANGED <<vault, reports, at, known, issued, files, damage>>

-----------------------------------------------------------------------------
(* Damage to a written file.                                               *)

Facts ==
  { <<"item", i>> : i \in Items } \cup { <<"image", m>> : m \in Images }
    \cup { <<t, o>> : t \in {"op", "done"}, o \in Ops }
    \cup { <<"event", e>> : e \in Events } \cup { <<"default", k>> : k \in Kind }

(* What is signed and what vouches for it, several of them at once: a fact *)
(* more or less, the digest as it was or recomputed, the signature spoiled *)
(* or made anew with another key, the certificate spoiled or exchanged.    *)
Contents(env) ==
  {env.content} \cup { env.content \ {fact} : fact \in env.content }
    \cup { env.content \cup {fact} : fact \in Facts }

Signings(env, content) ==
  { [env EXCEPT !.content = content, !.digest = digest, !.signature = signature, !.cert = cert] :
      digest \in {env.digest, Digest(content)},
      signature \in {env.signature, Garbage, Signature(OtherKey, Digest(content))},
      cert \in {env.cert, NoKey, OtherKey} }

Resigned(env) == UNION { Signings(env, content) : content \in Contents(env) }

(* The segment: entries are missing; an entry tells of another event, with *)
(* the hash it had or its own; or all entries that are left are numbered   *)
(* and chained anew, one of them altered or missing.                       *)
AlteredEvent == <<"altered", "entry">>

Cuts(segment) ==
  { SubSeq(segment, a, b) : a \in 1 .. 2, b \in Len(segment) - 1 .. Len(segment) }
    \cup { SubSeq(segment, 1, i - 1) \o SubSeq(segment, i + 1, Len(segment)) :
             i \in 1 .. Len(segment) }

Retold(segment) ==
  UNION { { [segment EXCEPT ![i] = [@ EXCEPT !.event = AlteredEvent, !.hash = hash]] :
              hash \in {segment[i].hash,
                        EntryHash(segment[i].seq, AlteredEvent, segment[i].prev)} } :
            i \in 1 .. Len(segment) }

Rechained(segments) ==
  { ChainOf([i \in 1 .. Len(segment) |-> segment[i].event]) : segment \in segments }

Resegmented(env) ==
  LET apart == Cuts(env.segment) \cup Retold(env.segment) IN
  { [env EXCEPT !.segment = segment] : segment \in apart \cup Rechained(apart) }

Altered(env) ==
  Resigned(env) \cup Resegmented(env)
    \cup { [env EXCEPT !.stamp.token = FALSE], [env EXCEPT !.manifest = {}] }

Alter ==
  /\ damage < MaxDamage
  /\ damage' = damage + 1
  /\ \E w \in { v \in DOMAIN files : files[v].kind \in Alterable } :
     \E env \in Altered(files[w]) :
       files' = [files EXCEPT ![w] = env]
  /\ UNCHANGED <<vault, log, reports, at, known, issued>>

-----------------------------------------------------------------------------
(* What cmd_report_verify and the desktop's verify_report say of a report: *)
(* the desktop answers "valid" when there is no such file.                 *)
CliVerdict(w)     == w \in DOMAIN files /\ Verify(files[w])
DesktopVerdict(w) == w \in DOMAIN files => Verify(files[w])

Generate(w) ==
  \/ \E shell \in {"cli", "desktop"}, kind \in Kind, c \in Cases, i \in Items :
       Request(w, shell, kind, c, i)
  \/ ReadCase(w) \/ ReadItems(w) \/ ReadOps(w) \/ ReadImages(w) \/ ReadEvents(w)
  \/ ReadImage(w) \/ ReadCustody(w)
  \/ ReadHead(w) \/ Insert(w) \/ Load(w) \/ Record(w)
  \/ SaveCli(w) \/ SaveDesktop(w)

VaultStep ==
  VaultNext /\ UNCHANGED <<log, reports, at, known, issued, files, damage>>

Next ==
  \/ VaultStep
  \/ \E w \in Reporters : Generate(w)
  \/ OtherEntry
  \/ Alter

Spec == Init /\ [][Next]_vars

-----------------------------------------------------------------------------
(* What was altered at random is nobody's signature of any content.        *)
ASSUME GarbageAssumption ==
  \A w \in Reporters, content \in SUBSET Facts : Garbage # Signature(w, Digest(content))

(* Everything has its type, and what refers to a row refers to one that    *)
(* exists.                                                                 *)
TypeOK ==
  /\ VaultTypeOK
  /\ reports \subseteq Reporters
  /\ \A w \in Reporters :
       /\ at[w].content \subseteq Facts
       /\ at[w].todo \subseteq DOMAIN items
       /\ at[w].listed \subseteq DOMAIN images
       /\ at[w].head \in 0 .. Len(log)
       /\ known[w] \subseteq Facts
  /\ DOMAIN files \subseteq DOMAIN issued /\ DOMAIN issued \subseteq Reporters
  /\ damage \in 0 .. MaxDamage

(* What an envelope shows: its content and, in the manifest, images.       *)
Shown(env) ==
  env.content
    \cup { <<"image", entry.hash>> : entry \in { x \in env.manifest : x.hash # Constant } }

(* What a report passed over without a word: the events of the items whose *)
(* custody query failed.                                                   *)
Skipped(w) ==
  { <<"event", e>> : e \in { d \in DOMAIN events : events[d] \in at[w].skipped } }

(* However the reads of a report are interleaved with the writes of other  *)
(* processes, it states nothing that is not in the vault or is about       *)
(* another case, and misses nothing that was there when it was asked for - *)
(* but for the events of items whose query failed: the code signs a report *)
(* without them, and nothing in the report or the vault tells so.  (The    *)
(* acquisition report is about one image only.)                            *)
ReportCoversVault ==
  \A w \in DOMAIN issued :
    /\ Shown(issued[w]) \subseteq {<<"default", at[w].kind>>} \cup Subject(at[w])
    /\ at[w].kind # "acquisition" => known[w] \subseteq Shown(issued[w]) \cup Skipped(w)

(* A report that shows an acquisition of an item of its case as completed  *)
(* has an image it made in its manifest: the engine stores the image       *)
(* first, and the report reads the operations first.                       *)
CompletionShowsImage ==
  \A w \in DOMAIN issued : \A o \in OpsOf(issued[w].case) :
    <<"done", o>> \in issued[w].content /\ items[ops[o].item] = issued[w].case =>
      \E m \in DOMAIN images :
        images[m].op = o /\ <<"image", m>> \in Shown(issued[w])

(* Every report is accepted by the verifier, which vouches for images of   *)
(* its case only, and its segment is the log up to some moment after its   *)
(* own entry was made; no row and no file is without the entry.            *)
ReportIsAccountable ==
  /\ \A w \in DOMAIN issued :
       LET segment == issued[w].segment IN
       /\ Verify(issued[w])
       /\ \E n \in 1 .. Len(segment) : segment[n].event = Report(w)
       /\ segment = SubSeq(ChainOf(log), 1, Len(segment))
       /\ \A m \in DOMAIN images :
            EvidenceCheck(issued[w], m) => images[m].item \in ItemsOf(issued[w].case)
  /\ \A w \in reports \cup DOMAIN files :
       \E n \in 1 .. Len(log) : log[n] = Report(w)

(* If either shell says that a file verifies, then, however it was altered *)
(* after it was issued, its content is what was signed as long as it bears *)
(* the certificate it was issued with; and if its segment ends with a hash *)
(* of the segment that was issued then it is that, from some entry on,     *)
(* without a gap.  That is all the verifier can say: a file signed anew    *)
(* with another key and its certificate verifies, and so does a segment    *)
(* that was chained anew.  (Stamp and manifest are not signed, and a file  *)
(* that is not there is valid for the desktop.)                            *)
VerifiedIsGenuine ==
  \A w \in DOMAIN issued :
    CliVerdict(w) \/ (DesktopVerdict(w) /\ w \in DOMAIN files) =>
      LET segment == files[w].segment IN
      /\ files[w].cert = issued[w].cert => files[w].content = issued[w].content
      /\ \A n \in DOMAIN issued[w].segment :
           segment[Len(segment)].hash = issued[w].segment[n].hash
             => LeadsTo(segment, issued[w].segment, n)
=============================================================================
