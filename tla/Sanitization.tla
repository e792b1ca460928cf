---------------------------- MODULE Sanitization ----------------------------
(***************************************************************************)
(* One sanitization of one device (vajra-erase), as `erase run` drives it: *)
(* the two-phase confirmation gate, the overwrite passes or the command to *)
(* the controller, the five verification layers, and the certificate.      *)
(*                                                                         *)
(* The device may refuse a write, go away, read some sectors badly or only *)
(* sometimes, and its firmware may report a purge it has not done.         *)
(***************************************************************************)
EXTENDS Integers, FiniteSets, DecisionEngine

CONSTANTS
  Total,     (* sectors of the device                                      *)
  Chunk,     (* sectors per write; the code has 2048                       *)
  Window,    (* sectors the carver reads behind a header                   *)
  MinSample, (* least size of the statistical sample; the code has 10      *)
  MaxSample, (* greatest size of it; the code has 50,000                   *)
  Samples,   (* the LBAs the caller asks layer 3 to read                   *)
  Bad,       (* sectors that cannot be read                                *)
  Flaky,     (* sectors that can be read at some times only                *)
  Targets,   (* devices: medium, whether it is the system disk or blocked  *)
  MaxPasses, (* bound: overwrite passes                                    *)
  Faults     (* of "write", "command", "firmware", "disconnect"            *)

Media == {"Hdd", "SataSsd", "Nvme", "Sed", "Usb", "SdCard", "ForensicImage"}
Flash == {"Nvme", "SataSsd", "Usb", "SdCard"}

ASSUME GeometryAssumption ==
  Total \in Nat /\ Chunk \in Nat \ {0} /\ Window \in Nat \ {0}
ASSUME SampleAssumption ==
  MinSample \in Nat /\ MaxSample \in Nat /\ MinSample <= MaxSample
ASSUME ReadAssumption == Samples \subseteq Nat /\ Bad \subseteq Nat /\ Flaky \subseteq Nat
ASSUME TargetAssumption ==
  Targets \subseteq [media : Media, system : BOOLEAN, blocked : BOOLEAN]
ASSUME PassAssumption == MaxPasses \in Nat

Lba == 0 .. Total - 1

(* What a sector holds: a file the carver recognises, other data, or one   *)
(* of the fill patterns.                                                   *)
Cell == {"file", "data", "random", "ones", "zeros"}
Uniform(cell) == cell \in {"zeros", "ones"}

(* A method is a host overwrite with some passes, or a controller command. *)
Method == [kind : {"host"}, passes : 0 .. MaxPasses]
            \cup [kind : {"native"}, passes : {0}]

Levels == {"High", "Medium", "Low", "Failed"}

VARIABLES
  cells,     (* the sectors                                                *)
  online,    (* whether the device still answers                           *)
  target,    (* its descriptor                                             *)
  method,    (* the method asked for                                       *)
  asked,     (* the operator's answers to the gate                         *)
  at,        (* where the run stands, its pass and its LBA                 *)
  command,   (* command_result: "none", "ok" or "error"                    *)
  layer,     (* the verdicts of layers 3 and 4, and what layer 5 carved    *)
  missed,    (* history: sectors the carver could not read                 *)
  cert       (* assurance and residual-risk warning, once certified        *)

vars == <<cells, online, target, method, asked, at, command, layer, missed, cert>>

Standing(pc, pass, lba) == [pc |-> pc, pass |-> pass, lba |-> lba]
NotCertified == [assurance |-> "none", warning |-> FALSE]

TypeOK ==
  /\ cells \in [Lba -> Cell]
  /\ online \in BOOLEAN
  /\ target \in Targets
  /\ method \in Method
  /\ asked \in [serial : BOOLEAN, first : BOOLEAN, second : BOOLEAN]
  /\ at \in [pc : {"idle", "pending", "authorized", "writing", "layer3", "layer4",
                   "tier2", "tier3", "resolve", "done", "refused"},
             pass : 0 .. MaxPasses, lba : 0 .. Total]
  /\ command \in {"none", "ok", "error"}
  /\ layer \in [deterministic : BOOLEAN, statistical : BOOLEAN, carved : SUBSET Lba]
  /\ missed \subseteq Lba
  /\ cert \in [assurance : Levels \cup {"none"}, warning : BOOLEAN]

Init ==
  /\ cells \in [Lba -> {"file", "data", "zeros"}]
  /\ online = TRUE
  /\ target \in Targets
  /\ method \in Method
  /\ asked = [serial |-> FALSE, first |-> FALSE, second |-> FALSE]
  /\ at = Standing("idle", 0, 0)
  /\ command = "none"
  /\ layer = [deterministic |-> FALSE, statistical |-> FALSE, carved |-> {}]
  /\ missed = {}
  /\ cert = NotCertified

-----------------------------------------------------------------------------
(* The gate.                                                               *)

(* What begin accepts.                                                     *)
Admits(dev, serial, first) ==
  ~ dev.system /\ ~ dev.blocked /\ serial /\ first

Begin ==
  /\ at.pc = "idle"
  /\ \E serial \in BOOLEAN, first \in BOOLEAN :
       /\ asked' = [asked EXCEPT !.serial = serial, !.first = first]
       /\ at' = [at EXCEPT !.pc = IF Admits(target, serial, first)
                                  THEN "pending" ELSE "refused"]
  /\ UNCHANGED <<cells, online, target, method, command, layer, missed, cert>>

(* finalize consumes the ticket whatever the answer.                       *)
Finalize ==
  /\ at.pc = "pending"
  /\ \E second \in BOOLEAN :
       /\ asked' = [asked EXCEPT !.second = second]
       /\ at' = [at EXCEPT !.pc = IF second THEN "authorized" ELSE "refused"]
  /\ UNCHANGED <<cells, online, target, method, command, layer, missed, cert>>

-----------------------------------------------------------------------------
(* Execution.                                                              *)

(* The command's result is kept and verification starts.  Plausible        *)
(* defect: an error is dropped, as `erase run --incomplete` does.          *)
ExecutedAnyhow(result) ==
  /\ command' = "ok"
  /\ at' = Standing("layer3", at.pass, 0)
Executed(result) ==
  /\ command' = result
  /\ at' = Standing("layer3", at.pass, 0)

(* A method of no passes writes nothing and succeeds.                      *)
StartPasses ==
  /\ at.pc = "authorized" /\ method.kind = "host"
  /\ IF method.passes = 0
     THEN Executed("ok")
     ELSE /\ at' = Standing("writing", 1, 0)
          /\ UNCHANGED command
  /\ UNCHANGED <<cells, online, target, method, asked, layer, missed, cert>>

Pattern(pass, passes) ==
  IF pass = passes THEN "zeros" ELSE IF pass % 2 = 1 THEN "random" ELSE "ones"

(* blocks_to_write, and two plausible defects: the last chunk is not cut   *)
(* to what is left, and a chunk shorter than a whole one is not written.   *)
WriteLengthUncut(lba) == Chunk
WriteLengthWhole(lba) == IF Total - lba < Chunk THEN 0 ELSE Chunk
WriteLength(lba) == IF Total - lba < Chunk THEN Total - lba ELSE Chunk

Filled(lba, len) ==
  [i \in Lba |-> IF lba <= i /\ i < lba + len
                 THEN Pattern(at.pass, method.passes) ELSE cells[i]]

WriteChunk ==
  /\ at.pc = "writing" /\ at.lba < Total /\ online
  /\ cells' = Filled(at.lba, WriteLength(at.lba))
  /\ at' = [at EXCEPT !.lba = at.lba + WriteLength(at.lba)]
  /\ UNCHANGED <<online, target, method, asked, command, layer, missed, cert>>

(* The device refuses the rest of a chunk, or does not answer.             *)
WriteFails ==
  /\ at.pc = "writing" /\ at.lba < Total
  /\ \/ /\ online /\ "write" \in Faults
        /\ \E len \in 0 .. WriteLength(at.lba) - 1 : cells' = Filled(at.lba, len)
     \/ ~ online /\ UNCHANGED cells
  /\ Executed("error")
  /\ UNCHANGED <<online, target, method, asked, layer, missed, cert>>

EndPass ==
  /\ at.pc = "writing" /\ at.lba >= Total
  /\ IF at.pass < method.passes
     THEN /\ at' = Standing("writing", at.pass + 1, 0)
          /\ UNCHANGED command
     ELSE Executed("ok")
  /\ UNCHANGED <<cells, online, target, method, asked, layer, missed, cert>>

(* issue_sanitize: an error, or a success after which the firmware may     *)
(* still have left some sectors as they were.                              *)
IssueCommand ==
  /\ at.pc = "authorized" /\ method.kind = "native"
  /\ \/ /\ online
        /\ \E left \in IF "firmware" \in Faults THEN SUBSET Lba ELSE {{}} :
             cells' = [i \in Lba |-> IF i \in left THEN cells[i] ELSE "zeros"]
        /\ Executed("ok")
     \/ /\ ~ online \/ "command" \in Faults
        /\ Executed("error")
        /\ UNCHANGED cells
  /\ UNCHANGED <<online, target, method, asked, layer, missed, cert>>

-----------------------------------------------------------------------------
(* Verification.                                                           *)

(* The sectors that fail, of those read at one time.                       *)
Unread == IF online THEN { (Bad \cup flaky) \cap Lba : flaky \in SUBSET Flaky }
                    ELSE {Lba}

Clean(sample, unread) ==
  sample \cap unread = {} /\ \A i \in sample : Uniform(cells[i])

(* Layer 3: LBAs beyond the end are passed over; none left is a failure.   *)
SampleDeterministic ==
  /\ at.pc = "layer3"
  /\ \E unread \in Unread :
       layer' = [layer EXCEPT !.deterministic =
                   Samples \cap Lba # {} /\ Clean(Samples \cap Lba, unread)]
  /\ at' = [at EXCEPT !.pc = "layer4"]
  /\ UNCHANGED <<cells, online, target, method, asked, command, missed, cert>>

Least(a, b) == IF a < b THEN a ELSE b

(* compute_required_sample_size: what the formula over confidence and      *)
(* defect rate gives, at least MinSample, then at most all, at most        *)
(* MaxSample.  Plausible defect: no lower bound.                           *)
SampleSizesFree == 0 .. Least(Total, MaxSample)
SampleSizes == Least(Least(MinSample, Total), MaxSample) .. Least(Total, MaxSample)

(* Layer 4: the sample is drawn without replacement.                       *)
SampleStatistical ==
  /\ at.pc = "layer4"
  /\ \E sample \in SUBSET Lba, unread \in Unread :
       /\ Cardinality(sample) \in SampleSizes
       /\ layer' = [layer EXCEPT !.statistical = Total > 0 /\ Clean(sample, unread)]
  /\ at' = [at EXCEPT !.pc = "tier2"]
  /\ UNCHANGED <<cells, online, target, method, asked, command, missed, cert>>

WindowOf(lba) == { i \in Lba : lba <= i /\ i < lba + Window }

(* Layer 5, tier 2 of the carver: a sector whose header is recognised is   *)
(* validated over the window behind it.  A failed read is passed over.     *)
CarveSector ==
  /\ at.pc = "tier2" /\ at.lba < Total
  /\ \E unread \in Unread, behind \in Unread :
       IF at.lba \in unread
       THEN missed' = missed \cup {at.lba} /\ UNCHANGED layer
       ELSE IF cells[at.lba] # "file"
       THEN UNCHANGED <<missed, layer>>
       ELSE IF WindowOf(at.lba) \cap behind # {}
       THEN missed' = missed \cup (WindowOf(at.lba) \cap behind) /\ UNCHANGED layer
       ELSE layer' = [layer EXCEPT !.carved = @ \cup {at.lba}] /\ UNCHANGED missed
  /\ at' = [at EXCEPT !.lba = at.lba + 1]
  /\ UNCHANGED <<cells, online, target, method, asked, command, cert>>

EndTier2 ==
  /\ at.pc = "tier2" /\ at.lba >= Total
  /\ at' = [at EXCEPT !.pc = "tier3"]
  /\ UNCHANGED <<cells, online, target, method, asked, command, layer, missed, cert>>

(* Tier 3 may put together a file from a header tier 2 did not claim and a *)
(* second fragment, whose place depends on the format.                     *)
CarveFragments ==
  /\ at.pc = "tier3"
  /\ \E unread \in Unread :
     \E joined \in SUBSET { i \in Lba \ (unread \cup layer.carved) :
                              cells[i] = "file" /\ i + 2 < Total } :
       layer' = [layer EXCEPT !.carved = @ \cup joined]
  /\ at' = [at EXCEPT !.pc = "resolve"]
  /\ UNCHANGED <<cells, online, target, method, asked, command, missed, cert>>

HostOnFlash == target.media \in Flash /\ method.kind = "host"

(* The resolution of the layers; layer 1 is the command's result, layer 2  *)
(* whether the device has sectors.  Plausible defect: what was carved only *)
(* counts when a sample failed as well.                                    *)
AssuranceBySample ==
  IF command # "ok" THEN "Failed"
  ELSE IF ~ (layer.deterministic /\ layer.statistical)
       THEN IF layer.carved # {} THEN "Failed" ELSE "Low"
  ELSE IF HostOnFlash THEN "Medium"
  ELSE "High"
Assurance ==
  IF layer.carved # {} \/ command # "ok" THEN "Failed"
  ELSE IF ~ (layer.deterministic /\ layer.statistical) THEN "Low"
  ELSE IF Total = 0 \/ HostOnFlash THEN "Medium"
  ELSE "High"

Certify ==
  /\ at.pc = "resolve"
  /\ cert' = [assurance |-> Assurance, warning |-> HostOnFlash]
  /\ at' = [at EXCEPT !.pc = "done"]
  /\ UNCHANGED <<cells, online, target, method, asked, command, layer, missed>>

Disconnect ==
  /\ "disconnect" \in Faults /\ online
  /\ online' = FALSE
  /\ UNCHANGED <<cells, target, method, asked, at, command, layer, missed, cert>>

Work ==
  \/ StartPasses \/ WriteChunk \/ WriteFails \/ EndPass \/ IssueCommand
  \/ SampleDeterministic \/ SampleStatistical
  \/ CarveSector \/ EndTier2 \/ CarveFragments \/ Certify

Next == Begin \/ Finalize \/ Work \/ Disconnect

Spec == Init /\ [][Next]_vars

(* The run is one thread that waits for nobody once it is authorized.      *)
FairSpec == Spec /\ WF_vars(Work)

-----------------------------------------------------------------------------
Certified(levels) == cert.assurance \in levels

(* The device is only ever written after begin and finalize were answered  *)
(* as they must be, and never when it is the system disk or blocked.       *)
WritesAreAuthorized ==
  [][cells' # cells => /\ ~ target.system /\ ~ target.blocked
                       /\ asked.serial /\ asked.first /\ asked.second]_vars

(* An overwrite that is certified as anything but Failed has reached every *)
(* sector with its last pass, whatever the chunk boundaries and the passes *)
(* and wherever a write failed (execute_overwrite_pass_destructive).       *)
OverwriteIsComplete ==
  method.kind = "host" /\ method.passes > 0 /\ Certified(Levels \ {"Failed"})
    => \A i \in Lba : cells[i] = "zeros"

(* A file that is left on the device fails the sanitization, whatever the  *)
(* other layers say, unless the carver could not read the sectors that it  *)
(* needs: nothing else hides a file from the resolution.                   *)
ResidueIsFound ==
  Certified(Levels \ {"Failed"}) =>
    \A i \in Lba : cells[i] = "file" => WindowOf(i) \cap missed # {}

(* High and Medium bound what may be left: all but the sectors that cannot *)
(* have been outside of the sample are uniform.  On a device that is not   *)
(* larger than the least sample, all are.                                  *)
SampleBoundsResidue ==
  Certified({"High", "Medium"}) =>
    Cardinality({ i \in Lba : ~ Uniform(cells[i]) })
      <= Total - Least(MinSample, Total)

(* High is given for a command that succeeded and a device whose critical  *)
(* LBAs are uniform, and never with a warning: an overwrite of flash media *)
(* is capped and the certificate says so.                                  *)
HighIsEarned ==
  /\ Certified({"High"}) =>
       /\ command = "ok" /\ ~ cert.warning
       /\ \A i \in Samples \cap Lba : Uniform(cells[i])
  /\ Certified(Levels) => (cert.warning <=> HostOnFlash)

(* The engine and the certificate each judge medium and method by a list   *)
(* of their own.  Whatever methods a device supports, who follows the      *)
(* engine's advice gets a certificate that is capped or warns only where   *)
(* the advice warned, and warns wherever the advice did, save for the      *)
(* media the certificate's list leaves out.                                *)
(* Of the shells, the command line shows that warning before the           *)
(* certificate gives it, and advises a command for a drive that has one.   *)
(* The desktop shows no warning for any drive: it only never shows High    *)
(* for what the certificate then warns of.                                 *)
Foretold(advice) ==
  method.kind = KindOf(advice.method) =>
    /\ cert.warning \/ (Certified({"Medium"}) /\ Total > 0) => advice.warned
    /\ advice.warned => cert.warning \/ target.media \in {"Sed", "ForensicImage"}

AdviceForetellsCertificate ==
  Certified(Levels) =>
    /\ \A supported \in SUBSET SanitizeMethod :
         Foretold(Recommend(target.media, supported))
    /\ \A shell \in {"cli", "desktop"} :
         LET advice == Recommend(target.media, Supported(shell, target.media)) IN
         /\ method.kind = KindOf(advice.method) /\ cert.warning =>
              Shown(shell, advice) = (IF shell = "cli" THEN "warning" ELSE "Moderate")
         /\ shell = "cli" /\ target.media \in {"Nvme", "SataSsd", "Sed"} =>
              advice.method # "HostOverwrite"

(* An authorized run comes to a certificate, also on a device that fails.  *)
RunEnds == (at.pc = "authorized") ~> (at.pc = "done")

=============================================================================
