------------------------- MODULE SanitizationProofs -------------------------
(* Theorems about Sanitization, for any device, any constants and faults.  *)
EXTENDS Sanitization, FiniteSetTheorems, TLAPS

USE GeometryAssumption, SampleAssumption, ReadAssumption, TargetAssumption,
    PassAssumption

-----------------------------------------------------------------------------
LEMMA WriteLengthBounds ==
  ASSUME NEW lba \in 0 .. Total, lba < Total
  PROVE  /\ WriteLength(lba) \in Nat
         /\ lba + WriteLength(lba) \in 0 .. Total
         /\ WriteLength(lba) > 0
BY DEF WriteLength

LEMMA FilledType ==
  ASSUME TypeOK, NEW lba, NEW len
  PROVE  Filled(lba, len) \in [Lba -> Cell]
BY DEF Filled, Pattern, TypeOK, Cell

RunType == [pc : {"idle", "pending", "authorized", "writing", "layer3", "layer4",
                  "tier2", "tier3", "resolve", "done", "refused"},
            pass : 0 .. MaxPasses, lba : 0 .. Total]

LEMMA StandingType ==
  ASSUME NEW pass \in 0 .. MaxPasses, NEW lba \in 0 .. Total
  PROVE  Standing("layer3", pass, lba) \in RunType
         /\ Standing("writing", pass, lba) \in RunType
BY DEF Standing, RunType

LEMMA ExecutedType ==
  ASSUME TypeOK, NEW result \in {"ok", "error"}, Executed(result)
  PROVE  at' \in RunType /\ command' \in {"none", "ok", "error"}
BY StandingType DEF Executed, TypeOK

LEMMA InitTypeOK == Init => TypeOK
BY DEF Init, TypeOK, Cell, NotCertified, Standing

(* Every step keeps the types.                                             *)
LEMMA NextTypeOK == TypeOK /\ [Next]_vars => TypeOK'
<1> SUFFICES ASSUME TypeOK, [Next]_vars PROVE TypeOK'
  OBVIOUS
<1>1. CASE Begin
  BY <1>1 DEF Begin, TypeOK
<1>2. CASE Finalize
  BY <1>2 DEF Finalize, TypeOK
<1>3. CASE StartPasses
  <2>1. method.passes # 0 => 1 \in 0 .. MaxPasses
    BY DEF TypeOK, Method
  <2>2. at' \in RunType /\ command' \in {"none", "ok", "error"}
    BY <1>3, <2>1, StandingType, ExecutedType DEF StartPasses, TypeOK
  <2> QED
    BY <1>3, <2>2 DEF StartPasses, TypeOK, RunType
<1>4. CASE WriteChunk
  <2>1. cells' \in [Lba -> Cell]
    BY <1>4, FilledType DEF WriteChunk
  <2>2. at.lba + WriteLength(at.lba) \in 0 .. Total
    BY <1>4, WriteLengthBounds DEF WriteChunk, TypeOK
  <2> QED
    BY <1>4, <2>1, <2>2 DEF WriteChunk, TypeOK
<1>5. CASE WriteFails
  <2>1. cells' \in [Lba -> Cell]
    BY <1>5, FilledType DEF WriteFails, TypeOK
  <2>2. at' \in RunType /\ command' \in {"none", "ok", "error"}
    BY <1>5, ExecutedType DEF WriteFails
  <2> QED
    BY <1>5, <2>1, <2>2 DEF WriteFails, TypeOK, RunType
<1>6. CASE EndPass
  <2>1. method.passes \in 0 .. MaxPasses
    BY DEF TypeOK, Method
  <2>2. at.pass < method.passes => at.pass + 1 \in 0 .. MaxPasses
    BY <2>1 DEF TypeOK
  <2>3. at' \in RunType /\ command' \in {"none", "ok", "error"}
    BY <1>6, <2>2, StandingType, ExecutedType DEF EndPass, TypeOK
  <2> QED
    BY <1>6, <2>3 DEF EndPass, TypeOK, RunType
<1>7. CASE IssueCommand
  <2>1. cells' \in [Lba -> Cell]
    BY <1>7 DEF IssueCommand, TypeOK, Cell
  <2>2. at' \in RunType /\ command' \in {"none", "ok", "error"}
    BY <1>7, ExecutedType DEF IssueCommand
  <2> QED
    BY <1>7, <2>1, <2>2 DEF IssueCommand, TypeOK, RunType
<1>8. CASE SampleDeterministic
  BY <1>8 DEF SampleDeterministic, TypeOK, Clean
<1>9. CASE SampleStatistical
  BY <1>9 DEF SampleStatistical, TypeOK, Clean
<1>10. CASE CarveSector
  <2>1. at.lba \in Lba
    BY <1>10 DEF CarveSector, TypeOK, Lba
  <2>2. missed' \subseteq Lba
    BY <1>10, <2>1 DEF CarveSector, TypeOK, WindowOf
  <2>3. layer' \in [deterministic : BOOLEAN, statistical : BOOLEAN, carved : SUBSET Lba]
    BY <1>10, <2>1 DEF CarveSector, TypeOK
  <2> QED
    BY <1>10, <2>2, <2>3 DEF CarveSector, TypeOK
<1>11. CASE EndTier2
  BY <1>11 DEF EndTier2, TypeOK
<1>12. CASE CarveFragments
  BY <1>12 DEF CarveFragments, TypeOK
<1>13. CASE Certify
  BY <1>13 DEF Certify, TypeOK, Assurance, Levels, HostOnFlash
<1>14. CASE Disconnect
  <2>1. online' \in BOOLEAN
    BY <1>14 DEF Disconnect
  <2>2. UNCHANGED <<cells, target, method, asked, at, command, layer, missed, cert>>
    BY <1>14 DEF Disconnect
  <2>3. cells' \in [Lba -> Cell] /\ target' \in Targets /\ method' \in Method
    BY <2>2 DEF TypeOK
  <2>4. /\ asked' \in [serial : BOOLEAN, first : BOOLEAN, second : BOOLEAN]
        /\ at' \in [pc : {"idle", "pending", "authorized", "writing", "layer3", "layer4",
                         "tier2", "tier3", "resolve", "done", "refused"},
                   pass : 0 .. MaxPasses, lba : 0 .. Total]
        /\ command' \in {"none", "ok", "error"}
    BY <2>2 DEF TypeOK
  <2>5. /\ layer' \in [deterministic : BOOLEAN, statistical : BOOLEAN, carved : SUBSET Lba]
        /\ missed' \subseteq Lba
        /\ cert' \in [assurance : Levels \cup {"none"}, warning : BOOLEAN]
    BY <2>2 DEF TypeOK
  <2> QED
    BY <2>1, <2>3, <2>4, <2>5, Zenon DEF TypeOK
<1>15. CASE UNCHANGED vars
  BY <1>15 DEF vars, TypeOK
<1>16. CASE Work
  BY <1>3, <1>4, <1>5, <1>6, <1>7, <1>8, <1>9, <1>10, <1>11, <1>12, <1>13, <1>16, Zenon DEF Work
<1> QED
  BY <1>1, <1>2, <1>14, <1>15, <1>16, Zenon DEF Next

(* The device, the run and the certificate keep their types.               *)
THEOREM TypeCorrect == Spec => []TypeOK
BY InitTypeOK, NextTypeOK, PTL DEF Spec

-----------------------------------------------------------------------------
(* The gate: what a run that is past it was answered.                      *)
GateInv ==
  /\ at.pc \notin {"idle", "refused"} =>
       ~ target.system /\ ~ target.blocked /\ asked.serial /\ asked.first
  /\ at.pc \notin {"idle", "pending", "refused"} => asked.second

Verifying == {"layer3", "layer4", "tier2", "tier3", "resolve", "done"}

(* The target and the method are given; a run that verifies neither writes *)
(* nor changes the command's result.                                       *)
LEMMA Frame ==
  ASSUME TypeOK, [Next]_vars
  PROVE  /\ target' = target /\ method' = method
         /\ at.pc \in Verifying =>
              cells' = cells /\ command' = command /\ at'.pc \in Verifying
         /\ at.pc \notin {"authorized", "writing"} => cells' = cells
<1>1. CASE Begin
  BY <1>1 DEF Begin, TypeOK, Verifying
<1>2. CASE Finalize
  BY <1>2 DEF Finalize, TypeOK, Verifying
<1>3. CASE StartPasses \/ WriteChunk \/ WriteFails \/ EndPass \/ IssueCommand
  BY <1>3 DEF StartPasses, WriteChunk, WriteFails, EndPass, IssueCommand, Verifying
<1>4. CASE SampleDeterministic \/ SampleStatistical
  BY <1>4 DEF SampleDeterministic, SampleStatistical, TypeOK, Verifying
<1>5. CASE CarveSector
  BY <1>5 DEF CarveSector, TypeOK, Verifying
<1>6. CASE EndTier2 \/ CarveFragments \/ Certify
  BY <1>6 DEF EndTier2, CarveFragments, Certify, TypeOK, Verifying
<1>7. CASE Disconnect \/ UNCHANGED vars
  BY <1>7 DEF Disconnect, vars
<1> QED
  BY <1>1, <1>2, <1>3, <1>4, <1>5, <1>6, <1>7 DEF Next, Work

LEMMA NextGateInv == TypeOK /\ GateInv /\ [Next]_vars => GateInv'
<1> SUFFICES ASSUME TypeOK, GateInv, [Next]_vars PROVE GateInv'
  OBVIOUS
<1>1. CASE Begin
  <2>1. PICK serial \in BOOLEAN, first \in BOOLEAN :
          /\ asked' = [asked EXCEPT !.serial = serial, !.first = first]
          /\ at' = [at EXCEPT !.pc = IF Admits(target, serial, first)
                                     THEN "pending" ELSE "refused"]
    BY <1>1 DEF Begin
  <2>2. asked'.serial = serial /\ asked'.first = first
    BY <2>1 DEF TypeOK
  <2>3. at'.pc = IF Admits(target, serial, first) THEN "pending" ELSE "refused"
    BY <2>1 DEF TypeOK
  <2>4. target' = target
    BY <1>1 DEF Begin
  <2> QED
    BY <2>2, <2>3, <2>4 DEF GateInv, Admits
<1>2. CASE Finalize
  BY <1>2 DEF Finalize, GateInv, TypeOK
<1>3. CASE Work
  <2>1. UNCHANGED <<target, asked>> /\ at.pc \notin {"idle", "pending", "refused"}
    BY <1>3 DEF Work, StartPasses, WriteChunk, WriteFails, EndPass, IssueCommand,
      SampleDeterministic, SampleStatistical, CarveSector, EndTier2, CarveFragments, Certify
  <2> QED
    BY <2>1 DEF GateInv
<1>4. CASE Disconnect \/ UNCHANGED vars
  BY <1>4 DEF Disconnect, vars, GateInv
<1> QED
  BY <1>1, <1>2, <1>3, <1>4 DEF Next

(* No sector changes unless both confirmations were given for a device     *)
(* that may be written.                                                    *)
THEOREM NothingWrittenUnauthorized == Spec => WritesAreAuthorized
<1>1. Init => GateInv
  BY DEF Init, GateInv, Standing
<1>2. TypeOK /\ GateInv /\ [Next]_vars =>
        [cells' # cells => /\ ~ target.system /\ ~ target.blocked
                           /\ asked.serial /\ asked.first /\ asked.second]_vars
  BY Frame DEF GateInv
<1> QED
  BY <1>1, <1>2, TypeCorrect, NextGateInv, PTL DEF Spec, WritesAreAuthorized

-----------------------------------------------------------------------------
(* A pass has written its pattern below the position; a command that       *)
(* succeeded has written the last one everywhere.                          *)
PassInv ==
  /\ at.pc = "writing" =>
       /\ method.kind = "host" /\ at.pass \in 1 .. method.passes
       /\ \A i \in Lba : i < at.lba => cells[i] = Pattern(at.pass, method.passes)
  /\ at.pc \in Verifying /\ command = "ok" /\ method.kind = "host" /\ method.passes > 0
       => \A i \in Lba : cells[i] = "zeros"
  /\ Certified(Levels \ {"Failed"}) => at.pc = "done" /\ command = "ok"

LEMMA CertFrame ==
  ASSUME TypeOK, [Next]_vars, ~ Certify
  PROVE  cert' = cert /\ (at.pc = "done" => at' = at)
<1>1. CASE Begin \/ Finalize
  BY <1>1 DEF Begin, Finalize
<1>2. CASE Work
  BY <1>2 DEF Work, StartPasses, WriteChunk, WriteFails, EndPass, IssueCommand,
    SampleDeterministic, SampleStatistical, CarveSector, EndTier2, CarveFragments
<1>3. CASE Disconnect \/ UNCHANGED vars
  BY <1>3 DEF Disconnect, vars
<1> QED
  BY <1>1, <1>2, <1>3 DEF Next

LEMMA NextPassInv == TypeOK /\ PassInv /\ [Next]_vars => PassInv'
<1> SUFFICES ASSUME TypeOK, PassInv, [Next]_vars PROVE PassInv'
  OBVIOUS
<1>t. at.pass \in 0 .. MaxPasses /\ at.lba \in 0 .. Total /\ at.pass \in Int
      /\ method.passes \in 0 .. MaxPasses /\ method.passes \in Int
  BY DEF TypeOK, Method
<1>m. target' = target /\ method' = method
  BY Frame
<1>0. (~ Certify /\ at.pc # "done") => ~ Certified(Levels \ {"Failed"})'
  BY CertFrame DEF PassInv, Certified
<1>1. CASE Begin \/ Finalize
  <2>1. at'.pc \in {"pending", "refused", "authorized"} /\ at.pc # "done"
        /\ at.pc # "resolve"
    BY <1>1 DEF Begin, Finalize, TypeOK
  <2> QED
    BY <1>0, <2>1 DEF PassInv, Verifying, Certify
<1>2. CASE StartPasses
  <2>1. at.pc = "authorized" /\ method.kind = "host" /\ cells' = cells
    BY <1>2 DEF StartPasses
  <2>2. CASE method.passes = 0
    <3>1. at'.pc = "layer3"
      BY <1>2, <2>2 DEF StartPasses, Executed, Standing
    <3> QED
      BY <1>0, <1>m, <2>1, <2>2, <3>1 DEF PassInv, Certify
  <2>3. CASE method.passes # 0
    <3>1. at' = Standing("writing", 1, 0)
      BY <1>2, <2>3 DEF StartPasses
    <3>2. at'.pc = "writing" /\ at'.pass = 1 /\ at'.lba = 0
      BY <3>1 DEF Standing
    <3>3. 1 \in 1 .. method.passes /\ \A i \in Lba : ~ (i < 0)
      BY <1>t, <2>3 DEF Lba
    <3> QED
      BY <1>0, <1>m, <2>1, <3>2, <3>3 DEF PassInv, Verifying, Certify
  <2> QED
    BY <2>2, <2>3
<1>3. CASE WriteChunk
  <2>1. at.pc = "writing" /\ cells' = Filled(at.lba, WriteLength(at.lba))
        /\ at'.pc = "writing" /\ at'.pass = at.pass
        /\ at'.lba = at.lba + WriteLength(at.lba)
    BY <1>3 DEF WriteChunk, TypeOK
  <2>2. WriteLength(at.lba) \in Nat
    BY <1>3, <1>t, WriteLengthBounds DEF WriteChunk
  <2>3. \A i \in Lba : i < at'.lba => cells'[i] = Pattern(at.pass, method.passes)
    BY <1>t, <2>1, <2>2 DEF Filled, PassInv, Lba
  <2> QED
    BY <1>0, <1>m, <2>1, <2>3 DEF PassInv, Verifying, Certify
<1>4. CASE WriteFails
  <2>1. at.pc = "writing" /\ at'.pc = "layer3" /\ command' = "error"
    BY <1>4 DEF WriteFails, Executed, Standing
  <2> QED
    BY <1>0, <2>1 DEF PassInv, Certify
<1>5. CASE EndPass
  <2>1. at.pc = "writing" /\ at.lba >= Total /\ cells' = cells
    BY <1>5 DEF EndPass
  <2>2. \A i \in Lba : cells[i] = Pattern(at.pass, method.passes)
    BY <1>t, <2>1 DEF PassInv, Lba
  <2>3. at.pass \in 1 .. method.passes /\ method.kind = "host"
    BY <2>1 DEF PassInv
  <2>4. CASE at.pass < method.passes
    <3>1. at'.pc = "writing" /\ at'.pass = at.pass + 1 /\ at'.lba = 0
      BY <1>5, <2>4 DEF EndPass, Standing
    <3>2. at.pass + 1 \in 1 .. method.passes /\ \A i \in Lba : ~ (i < 0)
      BY <1>t, <2>3, <2>4 DEF Lba
    <3> QED
      BY <1>0, <1>m, <2>1, <2>3, <3>1, <3>2 DEF PassInv, Verifying, Certify
  <2>5. CASE ~ (at.pass < method.passes)
    <3>1. at'.pc = "layer3"
      BY <1>5, <2>5 DEF EndPass, Executed, Standing
    <3>2. Pattern(at.pass, method.passes) = "zeros"
      BY <1>t, <2>3, <2>5 DEF Pattern
    <3> QED
      BY <1>0, <1>m, <2>1, <2>2, <3>1, <3>2 DEF PassInv, Certify
  <2> QED
    BY <2>4, <2>5
<1>6. CASE IssueCommand
  <2>1. at.pc = "authorized" /\ method.kind = "native" /\ at'.pc = "layer3"
    BY <1>6 DEF IssueCommand, Executed, Standing
  <2> QED
    BY <1>0, <1>m, <2>1 DEF PassInv, Certify
<1>7. CASE at.pc \in Verifying /\ ~ Certify
  <2>1. cells' = cells /\ command' = command /\ at'.pc \in Verifying
    BY <1>7, Frame
  <2>2. cert' = cert /\ (at.pc = "done" => at' = at)
    BY <1>7, CertFrame
  <2> QED
    BY <1>7, <1>m, <2>1, <2>2 DEF PassInv, Verifying, Certified
<1>8. CASE Certify
  <2>1. at.pc = "resolve" /\ at'.pc = "done" /\ cells' = cells /\ command' = command
        /\ cert'.assurance = Assurance
    BY <1>8 DEF Certify, TypeOK
  <2>2. command # "ok" => Assurance = "Failed"
    BY DEF Assurance
  <2> QED
    BY <1>m, <2>1, <2>2 DEF PassInv, Verifying, Certified, Levels
<1>9. CASE Disconnect \/ UNCHANGED vars
  BY <1>9 DEF Disconnect, vars, PassInv, Certified
<1>10. CASE SampleDeterministic \/ SampleStatistical \/ CarveSector \/ EndTier2 \/ CarveFragments
  <2>1. at.pc \in Verifying /\ ~ Certify
    BY <1>10 DEF SampleDeterministic, SampleStatistical, CarveSector, EndTier2,
      CarveFragments, Verifying, Certify
  <2> QED
    BY <2>1, <1>7
<1> QED
  BY <1>1, <1>2, <1>3, <1>4, <1>5, <1>6, <1>8, <1>9, <1>10 DEF Next, Work

(* A certified overwrite that has not Failed reached every sector.         *)
THEOREM CertifiedOverwriteIsComplete == Spec => []OverwriteIsComplete
<1>1. Init => PassInv
  BY DEF Init, PassInv, Verifying, Certified, Levels, NotCertified, Standing
<1>2. PassInv => OverwriteIsComplete
  BY DEF PassInv, OverwriteIsComplete, Verifying
<1> QED
  BY <1>1, <1>2, TypeCorrect, NextPassInv, PTL DEF Spec

-----------------------------------------------------------------------------
(* A file the carver has passed was found, or hidden by a failed read.     *)
Settled(i) == cells[i] = "file" => layer.carved # {} \/ WindowOf(i) \cap missed # {}

ScanInv ==
  /\ at.pc \in {"layer3", "layer4"} => at.lba = 0
  /\ at.pc = "tier2" => \A i \in Lba : i < at.lba => Settled(i)
  /\ at.pc \in {"tier3", "resolve", "done"} => \A i \in Lba : Settled(i)
  /\ Certified(Levels \ {"Failed"}) => at.pc = "done" /\ layer.carved = {}

LEMMA NextScanInv == TypeOK /\ ScanInv /\ [Next]_vars => ScanInv'
<1> SUFFICES ASSUME TypeOK, ScanInv, [Next]_vars PROVE ScanInv'
  OBVIOUS
<1>t. at.lba \in 0 .. Total /\ Total \in Nat /\ layer.carved \subseteq Lba /\ missed \subseteq Lba
  BY DEF TypeOK
<1>0. (~ Certify /\ at.pc # "done") => ~ Certified(Levels \ {"Failed"})'
  BY CertFrame DEF ScanInv, Certified
<1>1. CASE Begin \/ Finalize
  <2>1. at'.pc \in {"pending", "refused", "authorized"} /\ at.pc \in {"idle", "pending"}
    BY <1>1 DEF Begin, Finalize, TypeOK
  <2> QED
    BY <1>0, <2>1 DEF ScanInv, Certify
<1>2. CASE StartPasses \/ WriteChunk \/ WriteFails \/ EndPass \/ IssueCommand
  <2>1. at.pc \in {"authorized", "writing"}
        /\ (at'.pc = "writing" \/ (at'.pc = "layer3" /\ at'.lba = 0))
    BY <1>2 DEF StartPasses, WriteChunk, WriteFails, EndPass, IssueCommand, Executed,
      Standing, TypeOK
  <2> QED
    BY <1>0, <2>1 DEF ScanInv, Certify
<1>3. CASE SampleDeterministic \/ SampleStatistical
  <2>1. at.pc \in {"layer3", "layer4"} /\ at'.pc \in {"layer4", "tier2"} /\ at'.lba = at.lba
    BY <1>3 DEF SampleDeterministic, SampleStatistical, TypeOK
  <2>2. at'.lba = 0 /\ \A i \in Lba : ~ (i < 0)
    BY <2>1 DEF ScanInv, Lba
  <2> QED
    BY <1>0, <2>1, <2>2 DEF ScanInv, Certify
<1>4. CASE CarveSector
  <2>1. at.pc = "tier2" /\ at'.pc = "tier2" /\ at'.lba = at.lba + 1 /\ cells' = cells
        /\ at.lba \in Lba
    BY <1>4 DEF CarveSector, TypeOK, Lba
  <2>2. PICK unread \in Unread, behind \in Unread :
          IF at.lba \in unread
          THEN missed' = missed \cup {at.lba} /\ UNCHANGED layer
          ELSE IF cells[at.lba] # "file"
          THEN UNCHANGED <<missed, layer>>
          ELSE IF WindowOf(at.lba) \cap behind # {}
          THEN missed' = missed \cup (WindowOf(at.lba) \cap behind) /\ UNCHANGED layer
          ELSE layer' = [layer EXCEPT !.carved = @ \cup {at.lba}] /\ UNCHANGED missed
    BY <1>4 DEF CarveSector
  <2>3. missed \subseteq missed' /\ layer.carved \subseteq layer'.carved
    BY <2>2 DEF TypeOK
  <2>4. at.lba \in WindowOf(at.lba)
    BY <1>t, <2>1 DEF WindowOf, Lba
  <2>5. cells'[at.lba] = "file" =>
          layer'.carved # {} \/ WindowOf(at.lba) \cap missed' # {}
    BY <2>1, <2>2, <2>4 DEF TypeOK
  <2>6. \A i \in Lba : i < at.lba => Settled(i)'
    BY <2>1, <2>3 DEF ScanInv, Settled, WindowOf
  <2>7. \A i \in Lba : i < at'.lba => i < at.lba \/ i = at.lba
    BY <1>t, <2>1 DEF Lba
  <2>8. \A i \in Lba : i < at'.lba => Settled(i)'
    BY <2>5, <2>6, <2>7 DEF Settled, WindowOf
  <2> QED
    BY <1>0, <2>1, <2>8 DEF ScanInv, Certify
<1>5. CASE EndTier2
  <2>1. at.pc = "tier2" /\ at'.pc = "tier3" /\ at.lba >= Total
        /\ UNCHANGED <<cells, layer, missed>>
    BY <1>5 DEF EndTier2, TypeOK
  <2>2. \A i \in Lba : i < at.lba
    BY <1>t, <2>1 DEF Lba
  <2>3. \A i \in Lba : Settled(i)'
    BY <2>1, <2>2 DEF ScanInv, Settled, WindowOf
  <2> QED
    BY <1>0, <2>1, <2>3 DEF ScanInv, Certify
<1>6. CASE CarveFragments
  <2>1. at.pc = "tier3" /\ at'.pc = "resolve" /\ UNCHANGED <<cells, missed>>
        /\ layer.carved \subseteq layer'.carved
    BY <1>6 DEF CarveFragments, TypeOK
  <2>2. \A i \in Lba : Settled(i)'
    BY <2>1 DEF ScanInv, Settled, WindowOf
  <2> QED
    BY <1>0, <2>1, <2>2 DEF ScanInv, Certify
<1>7. CASE Certify
  <2>1. at.pc = "resolve" /\ at'.pc = "done" /\ UNCHANGED <<cells, layer, missed>>
        /\ cert'.assurance = Assurance
    BY <1>7 DEF Certify, TypeOK
  <2>2. \A i \in Lba : Settled(i)'
    BY <2>1 DEF ScanInv, Settled, WindowOf
  <2>3. layer.carved # {} => Assurance = "Failed"
    BY DEF Assurance
  <2> QED
    BY <2>1, <2>2, <2>3 DEF ScanInv, Certified, Levels
<1>8. CASE Disconnect \/ UNCHANGED vars
  BY <1>8 DEF Disconnect, vars, ScanInv, Certified, Settled, WindowOf
<1> QED
  BY <1>1, <1>2, <1>3, <1>4, <1>5, <1>6, <1>7, <1>8 DEF Next, Work

(* A file that is left behind fails the run unless it could not be read.   *)
THEOREM ResidueFailsTheRun == Spec => []ResidueIsFound
<1>1. Init => ScanInv
  BY DEF Init, ScanInv, Certified, Levels, NotCertified, Standing
<1>2. ScanInv => ResidueIsFound
  BY DEF ScanInv, ResidueIsFound, Settled
<1> QED
  BY <1>1, <1>2, TypeCorrect, NextScanInv, PTL DEF Spec

-----------------------------------------------------------------------------
(* What the verdicts of the two samples rest on, and the levels on them.   *)
Residue == { i \in Lba : ~ Uniform(cells[i]) }

SampleInv ==
  /\ at.pc \notin Verifying => ~ layer.deterministic /\ ~ layer.statistical
  /\ layer.deterministic => \A i \in Samples \cap Lba : Uniform(cells[i])
  /\ layer.statistical => Cardinality(Residue) <= Total - Least(MinSample, Total)
  /\ Certified({"High", "Medium"}) => layer.deterministic /\ layer.statistical
  /\ Certified({"High"}) => command = "ok" /\ ~ cert.warning
  /\ Certified(Levels) => at.pc = "done" /\ (cert.warning <=> HostOnFlash)

LEMMA LbaFinite ==
  /\ IsFiniteSet(Lba) /\ Cardinality(Lba) = Total
  /\ \A S \in SUBSET Lba : IsFiniteSet(S) /\ Cardinality(S) \in Nat
<1>1. IsFiniteSet(Lba) /\ Cardinality(Lba) = Total
  BY FS_Interval DEF Lba
<1> QED
  BY <1>1, FS_Subset, FS_CardinalityType

(* Drawing a clean sample without replacement leaves the rest.             *)
LEMMA SampleStep ==
  ASSUME TypeOK, NEW sample \in SUBSET Lba, NEW unread,
         Cardinality(sample) \in SampleSizes, Clean(sample, unread)
  PROVE  Cardinality(Residue) <= Total - Least(MinSample, Total)
<1>1. Residue \in SUBSET Lba /\ sample \cap Residue = {}
  BY DEF Residue, Clean
<1>2. Cardinality(Residue \cup sample) = Cardinality(Residue) + Cardinality(sample)
  <2>1. Cardinality(Residue \cup sample)
          = Cardinality(Residue) + Cardinality(sample) - Cardinality(Residue \cap sample)
    BY <1>1, LbaFinite, FS_Union
  <2>2. Cardinality(Residue \cap sample) = 0
    <3>1. Residue \cap sample = {}
      BY <1>1
    <3> QED
      BY <3>1, FS_EmptySet
  <2>3. Cardinality(Residue) \in Nat /\ Cardinality(sample) \in Nat
    BY <1>1, LbaFinite
  <2> QED
    BY <2>1, <2>2, <2>3
<1>3. Cardinality(Residue \cup sample) <= Total
  BY <1>1, LbaFinite, FS_Subset
<1>4. Least(MinSample, Total) <= Cardinality(sample)
  BY LbaFinite DEF SampleSizes, Least
<1> QED
  BY <1>1, <1>2, <1>3, <1>4, LbaFinite DEF Least

LEMMA NextSampleInv == TypeOK /\ SampleInv /\ [Next]_vars => SampleInv'
<1> SUFFICES ASSUME TypeOK, SampleInv, [Next]_vars PROVE SampleInv'
  OBVIOUS
<1>m. target' = target /\ method' = method /\ (HostOnFlash' <=> HostOnFlash)
  BY Frame DEF HostOnFlash
<1>0. (~ Certify /\ at.pc # "done") => cert' = cert /\ ~ Certified(Levels)
  BY CertFrame DEF SampleInv
<1>l. {"High", "Medium"} \subseteq Levels /\ {"High"} \subseteq Levels
  BY DEF Levels
<1>1. CASE Begin \/ Finalize \/ StartPasses \/ WriteChunk \/ WriteFails \/ EndPass \/ IssueCommand
  <2>1. at.pc \notin Verifying /\ layer' = layer /\ at.pc \notin {"done", "resolve"}
    BY <1>1 DEF Begin, Finalize, StartPasses, WriteChunk, WriteFails, EndPass,
      IssueCommand, Verifying
  <2>2. ~ layer'.deterministic /\ ~ layer'.statistical
    BY <2>1 DEF SampleInv
  <2> QED
    BY <1>0, <1>l, <2>1, <2>2 DEF SampleInv, Certified, Certify
<1>2. CASE SampleDeterministic
  <2>1. at.pc = "layer3" /\ at'.pc = "layer4" /\ cells' = cells
    BY <1>2 DEF SampleDeterministic, TypeOK
  <2>2. PICK unread \in Unread :
          layer' = [layer EXCEPT !.deterministic =
                      Samples \cap Lba # {} /\ Clean(Samples \cap Lba, unread)]
    BY <1>2 DEF SampleDeterministic
  <2>3. /\ layer'.deterministic <=> Samples \cap Lba # {} /\ Clean(Samples \cap Lba, unread)
        /\ layer'.statistical = layer.statistical
    BY <2>2 DEF TypeOK
  <2> QED
    BY <1>0, <1>l, <2>1, <2>3 DEF SampleInv, Clean, Residue, Verifying, Certified, Certify
<1>3. CASE SampleStatistical
  <2>1. at.pc = "layer4" /\ at'.pc = "tier2" /\ cells' = cells
    BY <1>3 DEF SampleStatistical, TypeOK
  <2>2. PICK sample \in SUBSET Lba, unread \in Unread :
          /\ Cardinality(sample) \in SampleSizes
          /\ layer' = [layer EXCEPT !.statistical = Total > 0 /\ Clean(sample, unread)]
    BY <1>3 DEF SampleStatistical
  <2>3. layer'.deterministic = layer.deterministic
        /\ (layer'.statistical => Clean(sample, unread))
    BY <2>2 DEF TypeOK
  <2>4. layer'.statistical => Cardinality(Residue) <= Total - Least(MinSample, Total)
    BY <2>2, <2>3, SampleStep
  <2>5. Residue' = Residue
    BY <2>1 DEF Residue
  <2> QED
    BY <1>0, <1>l, <2>1, <2>3, <2>4, <2>5 DEF SampleInv, Verifying, Certified, Certify
<1>4. CASE CarveSector \/ EndTier2 \/ CarveFragments
  <2>1. at.pc \in {"tier2", "tier3"} /\ at'.pc \in Verifying /\ cells' = cells
    BY <1>4 DEF CarveSector, EndTier2, CarveFragments, TypeOK, Verifying
  <2>2. layer'.deterministic = layer.deterministic /\ layer'.statistical = layer.statistical
    BY <1>4 DEF CarveSector, EndTier2, CarveFragments, TypeOK
  <2> QED
    BY <1>0, <1>l, <2>1, <2>2 DEF SampleInv, Residue, Certified, Certify
<1>5. CASE Certify
  <2>1. at.pc = "resolve" /\ at'.pc = "done" /\ UNCHANGED <<cells, layer, command>>
        /\ cert'.assurance = Assurance /\ cert'.warning = HostOnFlash
    BY <1>5 DEF Certify, TypeOK
  <2>2. Assurance \in {"High", "Medium"} =>
          layer.deterministic /\ layer.statistical /\ command = "ok"
    BY DEF Assurance
  <2>3. Assurance = "High" => ~ HostOnFlash
    BY DEF Assurance
  <2>4. Residue' = Residue
    BY <2>1 DEF Residue
  <2> QED
    BY <1>m, <2>1, <2>2, <2>3, <2>4 DEF SampleInv, Certified, Verifying
<1>6. CASE Disconnect \/ UNCHANGED vars
  <2>1. UNCHANGED <<cells, at, layer, cert, command>>
    BY <1>6 DEF Disconnect, vars
  <2> QED
    BY <1>m, <2>1 DEF SampleInv, Certified, Residue
<1> QED
  BY <1>1, <1>2, <1>3, <1>4, <1>5, <1>6 DEF Next, Work

LEMMA SampleInvariant == Spec => []SampleInv
<1>1. Init => SampleInv
  BY DEF Init, SampleInv, Certified, Levels, NotCertified, Standing
<1> QED
  BY <1>1, TypeCorrect, NextSampleInv, PTL DEF Spec

(* High and Medium bound what is left by what the sample did not cover.    *)
THEOREM SampleBoundsWhatIsLeft == Spec => []SampleBoundsResidue
<1>1. SampleInv => SampleBoundsResidue
  BY DEF SampleInv, SampleBoundsResidue, Residue
<1> QED
  BY <1>1, SampleInvariant, PTL

(* High rests on the command and on the critical sectors, and is never     *)
(* given beside a warning.                                                 *)
THEOREM HighRestsOnTheLayers == Spec => []HighIsEarned
<1>1. SampleInv => HighIsEarned
  BY DEF SampleInv, HighIsEarned, Certified
<1> QED
  BY <1>1, SampleInvariant, PTL

-----------------------------------------------------------------------------
(* What the advice says, and what the certificate then says.  Medium is    *)
(* the cap of an overwrite of flash media or of a device of no sectors.    *)
AdviceInv ==
  Certified(Levels) =>
    /\ at.pc = "done" /\ cert.warning = HostOnFlash
    /\ Certified({"Medium"}) /\ Total > 0 => HostOnFlash

LEMMA NextAdviceInv == TypeOK /\ AdviceInv /\ [Next]_vars => AdviceInv'
<1> SUFFICES ASSUME TypeOK, AdviceInv, [Next]_vars PROVE AdviceInv'
  OBVIOUS
<1>m. HostOnFlash' = HostOnFlash
  BY Frame DEF HostOnFlash
<1>1. CASE Certify
  <2>1. at'.pc = "done" /\ cert'.assurance = Assurance /\ cert'.warning = HostOnFlash
    BY <1>1 DEF Certify, TypeOK
  <2>2. Assurance = "Medium" /\ Total > 0 => HostOnFlash
    BY DEF Assurance
  <2> QED
    BY <1>m, <2>1, <2>2 DEF AdviceInv, Certified
<1>2. CASE ~ Certify
  <2>1. cert' = cert /\ (at.pc = "done" => at' = at)
    BY <1>2, CertFrame
  <2> QED
    BY <1>m, <2>1 DEF AdviceInv, Certified
<1> QED
  BY <1>1, <1>2

(* The engine advises an overwrite only when no command is offered, and    *)
(* then it warns on all but magnetic disks.                                *)
LEMMA OverwriteIsLastResort ==
  ASSUME NEW media, NEW supported
  PROVE  LET advice == Recommend(media, supported) IN
         /\ advice.method = "HostOverwrite" => advice.warned = (media # "Hdd")
         /\ advice.method # "HostOverwrite" => advice.warned = FALSE
         /\ \A i \in DOMAIN Preferred(media) :
              Preferred(media)[i] \in supported => advice.method # "HostOverwrite"
<1> DEFINE best == Preferred(media)
           offered == { i \in DOMAIN best : best[i] \in supported }
           first == CHOOSE i \in offered : \A j \in offered : i <= j
<1>1. best \in {<<"CryptographicErase">>,
                <<"CryptographicErase", "NvmeSanitizeBlock", "NvmeFormat">>,
                <<"CryptographicErase", "AtaEnhancedSecureErase", "AtaSecureErase">>}
  BY DEF Preferred
<1>2. DOMAIN best \subseteq 1 .. 3 /\ \A i \in DOMAIN best : best[i] # "HostOverwrite"
  BY <1>1
<1>3. offered # {} => first \in offered
  <2>1. offered \subseteq 1 .. 3
    BY <1>2
  <2>2. offered # {} => \E i \in offered : \A j \in offered : i <= j
    BY <2>1
  <2> HIDE DEF offered
  <2> QED
    BY <2>2
<1>4. CASE offered # {}
  <2>1. Recommend(media, supported) = [method |-> best[first], warned |-> FALSE]
    BY <1>4 DEF Recommend
  <2>2. best[first] # "HostOverwrite"
    BY <1>2, <1>3, <1>4
  <2>3. Recommend(media, supported).method = best[first]
        /\ Recommend(media, supported).warned = FALSE
    BY <2>1
  <2> QED
    BY <2>2, <2>3, Zenon
<1>5. CASE offered = {}
  <2>1. Recommend(media, supported) = [method |-> "HostOverwrite", warned |-> media # "Hdd"]
    BY <1>5 DEF Recommend
  <2>2. \A i \in DOMAIN Preferred(media) : Preferred(media)[i] \notin supported
    BY <1>5
  <2>3. Recommend(media, supported).method = "HostOverwrite"
        /\ Recommend(media, supported).warned = (media # "Hdd")
    BY <2>1
  <2> QED
    BY <2>2, <2>3, Zenon
<1> QED
  BY <1>4, <1>5

(* The command line finds a command for each medium that has one.          *)
LEMMA CommandIsAdvised ==
  ASSUME NEW media \in {"Nvme", "SataSsd", "Sed"}
  PROVE  Recommend(media, Supported("cli", media)).method # "HostOverwrite"
<1>1. \E i \in DOMAIN Preferred(media) : Preferred(media)[i] \in Supported("cli", media)
  <2>1. CASE media = "Nvme"
    <3>1. Preferred(media) = <<"CryptographicErase", "NvmeSanitizeBlock", "NvmeFormat">>
      BY <2>1 DEF Preferred
    <3>2. 2 \in DOMAIN Preferred(media) /\ Preferred(media)[2] = "NvmeSanitizeBlock"
      BY <3>1
    <3> QED
      BY <2>1, <3>2 DEF Supported
  <2>2. CASE media = "SataSsd"
    <3>1. Preferred(media)
            = <<"CryptographicErase", "AtaEnhancedSecureErase", "AtaSecureErase">>
      BY <2>2 DEF Preferred
    <3>2. 2 \in DOMAIN Preferred(media) /\ Preferred(media)[2] = "AtaEnhancedSecureErase"
      BY <3>1
    <3> QED
      BY <2>2, <3>2 DEF Supported
  <2>3. CASE media = "Sed"
    <3>1. Preferred(media) = <<"CryptographicErase">>
      BY <2>3 DEF Preferred
    <3>2. 1 \in DOMAIN Preferred(media) /\ Preferred(media)[1] = "CryptographicErase"
      BY <3>1
    <3> QED
      BY <2>3, <3>2 DEF Supported
  <2> QED
    BY <2>1, <2>2, <2>3
<1> QED
  BY <1>1, OverwriteIsLastResort

(* An overwrite that is advised with a warning is never shown as High.     *)
LEMMA AdviceIsShown ==
  ASSUME NEW media \in Media, NEW shell \in {"cli", "desktop"}
  PROVE  LET advice == Recommend(media, Supported(shell, media)) IN
         advice.method = "HostOverwrite" /\ advice.warned =>
           Shown(shell, advice) = (IF shell = "cli" THEN "warning" ELSE "Moderate")
<1> DEFINE advice == Recommend(media, Supported(shell, media))
<1> SUFFICES ASSUME advice.method = "HostOverwrite", advice.warned
             PROVE  Shown(shell, advice) = (IF shell = "cli" THEN "warning" ELSE "Moderate")
  OBVIOUS
<1> HIDE DEF advice
<1> QED
  BY DEF Shown

(* What the certificate warns of or is capped for was announced by the     *)
(* advice, and what the advice announced is warned of on the media of the  *)
(* certificate's list, whatever methods the device supports.               *)
THEOREM AdviceForetells == Spec => []AdviceForetellsCertificate
<1>1. Init => AdviceInv
  BY DEF Init, AdviceInv, Certified, Levels, NotCertified
<1>2. TypeOK /\ AdviceInv => AdviceForetellsCertificate
  <2> SUFFICES ASSUME TypeOK, AdviceInv, Certified(Levels)
               PROVE  AdviceForetellsCertificate
    BY DEF AdviceForetellsCertificate
  <2>1. cert.warning = HostOnFlash /\ (Certified({"Medium"}) /\ Total > 0 => HostOnFlash)
    BY DEF AdviceInv
  <2>2. target.media \in Media /\ HostOnFlash \in BOOLEAN
    BY TargetAssumption DEF TypeOK, HostOnFlash
  <2>3. ASSUME NEW supported PROVE Foretold(Recommend(target.media, supported))
    <3> DEFINE advice == Recommend(target.media, supported)
    <3> SUFFICES ASSUME method.kind = KindOf(advice.method)
                 PROVE  /\ cert.warning \/ (Certified({"Medium"}) /\ Total > 0) => advice.warned
                        /\ advice.warned =>
                             cert.warning \/ target.media \in {"Sed", "ForensicImage"}
      BY DEF Foretold
    <3>1. /\ advice.method = "HostOverwrite" => advice.warned = (target.media # "Hdd")
          /\ advice.method # "HostOverwrite" => advice.warned = FALSE
      BY OverwriteIsLastResort
    <3> HIDE DEF advice
    <3>2. HostOnFlash => advice.method = "HostOverwrite" /\ target.media # "Hdd"
      BY DEF HostOnFlash, KindOf, Flash
    <3>3. advice.warned => target.media # "Hdd" /\ method.kind = "host"
      BY <3>1 DEF KindOf
    <3>4. advice.warned => HostOnFlash \/ target.media \in {"Sed", "ForensicImage"}
      BY <2>2, <3>3 DEF HostOnFlash, Flash, Media
    <3> QED
      BY <2>1, <3>1, <3>2, <3>4
  <2>4. ASSUME NEW shell \in {"cli", "desktop"}
        PROVE  LET advice == Recommend(target.media, Supported(shell, target.media)) IN
               /\ method.kind = KindOf(advice.method) /\ cert.warning =>
                    Shown(shell, advice) = (IF shell = "cli" THEN "warning" ELSE "Moderate")
               /\ shell = "cli" /\ target.media \in {"Nvme", "SataSsd", "Sed"} =>
                    advice.method # "HostOverwrite"
    <3> DEFINE advice == Recommend(target.media, Supported(shell, target.media))
    <3> SUFFICES /\ method.kind = KindOf(advice.method) /\ cert.warning =>
                      Shown(shell, advice) = (IF shell = "cli" THEN "warning" ELSE "Moderate")
                 /\ shell = "cli" /\ target.media \in {"Nvme", "SataSsd", "Sed"} =>
                      advice.method # "HostOverwrite"
      OBVIOUS
    <3>1. method.kind = KindOf(advice.method) /\ cert.warning =>
            advice.method = "HostOverwrite" /\ advice.warned
      <4> SUFFICES ASSUME method.kind = KindOf(advice.method), cert.warning
                   PROVE  advice.method = "HostOverwrite" /\ advice.warned
        OBVIOUS
      <4>1. advice.warned
        BY <2>3 DEF Foretold
      <4>2. advice.method = "HostOverwrite"
        <5> HIDE DEF advice
        <5> QED
          BY <2>1 DEF HostOnFlash, KindOf
      <4> QED
        BY <4>1, <4>2
    <3>2. advice.method = "HostOverwrite" /\ advice.warned =>
            Shown(shell, advice) = (IF shell = "cli" THEN "warning" ELSE "Moderate")
      BY <2>2, AdviceIsShown
    <3>3. shell = "cli" /\ target.media \in {"Nvme", "SataSsd", "Sed"} =>
            advice.method # "HostOverwrite"
      BY CommandIsAdvised
    <3> HIDE DEF advice
    <3> QED
      BY <3>1, <3>2, <3>3
  <2> QED
    BY <2>3, <2>4 DEF AdviceForetellsCertificate
<1> QED
  BY <1>1, <1>2, TypeCorrect, NextAdviceInv, PTL DEF Spec

=============================================================================
