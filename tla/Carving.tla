------------------------------ MODULE Carving ------------------------------
(***************************************************************************)
(* The structural validators and the two carving tiers as functions of a   *)
(* medium.  A sector holds one part of a file, <<f, k>>, or Zero or Noise. *)
(* A file type is known by what its validator looks at:                    *)
(*   "chunked"  PNG: one checksummed chunk spans the file                  *)
(*   "scan"     JPEG: walks scan data to the first end marker              *)
(*   "last"     ZIP: searches backwards for the last end record            *)
(*   "text"     PDF: the same on a lossy text, which is longer than the    *)
(*              bytes, so that the length it reports may be too            *)
(*   "sized"    SQLite: the length the header declares, contents unread    *)
(*   "boxed"    MP4: a chain of boxes with declared lengths                *)
(*   "mapped"   OLE2: an allocation table, in the last part here, says how *)
(*              long the file is and where its directory, part 2, lies     *)
(***************************************************************************)
EXTENDS FileLocation

CONSTANTS Files,
          FileLen,        \* sectors of each file
          Total,          \* sectors of the medium
          FastWindow,     \* first read of a candidate (2048 in the code)
          FullWindow,     \* the read that follows an end of data (16384)
          MaxObject,      \* sectors of max_size_bytes of every signature
          MaxPieces,      \* largest bifragment candidate (16)
          Radius,         \* max_bgc_search_radius
          EmpiricalGaps,  \* gap sizes tried first
          TextGrowth      \* sectors a lossy text may be too long by

ASSUME LimitsAssumption ==
  /\ Total \in Nat
  /\ {FastWindow, FullWindow, MaxObject} \subseteq Nat \ {0}
  /\ {MaxPieces, Radius, TextGrowth} \subseteq Nat
  /\ EmpiricalGaps \in Seq(Nat)

ASSUME FilesAssumption ==
  /\ IsFiniteSet(Files) /\ Files # {}
  /\ Files \cap {"zero", "noise"} = {}
  /\ FileLen \in [Files -> Nat \ {0}]

FileTypes == {"chunked", "scan", "last", "text", "sized", "boxed", "mapped"}

Lba == 0 .. Total - 1
Zero  == <<"zero", 0>>
Noise == <<"noise", 0>>

IsHeader(s) == s[1] \in Files /\ s[2] = 1
Whole(f) == [k \in 1..FileLen[f] |-> <<f, k>>]

----------------------------------------------------------------------------
(* Validators: V_OK with the object's length, V_EOF with the length of the  *)
(* sound prefix, V_ERR; all lengths in sectors, of a candidate s that       *)
(* starts with the header of f.                                             *)

Ok(n)  == [verdict |-> "ok", len |-> n]
Eof(n) == [verdict |-> "eof", len |-> n]
Err    == [verdict |-> "err", len |-> 0]

IsEndOf(class, type, s) == s[1] \in Files /\ class[s[1]] = type /\ s[2] = FileLen[s[1]]

\* png.rs: a chunk that runs past the data is V_EOF, a checksum that differs V_ERR
ValidateChunked(s, f) ==
  IF Len(s) < FileLen[f] THEN Eof(1)
  ELSE IF SubSeq(s, 1, FileLen[f]) = Whole(f) THEN Ok(FileLen[f]) ELSE Err

\* jpeg.rs: any bytes without a marker are scan data
ValidateScan(class, s) ==
  LET stops == {i \in DOMAIN s : \/ s[i] = Zero
                                 \/ IsEndOf(class, "scan", s[i])
                                 \/ i > 1 /\ IsHeader(s[i]) /\ class[s[i][1]] = "scan"}
      i == Min(stops)
  IN  CASE stops = {}                         -> Eof(Len(s))
        [] stops # {} /\ s[i] = Zero          -> Eof(i - 1)
        [] stops # {} /\ i > 1 /\ IsHeader(s[i]) -> Err
        [] OTHER                              -> Ok(i)

\* zip.rs: the last end record of the candidate, whoever it belongs to
ValidateLast(class, s) ==
  LET ends == {i \in DOMAIN s : IsEndOf(class, "last", s[i])}
  IN  IF ends = {} THEN Eof(Len(s)) ELSE Ok(Max(ends))

\* pdf.rs: its offset counts the characters of the lossy conversion
ValidateText(class, s) ==
  LET ends == {i \in DOMAIN s : IsEndOf(class, "text", s[i])}
  IN  IF ends = {} THEN Eof(Len(s)) ELSE Ok(Max(ends) + TextGrowth)

\* sqlite.rs: page size times page count
ValidateSized(s, f) == IF Len(s) < FileLen[f] THEN Eof(Len(s)) ELSE Ok(FileLen[f])

\* mp4.rs: box after box; the chain goes on into a file that follows at once,
\* and a box that runs past the data makes the whole candidate V_EOF
ValidateBoxed(class, s) ==
  LET next(i) == i + FileLen[s[i][1]]
      isBox(i) == i <= Len(s) /\ IsHeader(s[i]) /\ class[s[i][1]] = "boxed"
      offset[n \in 0..Len(s)] ==
        IF n = 0 THEN 1
        ELSE LET i == offset[n - 1]
             IN  IF isBox(i) /\ next(i) <= Len(s) + 1 THEN next(i) ELSE i
      end == offset[Len(s)]
  IN  IF isBox(end) THEN Eof(end) ELSE Ok(end - 1)

\* ole2.rs: without the table, or with other data in its place, whose entries
\* name more sectors than there are, the candidate counts as truncated
HasTable(s, f) == FileLen[f] \in DOMAIN s /\ s[FileLen[f]] = <<f, FileLen[f]>>
HasDirectory(s, f) == s[2] = <<f, 2>>

ValidateMapped(s, f) ==
  IF ~HasTable(s, f) THEN Eof(Len(s))
  ELSE IF HasDirectory(s, f) THEN Ok(FileLen[f]) ELSE Err

Validate(class, s) ==
  LET f == s[1][1] IN
  CASE class[f] = "chunked" -> ValidateChunked(s, f)
    [] class[f] = "scan"    -> ValidateScan(class, s)
    [] class[f] = "last"    -> ValidateLast(class, s)
    [] class[f] = "text"    -> ValidateText(class, s)
    [] class[f] = "sized"   -> ValidateSized(s, f)
    [] class[f] = "boxed"   -> ValidateBoxed(class, s)
    [] class[f] = "mapped"  -> ValidateMapped(s, f)

\* flags().err_is_prefix: no more data can cure an error
ErrIsPrefix(type) == type \in {"chunked", "scan", "boxed"}

----------------------------------------------------------------------------
(* Reading: m is a medium, [disk |-> content of each sector, bad |-> the    *)
(* sectors that cannot be read]; a read with one such sector fails, as a    *)
(* drive's does (the reader of a raw image knows no bad sectors, and fills  *)
(* up what the file lacks with zeros).                                      *)

CanRead(m, first, n) ==
  first + n <= Total /\ \A i \in first .. first + n - 1 : i \notin m.bad
Data(m, first, n) == [k \in 1..n |-> m.disk[first + k - 1]]

----------------------------------------------------------------------------
(* Tier 2 at a sector that holds a header: the candidate read last and its  *)
(* verdict; "none" when the window cannot be read.                          *)

\* plausible defect: an end of data is not followed by a larger read
CandidateOnce(class, m, lba) ==
  LET fast == Min({MaxObject, Total - lba, FastWindow})
  IN  [v |-> Validate(class, Data(m, lba, fast)), data |-> Data(m, lba, fast)]

Candidate(class, m, lba) ==
  LET most == Min({MaxObject, Total - lba})
      fast == Min({most, FastWindow})
      full == Min({most, FullWindow})
      v    == Validate(class, Data(m, lba, fast))
      w    == Validate(class, Data(m, lba, full))
  IN  IF ~CanRead(m, lba, fast) THEN [v |-> [verdict |-> "none", len |-> 0], data |-> <<>>]
      ELSE IF /\ v.verdict = "eof" /\ full > fast
              /\ CanRead(m, lba, full) /\ w.verdict # "err"
           THEN [v |-> w, data |-> Data(m, lba, full)]
           ELSE [v |-> v, data |-> Data(m, lba, fast)]

Artifact(tier, file, loc, conf, payload, limited) ==
  [tier |-> tier, file |-> file, loc |-> loc, conf |-> conf,
   payload |-> payload, limited |-> limited]

\* plausible defect: the sectors are counted from the length that was reported
Tier2ArtifactReported(class, m, lba) ==
  LET c   == Candidate(class, m, lba)
      loc == <<<<lba, Max({c.v.len, 1})>>>>
  IN  IF c.v.verdict \notin {"ok", "eof"} THEN {}
      ELSE {Artifact(2, m.disk[lba][1], loc, "none", c.data, c.v.verdict = "eof")}

\* the artifact a candidate leads to, as a set with at most one member
Carved(c, m, lba) ==
  LET more == Min({c.v.len, Total - lba})
      data == IF c.v.len <= Len(c.data) THEN SubSeq(c.data, 1, c.v.len)
              ELSE IF CanRead(m, lba, more) THEN Data(m, lba, more) ELSE <<>>
      loc  == <<<<lba, Max({Len(data), 1})>>>>
  IN  CASE c.v.verdict = "ok"  -> {Artifact(2, m.disk[lba][1], loc, "none", data, FALSE)}
        [] c.v.verdict = "eof" -> {Artifact(2, m.disk[lba][1], loc, "none", data, TRUE)}
        [] OTHER               -> {}

Tier2Artifact(class, m, lba) == Carved(Candidate(class, m, lba), m, lba)

----------------------------------------------------------------------------
(* Tier 3: two fragments with a gap between them, the second behind the     *)
(* first.  The last sector of the medium is never part of a candidate.      *)

GapFits(lba, size, gap) == gap <= Radius /\ gap + lba + size < Total

\* the gaps in the order they are tried
GapOrder(lba, size) ==
  LET fits  == {g \in Nat : GapFits(lba, size, g)}
      first == Subsequence(EmpiricalGaps, {i \in DOMAIN EmpiricalGaps : EmpiricalGaps[i] \in fits})
  IN  first \o Subsequence([g \in 1..Radius |-> g], fits \ ToSet(first))

Bifragment(lba, size, cut, gap) == <<<<lba, cut>>, <<lba + cut + gap, size - cut>>>>

\* plausible defect: the sectors that are claimed are not left out
FitsAnywhere(class, m, claimed, lba, size, cut, gap) ==
  LET loc == Bifragment(lba, size, cut, gap)
  IN  /\ CanRead(m, lba, cut) /\ CanRead(m, loc[2][1], loc[2][2])
      /\ Validate(class, Data(m, lba, cut) \o Data(m, loc[2][1], loc[2][2])).verdict = "ok"

\* what has to hold for the split <<size, cut, gap>> to be returned
Fits(class, m, claimed, lba, size, cut, gap) ==
  LET loc  == Bifragment(lba, size, cut, gap)
      head == Data(m, lba, cut)
      both == head \o Data(m, loc[2][1], loc[2][2])
  IN  /\ Covered(loc) \cap claimed = {}
      /\ CanRead(m, lba, cut) /\ CanRead(m, loc[2][1], loc[2][2])
      /\ ErrIsPrefix(class[m.disk[lba][1]]) => Validate(class, head).verdict # "err"
      /\ Validate(class, both).verdict = "ok"

\* the splits that fit, as <<size, cut, position of the gap>>
Splits(class, m, claimed, lba) ==
  {s \in (2..MaxPieces) \X (1..MaxPieces) \X (1..Len(EmpiricalGaps) + Radius) :
     /\ lba + s[1] < Total
     /\ s[2] < s[1]
     /\ s[3] \in DOMAIN GapOrder(lba, s[1])
     /\ Fits(class, m, claimed, lba, s[1], s[2], GapOrder(lba, s[1])[s[3]])}

\* the first one in the order of the three loops
FirstSplit(splits) ==
  CHOOSE s \in splits : \A t \in splits :
    \/ s[1] < t[1]
    \/ s[1] = t[1] /\ s[2] < t[2]
    \/ s[1] = t[1] /\ s[2] = t[2] /\ s[3] <= t[3]

\* the artifact the split s leads to
Rebuilt(s, class, m, lba) ==
  LET loc  == Bifragment(lba, s[1], s[2], GapOrder(lba, s[1])[s[3]])
      both == Data(m, lba, s[2]) \o Data(m, loc[2][1], loc[2][2])
      n    == Validate(class, both).len
  IN  Artifact(3, m.disk[lba][1], loc, "none",
               IF n <= Len(both) THEN SubSeq(both, 1, n) ELSE both, TRUE)

Tier3Artifact(class, m, claimed, lba) ==
  LET splits == Splits(class, m, claimed, lba)
  IN  IF splits = {} THEN {} ELSE {Rebuilt(FirstSplit(splits), class, m, lba)}
=============================================================================
