--------------------------- MODULE ReportVerifier ---------------------------
(* The report envelope (.vjr) and its independent verification             *)
(* (vajra-verify).  SHA-256 and Ed25519 are idealised: a digest is what it *)
(* was computed over, a hash of an audit entry is the list of the payloads *)
(* it covers, and a signature names its key and what it signs.             *)
EXTENDS Naturals, Sequences

CONSTANTS
  NoKey,   (* the key read from a certificate that is malformed            *)
  Garbage  (* a digest or a signature that was altered                     *)

Genesis == <<>>

Digest(content) == content
Signature(key, digest) == [key |-> key, over |-> digest]

(* compute_independent_entry_hash.                                         *)
EntryHash(seq, event, prev) == Append(prev, [seq |-> seq, event |-> event])

(* The chain of a log of events, as load_entries returns it.               *)
ChainOf(log) ==
  LET Hash[n \in 0 .. Len(log)] ==
        IF n = 0 THEN Genesis ELSE EntryHash(n, log[n], Hash[n - 1])
  IN  [n \in 1 .. Len(log) |->
         [seq |-> n, event |-> log[n], prev |-> Hash[n - 1], hash |-> Hash[n]]]

-----------------------------------------------------------------------------
(* A plausible defect: the hash an entry states is not recomputed.         *)
EntryPassesUnhashed(segment, i) ==
  LET e == segment[i] IN
  /\ e.seq = i \/ i = 1 \/ e.seq = segment[i - 1].seq + 1
  /\ i > 1 => e.prev = segment[i - 1].hash

(* The checks of one entry.  Of the first entry neither the number nor the *)
(* predecessor is compared with anything.                                  *)
EntryPasses(segment, i) ==
  LET e == segment[i] IN
  /\ e.seq = i \/ i = 1 \/ e.seq = segment[i - 1].seq + 1
  /\ i > 1 => e.prev = segment[i - 1].hash
  /\ e.hash = EntryHash(e.seq, e.event, e.prev)

ChainCheck(segment) ==
  segment # <<>> /\ \A i \in 1 .. Len(segment) : EntryPasses(segment, i)

(* extract_ed25519_pubkey_from_pem.                                        *)
KeyOf(env) == env.cert

(* The signature is checked with the key of the certificate, against the   *)
(* digest of the content, not the one the envelope states.                 *)
SignatureCheck(env) ==
  KeyOf(env) # NoKey /\ env.signature = Signature(KeyOf(env), Digest(env.content))

(* A timestamp is a TSA's token with its address, or labelled as local.    *)
TimestampCheck(stamp) ==
  IF stamp.rfc THEN stamp.token /\ stamp.url ELSE stamp.local

(* verify_report_envelope, without an evidence file.                       *)
Verify(env) ==
  /\ env.digest = Digest(env.content)
  /\ KeyOf(env) # NoKey
  /\ SignatureCheck(env)
  /\ ChainCheck(env.segment)
  /\ TimestampCheck(env.stamp)

(* The check of an evidence file with a given hash: any item of the        *)
(* manifest may vouch for it.                                              *)
EvidenceCheck(env, hash) == \E entry \in env.manifest : entry.hash = hash

(* A segment is the part of a chain that leads, without gaps, to entry n.  *)
LeadsTo(segment, chain, n) == \E a \in 1 .. n : segment = SubSeq(chain, a, n)
=============================================================================
