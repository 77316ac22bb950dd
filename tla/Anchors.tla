------------------------------ MODULE Anchors ------------------------------
(***************************************************************************)
(* Source records, the citations ("anchors") a knowledge entry makes into  *)
(* them, and the rules Knowledge.snapshot and Knowledge.validate put on a  *)
(* set of entries.  No state: every operator is a function of the set of   *)
(* source records it is given.                                             *)
(*                                                                         *)
(* A text is a sequence of physical lines and a line is an opaque value.   *)
(* A digest is modelled by the value it digests, so equal digests mean     *)
(* equal values.                                                           *)
(***************************************************************************)
EXTENDS Integers, Sequences, FiniteSets

CONSTANTS
  Rids,          \* record ids: digests of <<project, source id>>
  Events,        \* keys <<tool, event id>> of submitted events
  Texts,         \* contents: sequences of physical lines
  Unsupported,   \* the texts that parse() cannot read reliably
  NoTarget,      \* "correction" field of an ordinary record
  MaxRecords,    \* MAX_RECORDS: sources of one complete snapshot
  MaxEntries     \* MAX_ENTRIES: entries of one knowledge version

ASSUME LimitsAssumption == MaxRecords \in Nat \ {0} /\ MaxEntries \in Nat \ {0}
ASSUME TextsAssumption == \A t \in Texts : t \in Seq({t[i] : i \in DOMAIN t})

-----------------------------------------------------------------------------
(* A citation: physical lines first..last of one version of one record,    *)
(* with the words found there.  Its entry id is the digest of exactly      *)
(* these fields, so the anchor stands for its own id.                      *)
Anchor(r, i, j) ==
  [rid |-> r.rid, version |-> r.version,
   first |-> i, last |-> j, quote |-> SubSeq(r.text, i, j)]

LineSpans(t) == {ij \in (1..Len(t)) \X (1..Len(t)) : ij[1] <= ij[2]}

AnchorsOf(r) == {Anchor(r, ij[1], ij[2]) : ij \in LineSpans(r.text)}

WholeAnchor(r) == Anchor(r, 1, Len(r.text))

(* Python's "q in t" on quotes made of whole lines.                        *)
OccursIn(q, t) ==
  \E k \in 1..Len(t) : k + Len(q) - 1 <= Len(t) /\ SubSeq(t, k, k + Len(q) - 1) = q

Overlap(a, b) ==
  /\ a.rid = b.rid
  /\ a.version = b.version
  /\ a.first <= b.last
  /\ a.last >= b.first

-----------------------------------------------------------------------------
(* The latest version of every source, and the vector that is signed.      *)
Latest(recs) == {r \in recs : \A s \in recs : s.rid = r.rid => s.version <= r.version}

Vector(recs) == {[rid |-> r.rid, version |-> r.version, sha |-> r.text] : r \in Latest(recs)}

(* _sources(readable=True) raises instead of answering otherwise.          *)
Readable(recs) ==
  /\ recs # {}
  /\ Cardinality(Latest(recs)) <= MaxRecords
  /\ \A r \in Latest(recs) : r.text \notin Unsupported

Corrections(recs) == {r \in recs : r.target # NoTarget}

(* A plausible slip: a correction that was itself corrected lifts its ban. *)
ExcludedByStanding(sources) ==
  LET all == {r.target : r \in Corrections(sources)}
  IN {r.target : r \in {c \in Corrections(sources) : WholeAnchor(c) \notin all}}

(* What the human corrections among the sources forbid and demand.         *)
Excluded(sources) == {r.target : r \in Corrections(sources)}

Required(sources) == {WholeAnchor(r) : r \in Corrections(sources)} \ Excluded(sources)

(* A plausible slip: only the quoted words are compared, not the place.    *)
RejectedByQuote(sources, a) ==
  \E old \in Excluded(sources) : old.quote = a.quote /\ a \notin Required(sources)

(* The exclusion test of validate() for one entry.                         *)
Rejected(sources, a) ==
  \E old \in Excluded(sources) :
     \/ Overlap(old, a)
     \/ OccursIn(old.quote, a.quote) /\ a \notin Required(sources)

Valid(sources, entries) ==
  /\ entries # {}
  /\ Cardinality(entries) <= MaxEntries
  /\ \A a \in entries : \E r \in sources : a \in AnchorsOf(r)
  /\ \A a \in entries : ~Rejected(sources, a)
  /\ Required(sources) \subseteq entries

=============================================================================
