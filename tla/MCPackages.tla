----------------------------- MODULE MCPackages -----------------------------
(* Small instances of SavedPackages, and the parser against its reference.  *)
EXTENDS SavedPackages, CsvReference, TLC

(* A CSV text whose last record fits the cells of release 1 only, one    *)
(* with a quoted line feed, one that does not parse, and plain words.       *)
Plain == {<<"a">>}
Wide == <<"h", LF, "a", LF, "a", "a", LF>>
Folded == <<Quote, "h", LF, Quote, LF, Quote, "a", Quote, CR, LF>>
Broken == <<"h", LF, Quote, "a">>
Csv == {Wide, Folded, Broken}
AllTexts == Plain \cup Csv
Limits == <<2, 1>>

Alphabet == {"a", Quote, Comma, LF, CR, NUL, BOM}
Inputs == UNION ({[1..n -> Alphabet] : n \in 0..5} \cup {[1..n -> {"a", LF}] : n \in 6..8})

(* "Deterministic, bounded CSV view": on every text of up to five           *)
(* characters the automaton accepts what the reference accepts, and reads  *)
(* the same cells at the same lines.  (The texts do not depend on the       *)
(* state: they are compared in an empty vault at rest.)                     *)
Disagreements ==
  {t \in Inputs : \E r \in 1..Releases : ParseCsv(t, r) # Reference(t, r)}
ParserAgrees == ledger = {} /\ Free => Disagreements = {}

(* The excerpts of the records of a text that parses, one after another,   *)
(* are the text: no line is lost or quoted twice.                          *)
Untiled == {t \in Inputs : ~Tiled(t, 1)}
ExcerptsTile == ledger = {} /\ Free => Untiled = {}

(* No CHOOSE looks at an event or a job.                                   *)
Interchangeable == Permutations(Events) \cup Permutations(Jobs)

(* Bounds of the run: one preview is made and perhaps saved.               *)
Bounded ==
  /\ Len(versions) <= 2
  /\ Cardinality(previews.context) + Cardinality(previews.evidence) <= 1
=============================================================================
