---------------------------- MODULE MCKnowledge ----------------------------
(* Small instances of Knowledge: a few sources, corrections and jobs, and   *)
(* the refinement of the abstract specification.                           *)
EXTENDS Knowledge, TLC

Entry == INSTANCE TruthfulEntry WITH
  originals <- ledger,
  claim <- IF entryFile = 0 THEN {} ELSE versions[entryFile].entries

EntryIsTruthful == Entry!Spec

Interchangeable == Permutations(Jobs) \cup Permutations(Events \ CorrectionEvents)
                   \cup Permutations(CorrectionEvents)

(* Bound of the run that follows a chain of corrections of one original.   *)
OneOrdinaryRecord == Cardinality(ledger \ Corrections(ledger)) <= 1
TwoOrdinaryRecords == Cardinality(ledger \ Corrections(ledger)) <= 2

(* Bound of the run that mixes restores with chains of corrections.        *)
ThreeVersions == Len(versions) <= 3

TwoWords == {<<"a">>, <<"b">>}
OneLine == {<<"a">>}
(* A text that parse() cannot read keeps its project from being organised. *)
Unreadable == {<<"x">>}
SomeUnreadable == OneLine \cup Unreadable
TwoLines == {<<"a", "b">>}
=============================================================================
