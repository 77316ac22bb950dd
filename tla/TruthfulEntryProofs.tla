------------------------ MODULE TruthfulEntryProofs ------------------------
(***************************************************************************)
(* That the store implements the abstract specification of CURRENT.md, for *)
(* every set of sources, events, texts, jobs and restore requests: the     *)
(* refinement that the run "knowledge" checks on a small instance.         *)
(***************************************************************************)
EXTENDS CorrectionProofs, MCKnowledge

Shown == IF entryFile = 0 THEN {} ELSE versions[entryFile].entries

-----------------------------------------------------------------------------
(* Both specifications validate in the same way.                           *)
LEMMA SameValidation ==
  ASSUME NEW recs, NEW entries
  PROVE  Entry!Valid(Entry!Latest(recs), entries) <=> Valid(Latest(recs), entries)
<1>1. Entry!Cardinality(entries) = Cardinality(entries)
  BY DEF Entry!Cardinality, Cardinality
<1>2. Entry!Latest(recs) = Latest(recs)
  BY DEF Entry!Latest, Latest
<1>3. \A r : Entry!AnchorsOf(r) = AnchorsOf(r)
  BY DEF Entry!AnchorsOf, AnchorsOf, Entry!Anchor, Anchor, Entry!LineSpans, LineSpans
<1>4. \A sources : Entry!Excluded(sources) = Excluded(sources)
  BY DEF Entry!Excluded, Excluded, Entry!Corrections, Corrections
<1>5. \A sources : Entry!Required(sources) = Required(sources)
  BY <1>4 DEF Entry!Required, Required, Entry!Corrections, Corrections,
     Entry!WholeAnchor, WholeAnchor, Entry!Anchor, Anchor
<1>6. \A sources, a : Entry!Rejected(sources, a) <=> Rejected(sources, a)
  BY <1>4, <1>5 DEF Entry!Rejected, Rejected, Entry!Overlap, Overlap, Entry!OccursIn, OccursIn
<1> QED BY <1>1, <1>2, <1>3, <1>5, <1>6 DEF Entry!Valid, Valid

LEMMA InitRefines == Init => Entry!Init
  BY DEF Init, Entry!Init, Entry!NoClaim

(* Only three steps touch what the reader of CURRENT.md is promised: the    *)
(* rename of an original, the withdrawal and the presentation of a version. *)
LEMMA QuietStep ==
  ASSUME TypeOK, UNCHANGED <<ledger, entryFile>>,
         \A n \in DOMAIN versions : n \in DOMAIN versions' /\ versions'[n] = versions[n]
  PROVE  UNCHANGED <<ledger, Shown>>
<1>1. entryFile = 0 \/ entryFile \in DOMAIN versions
  BY DEF TypeOK, StoreTypeOK
<1> QED BY <1>1 DEF Shown

LEMMA SameFiles ==
  ASSUME TypeOK, UNCHANGED <<ledger, versions, entryFile>>
  PROVE  UNCHANGED <<ledger, Shown>>
  BY QuietStep

LEMMA RequestQuiet ==
  ASSUME TypeOK,
         \/ \E rid, e, x, t : Submit(rid, e, x, t)
         \/ \E e, n, a, t : Correct(e, n, a, t)
         \/ \E j, snap, entries : Publish(j, snap, entries)
         \/ \E j : Recover(j)
         \/ \E e, n, x : Restore(e, n, x)
         \/ Reindex
  PROVE  UNCHANGED <<ledger, Shown>>
<1>1. ASSUME NEW a, Refuse(a) PROVE UNCHANGED <<ledger, versions, entryFile>>
  BY <1>1 DEF Refuse, durable
<1>2. ASSUME NEW s, NEW o, Begin(s, o) PROVE UNCHANGED <<ledger, versions, entryFile>>
  BY <1>2 DEF Begin, durable
<1>3. ASSUME NEW rec, SubmitRecord(rec) PROVE UNCHANGED <<ledger, versions, entryFile>>
  BY <1>1, <1>2, <1>3 DEF SubmitRecord, Reimport
<1>4. CASE (\E rid, e, x, t : Submit(rid, e, x, t)) \/ \E e, n, a, t : Correct(e, n, a, t)
  BY <1>1, <1>3, <1>4, SameFiles DEF Submit, Correct
<1>5. CASE \E j, snap, entries : Publish(j, snap, entries)
  BY <1>1, <1>2, <1>5, SameFiles DEF Publish, Commit
<1>6. CASE (\E j : Recover(j)) \/ Reindex
  BY <1>2, <1>6, SameFiles DEF Recover, Reindex
<1>7. CASE \E e, n, x : Restore(e, n, x)
  BY <1>1, <1>2, <1>7, SameFiles DEF Restore, Commit
<1> QED BY <1>4, <1>5, <1>6, <1>7

LEMMA NextRefines ==
  ASSUME TypeOK, EntryInv, SoundInv, [Next]_vars
  PROVE  [Entry!Next]_<<ledger, Shown>>
<1>1. CASE WithdrawReview \/ Index \/ ActivateReview \/ Fail \/ Crash \/ Restart \/ Serve
           \/ UNCHANGED vars
  BY <1>1, SameFiles DEF WithdrawReview, Index, ActivateReview, Fail, Crash, Restart, Serve,
     durable, vars
<1>2. CASE CommitVersion
  <2>1. \A n \in DOMAIN versions : n \in DOMAIN versions' /\ versions'[n] = versions[n]
    BY <1>2 DEF CommitVersion, TypeOK, StoreTypeOK
  <2> QED BY <1>2, <2>1, QuietStep DEF CommitVersion
<1>3. CASE WithdrawEntry \/ Ensure
  <2>1. Shown' = {} /\ UNCHANGED ledger
    BY <1>3 DEF WithdrawEntry, Ensure, Shown
  <2> QED BY <2>1 DEF Entry!Next, Entry!Withdraw, Entry!NoClaim, Shown
<1>4. CASE CommitRecord
  <2>1. Shown = {} /\ Shown' = {} /\ ledger' = ledger \cup {op.rec}
    BY <1>4 DEF CommitRecord, EntryInv, Shown
  <2>2. CASE op.rec \in ledger
    BY <2>1, <2>2
  <2>3. CASE op.rec \notin ledger
    BY <2>1, <2>3 DEF Entry!Next, Entry!Grow, Entry!NoClaim, Shown
  <2> QED BY <2>2, <2>3
<1>5. CASE ActivateEntry
  <2>1. /\ op.version \in DOMAIN versions /\ op.version # 0
        /\ UNCHANGED <<ledger, versions>>
    BY <1>5 DEF ActivateEntry, TypeOK, StoreTypeOK, OpTypeOK, OpRecords, ActivateSteps
  <2>2. CASE versions[op.version].status = "current"
    <3>1. Shown' = versions[op.version].entries
      BY <1>5, <2>1, <2>2 DEF ActivateEntry, Shown
    <3>2. versions[op.version].sig = Sig
      BY <1>5, <2>2 DEF ActivateEntry, EntryInv, ActivateSteps
    <3>3. Valid(Latest(ledger), Shown')
      BY <2>1, <2>2, <3>1, <3>2 DEF SoundInv, Sound, Sources
    <3> QED BY <2>1, <3>3, SameValidation DEF Entry!Next, Entry!Claim, Shown
  <2>3. CASE versions[op.version].status # "current"
    <3>1. Shown' = {}
      BY <1>5, <2>3 DEF ActivateEntry, Shown
    <3> QED BY <2>1, <3>1 DEF Entry!Next, Entry!Withdraw, Entry!NoClaim, Shown
  <2> QED BY <2>2, <2>3
<1> QED BY <1>1, <1>2, <1>3, <1>4, <1>5, RequestQuiet DEF Next, Operation, Fault

(* Whoever opens CURRENT.md finds no claim, or entries that are valid for   *)
(* exactly the originals committed so far; a claim is withdrawn before the  *)
(* originals grow, whatever fails, crashes or is retried.                   *)
THEOREM StoreImplementsEntry == Spec => EntryIsTruthful
<1>1. Init => Entry!Init
  BY InitRefines
<1>2. TypeOK /\ EntryInv /\ SoundInv /\ [Next]_vars => [Entry!Next]_<<ledger, Shown>>
  BY NextRefines
<1>3. Spec => []EntryInv
  <2>1. TypeOK /\ EntryInv /\ [Next]_vars => EntryInv'
    BY NextEntry
  <2> QED BY InitEntry, <2>1, TypeCorrect, PTL DEF Spec
<1> QED BY <1>1, <1>2, <1>3, TypeCorrect, SoundAlways, PTL DEF Spec, EntryIsTruthful, Entry!Spec, Shown
=============================================================================
