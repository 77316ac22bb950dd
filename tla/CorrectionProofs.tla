-------------------------- MODULE CorrectionProofs --------------------------
(***************************************************************************)
(* That corrections hold, and meet only current words, for every set       *)
(* of sources, events, texts, jobs and restore requests.                   *)
(***************************************************************************)
EXTENDS KnowledgeProofs

-----------------------------------------------------------------------------
(* A version was validated against the sources it signed.  Why it is still *)
(* valid whenever its signature is the present one: a signature names only *)
(* versions that were committed when it was made, and every import commits *)
(* one that was not, so no older signature ever becomes the present one.   *)
Signed(sig) == \A i \in sig : i.version \in Versions(i.rid)

Sound(v) ==
  /\ Signed(v.sig)
  /\ v.status = "current" /\ v.sig = Sig => Valid(Sources, v.entries)

SoundInv ==
  /\ \A n \in DOMAIN versions : Sound(versions[n])
  /\ step \in CommitSteps => Sound(op.draft)

LEMMA InitSound == Init => SoundInv
  BY DEF Init, SoundInv, CommitSteps

LEMMA SigSigned == Signed(Sig)
  BY DEF Signed, Sig, Vector, Latest, Versions

LEMMA SameSound ==
  ASSUME UNCHANGED ledger, NEW v, Sound(v)
  PROVE  Signed(v.sig)' /\ (v.status = "current" /\ v.sig = Sig' => Valid(Sources', v.entries))
<1>1. Sig' = Sig /\ Sources' = Sources /\ \A rid : Versions(rid)' = Versions(rid)
  BY DEF Sig, Sources, Versions
<1> QED BY <1>1 DEF Sound, Signed

LEMMA IdleSound ==
  ASSUME SoundInv, UNCHANGED <<ledger, versions>>,
         step' \notin CommitSteps \/ (step \in CommitSteps /\ UNCHANGED op)
  PROVE  SoundInv'
<1>1. \A n \in DOMAIN versions' : Sound(versions[n])'
  BY SameSound DEF SoundInv, Sound
<1>2. step' \in CommitSteps => Sound(op.draft)'
  BY SameSound DEF SoundInv, Sound
<1> QED BY <1>1, <1>2 DEF SoundInv, CommitSteps

LEMMA CommitSound ==
  ASSUME SoundInv, NEW draft, NEW a, Commit(draft, a), Sound(draft)
  PROVE  SoundInv'
<1>1. op'.draft = draft /\ UNCHANGED <<ledger, versions>>
  BY DEF Commit, Begin, NoOp, durable
<1>2. \A n \in DOMAIN versions' : Sound(versions[n])'
  BY <1>1, SameSound DEF SoundInv, Sound
<1>3. Sound(op.draft)'
  BY <1>1, SameSound DEF Sound
<1> QED BY <1>2, <1>3 DEF SoundInv

LEMMA RequestSound ==
  ASSUME TypeOK, SoundInv,
         \/ \E rid, e, x, t : Submit(rid, e, x, t)
         \/ \E e, n, a, t : Correct(e, n, a, t)
         \/ \E j, snap, entries : Publish(j, snap, entries)
         \/ \E j : Recover(j)
         \/ \E e, n, x : Restore(e, n, x)
         \/ Reindex
  PROVE  SoundInv'
<1>1. ASSUME NEW a, Refuse(a) PROVE SoundInv'
  BY <1>1, IdleSound DEF Refuse, Answer, durable, CommitSteps
<1>2. ASSUME NEW s, s \notin CommitSteps, NEW o, Begin(s, o) PROVE SoundInv'
  BY <1>2, IdleSound DEF Begin, durable
<1>3. ASSUME NEW rec, SubmitRecord(rec) PROVE SoundInv'
  BY <1>1, <1>2, <1>3 DEF SubmitRecord, Reimport, FirstImportStep, CommitSteps
<1>4. CASE \E rid, e, x, t : Submit(rid, e, x, t)
  BY <1>3, <1>4 DEF Submit
<1>5. CASE \E e, n, a, t : Correct(e, n, a, t)
  BY <1>1, <1>3, <1>5 DEF Correct
<1>6. ASSUME NEW j, NEW snap, NEW entries, Publish(j, snap, entries) PROVE SoundInv'
  <2> DEFINE draft == Draft(Sig, entries, "current", j, 0)
  <2>1. CASE Commit(draft, "published") /\ Valid(Sources, entries)
    <3>1. Sound(draft)
      BY <2>1, SigSigned DEF Draft, Sound
    <3> QED BY <2>1, <3>1, CommitSound
  <2>2. ASSUME NEW n, Begin("activateReview", Activation(n, "alreadyPublished"))
        PROVE  SoundInv'
    BY <1>2, <2>2 DEF CommitSteps
  <2> QED BY <1>1, <1>6, <2>1, <2>2 DEF Publish
<1>7. CASE (\E j : Recover(j)) \/ Reindex
  BY <1>2, <1>7 DEF Recover, Reindex, CommitSteps
<1>8. ASSUME NEW e, NEW n, NEW x, Restore(e, n, x) PROVE SoundInv'
  <2> DEFINE draft == Draft(versions[n].sig, versions[n].entries, "pending-review", e, n)
  <2>1. CASE Commit(draft, "restored") /\ n \in 1..Len(versions)
    <3>1. n \in DOMAIN versions
      BY <2>1 DEF TypeOK, StoreTypeOK
    <3>2. Sound(draft)
      BY <3>1 DEF SoundInv, Sound, Draft
    <3> QED BY <2>1, <3>2, CommitSound
  <2> QED BY <1>1, <1>8, <2>1 DEF Restore
<1> QED BY <1>4, <1>5, <1>6, <1>7, <1>8

LEMMA CommitVersionSound == ASSUME TypeOK, SoundInv, CommitVersion PROVE SoundInv'
<1>1. versions \in Seq(VersionRecords) /\ Len(versions) \in Nat
  BY DEF TypeOK, StoreTypeOK
<1>2. /\ DOMAIN versions' = 1..(Len(versions) + 1)
      /\ versions'[Len(versions) + 1] = op.draft
      /\ \A n \in 1..Len(versions) : versions'[n] = versions[n]
  BY <1>1 DEF CommitVersion
<1>3. ASSUME NEW n \in DOMAIN versions' PROVE Sound(versions'[n])
  BY <1>1, <1>2 DEF SoundInv, CommitVersion, CommitSteps
<1>4. UNCHANGED ledger
  BY DEF CommitVersion
<1>5. \A n \in DOMAIN versions' : Sound(versions[n])'
  BY <1>3, <1>4, SameSound DEF Sound
<1> QED BY <1>5 DEF SoundInv, CommitVersion, CommitSteps

(* The heart of it: after an import no signature made before it is the     *)
(* present one.                                                            *)
LEMMA ImportChangesSig ==
  ASSUME TypeOK, LedgerInv, CommitRecord, NEW sig, Signed(sig)
  PROVE  Signed(sig)' /\ sig # Sig'
<1> DEFINE rec == op.rec
           item == [rid |-> rec.rid, version |-> rec.version, sha |-> rec.text]
<1>1. /\ rec \in Records /\ ledger \subseteq Records /\ Acceptable(rec)
      /\ ledger' = ledger \cup {rec}
  BY DEF CommitRecord, TypeOK, StoreTypeOK, OpTypeOK, ImportSteps, LedgerInv, Incoming
<1>2. PICK k \in Nat : Versions(rec.rid) = 1..k
  BY <1>1 DEF LedgerInv, Records
<1>3. rec.version = k + 1
  BY <1>1, <1>2, CurrentVersionIs DEF Acceptable
<1>4. \A r \in ledger' : r.rid = rec.rid => r.version <= rec.version
  <2>1. \A r \in ledger : r.rid = rec.rid => r.version \in 1..k
    BY <1>2 DEF Versions
  <2>2. \A i \in 1..k : i <= rec.version
    BY <1>3
  <2>3. rec.version <= rec.version
    BY <1>3
  <2> HIDE DEF rec
  <2> QED BY <1>1, <2>1, <2>2, <2>3
<1>5. item \in Sig'
  BY <1>1, <1>4 DEF Sig, Vector, Latest
<1>6. item \notin sig
  BY <1>2, <1>3 DEF Signed
<1>7. Signed(sig)'
  BY <1>1 DEF Signed, Versions
<1> QED BY <1>5, <1>6, <1>7

LEMMA NextSound == ASSUME TypeOK, LedgerInv, SoundInv, [Next]_vars PROVE SoundInv'
<1>1. CASE \/ WithdrawReview \/ WithdrawEntry \/ Index
           \/ Ensure \/ ActivateReview \/ ActivateEntry
  BY <1>1, IdleSound DEF WithdrawReview, WithdrawEntry, Index, Answer, Ensure,
     ActivateReview, ActivateEntry, CommitSteps
<1>2. CASE CommitRecord
  <2>1. step' = "index" /\ UNCHANGED versions
    BY <1>2 DEF CommitRecord
  <2>2. ASSUME NEW n \in DOMAIN versions
        PROVE  Signed(versions[n].sig)' /\ versions'[n].sig # Sig'
    <3>1. Signed(versions[n].sig)
      BY DEF SoundInv, Sound
    <3>2. \A sig : Signed(sig) => sig # Sig'
      BY <1>2, ImportChangesSig
    <3>3. \A rid : Versions(rid) \subseteq Versions(rid)'
      BY <1>2 DEF CommitRecord, Versions
    <3>4. Signed(versions[n].sig)'
      BY <2>1, <3>1, <3>3 DEF Signed
    <3> QED BY <2>1, <3>1, <3>2, <3>4
  <2>3. \A n \in DOMAIN versions' : Sound(versions[n])'
    BY <2>1, <2>2 DEF Sound
  <2> QED BY <2>1, <2>3 DEF SoundInv, CommitSteps
<1>3. CASE CommitVersion
  BY <1>3, CommitVersionSound
<1>4. CASE Fail \/ Crash \/ Restart \/ Serve \/ UNCHANGED vars
  BY <1>4, IdleSound DEF Fail, Crash, Restart, Serve, Answer, durable, vars, CommitSteps
<1> QED BY <1>1, <1>2, <1>3, <1>4, RequestSound DEF Next, Operation, Fault

-----------------------------------------------------------------------------
(* A correction is the only version of its record, hence always a source.  *)
LEMMA CorrectionsAreSources ==
  ASSUME TypeOK, LedgerWellFormed
  PROVE  Corrections(ledger) = Corrections(Sources)
<1>1. ASSUME NEW r \in Corrections(ledger) PROVE r \in Sources
  <2>1. r \in ledger /\ r.version \in Nat
    BY DEF Corrections, TypeOK, StoreTypeOK, Records
  <2>2. \A s \in ledger : s.rid = r.rid => s = r
    BY DEF Corrections, LedgerWellFormed
  <2> QED BY <2>1, <2>2 DEF Sources, Latest
<1>2. Sources \subseteq ledger
  BY DEF Sources, Latest
<1> QED BY <1>1, <1>2 DEF Corrections

LEMMA CountingIsSound ==
  ASSUME TypeOK, NoStaleEntry, SoundInv, NEW n \in DOMAIN versions, Counts(n)
  PROVE  Valid(Sources, versions[n].entries)
<1>1. n # 0
  BY DEF TypeOK, StoreTypeOK
<1>2. versions[n].status = "current" /\ versions[n].sig = Sig
  BY <1>1 DEF Counts, IsCurrent, NoStaleEntry
<1> QED BY <1>2 DEF SoundInv, Sound

LEMMA SoundCorrections ==
  ASSUME TypeOK, LedgerWellFormed, NoStaleEntry, SoundInv
  PROVE  CorrectionsHold
<1> SUFFICES ASSUME NEW n \in DOMAIN versions, Counts(n)
             PROVE  /\ \A r \in Corrections(ledger), a \in versions[n].entries :
                         ~Overlap(r.target, a)
                    /\ \A r \in Corrections(ledger) :
                         \/ WholeAnchor(r) \in versions[n].entries
                         \/ \E s \in Corrections(ledger) : s.target = WholeAnchor(r)
  BY DEF CorrectionsHold
<1>1. Valid(Sources, versions[n].entries)
  BY CountingIsSound
<1>2. \A r \in Corrections(ledger), a \in versions[n].entries : ~Overlap(r.target, a)
  BY <1>1, CorrectionsAreSources DEF Valid, Rejected, Excluded
<1>3. ASSUME NEW r \in Corrections(ledger)
      PROVE  \/ WholeAnchor(r) \in versions[n].entries
             \/ \E s \in Corrections(ledger) : s.target = WholeAnchor(r)
  BY <1>1, CorrectionsAreSources DEF Valid, Required, Excluded
<1> QED BY <1>2, <1>3

LEMMA SoundAlways == Spec => []SoundInv
<1>1. Init => SoundInv
  BY InitSound
<1>2. TypeOK /\ LedgerInv /\ SoundInv /\ [Next]_vars => SoundInv'
  BY NextSound
<1>3. Spec => []LedgerInv
  <2>1. Init => LedgerInv
    BY InitLedger
  <2>2. TypeOK /\ LedgerInv /\ [Next]_vars => LedgerInv'
    BY NextLedger
  <2> QED BY <2>1, <2>2, TypeCorrect, PTL DEF Spec
<1> QED BY <1>1, <1>2, <1>3, TypeCorrect, PTL DEF Spec

(* Whatever was corrected, published, restored and interrupted before:     *)
(* knowledge that counts quotes no corrected words, and quotes every       *)
(* correction in full that was not itself corrected.                       *)
THEOREM CorrectionsAlwaysHold == Spec => []CorrectionsHold
<1>1. TypeOK /\ LedgerWellFormed /\ NoStaleEntry /\ SoundInv => CorrectionsHold
  BY SoundCorrections
<1> QED BY <1>1, TypeCorrect, LedgerAlwaysWellFormed, EntryNeverStale, SoundAlways, PTL

-----------------------------------------------------------------------------
(* A correction in progress was checked against the current version, and   *)
(* nothing commits between that check and the rename of its record.        *)
CorrectsCurrent(rec) ==
  rec.target # NoTarget =>
    /\ rec.about = Len(versions)
    /\ rec.target \in versions[rec.about].entries
    /\ versions[rec.about].sig = Sig

WordsInv == step \in ImportSteps => CorrectsCurrent(op.rec)

LEMMA IdleWords ==
  ASSUME WordsInv, UNCHANGED <<ledger, versions>>,
         step' \notin ImportSteps \/ (step \in ImportSteps /\ UNCHANGED op)
  PROVE  WordsInv'
  BY DEF WordsInv, CorrectsCurrent, Sig

LEMMA SubmitWords ==
  ASSUME WordsInv, NEW rec, SubmitRecord(rec),
         (\A r \in ledger : r.event # rec.event) => CorrectsCurrent(rec)
  PROVE  WordsInv'
<1> USE DEF ImportSteps
<1>1. CASE Refuse("fault") \/ Reimport
  BY <1>1, IdleWords DEF Refuse, Answer, Reimport, Begin, durable
<1>2. CASE /\ {r \in ledger : r.event = rec.event} = {}
           /\ Begin(FirstImportStep, [NoOp EXCEPT !.rec = rec, !.answer = "imported"])
  <2>1. op'.rec = rec /\ UNCHANGED <<ledger, versions>>
    BY <1>2 DEF Begin, NoOp, durable
  <2>2. CorrectsCurrent(rec)
    BY <1>2
  <2> QED BY <2>1, <2>2 DEF WordsInv, CorrectsCurrent, Sig
<1> QED BY <1>1, <1>2 DEF SubmitRecord

LEMMA NextWords == ASSUME WordsInv, [Next]_vars PROVE WordsInv'
<1> USE DEF ImportSteps
<1>1. ASSUME NEW rid, NEW e, NEW x, NEW t, Submit(rid, e, x, t) PROVE WordsInv'
  <2> DEFINE rec == Record(rid, x + 1, e, t, NoTarget, 0)
  <2>1. SubmitRecord(rec) /\ rec.target = NoTarget
    BY <1>1 DEF Submit, Record
  <2> HIDE DEF rec
  <2> QED BY <2>1, SubmitWords DEF CorrectsCurrent
<1>2. ASSUME NEW e, NEW n, NEW a, NEW t, Correct(e, n, a, t) PROVE WordsInv'
  <2> DEFINE rec == Record(e, 1, e, t, a, n)
  <2>1. rec.target = a /\ rec.about = n /\ rec.event = e
    BY DEF Record
  <2>2. CASE a \in versions[n].entries /\ Correctable(e, n) /\ SubmitRecord(rec)
    <3>1. (\A r \in ledger : r.event # e) => CorrectsCurrent(rec)
      BY <2>1, <2>2 DEF Correctable, CorrectsCurrent, IsCurrent
    <3> HIDE DEF rec
    <3> QED BY <2>1, <2>2, <3>1, SubmitWords
  <2>3. CASE Refuse("fault")
    BY <2>3, IdleWords DEF Refuse, Answer, durable
  <2> QED BY <1>2, <2>2, <2>3 DEF Correct
<1>3. CASE (\E j, snap, entries : Publish(j, snap, entries)) \/ (\E e, n, x : Restore(e, n, x))
           \/ Reindex \/ \E j : Recover(j)
  BY <1>3, IdleWords DEF Publish, Restore, Reindex, Recover, Commit, Refuse, Answer, Begin, durable
<1>4. CASE WithdrawReview \/ WithdrawEntry
  BY <1>4, IdleWords DEF WithdrawReview, WithdrawEntry
<1>5. CASE CommitRecord \/ Index \/ Ensure \/ CommitVersion \/ ActivateReview \/ ActivateEntry
  BY <1>5 DEF CommitRecord, Index, Answer, Ensure, CommitVersion, ActivateReview,
     ActivateEntry, WordsInv
<1>6. CASE Fail \/ Crash \/ Restart \/ Serve \/ UNCHANGED vars
  BY <1>6, IdleWords DEF Fail, Crash, Restart, Serve, Answer, durable, vars
<1> QED BY <1>1, <1>2, <1>3, <1>4, <1>5, <1>6 DEF Next, Operation, Fault

(* Nothing but the rename of an import's record changes the ledger.        *)
LEMMA OnlyImportsCommit ==
  ASSUME [Next]_vars
  PROVE  CommitRecord \/ UNCHANGED ledger
<1>1. (\E s, o : Begin(s, o)) \/ (\E a : Refuse(a)) => ledger' = ledger
  BY DEF Begin, Refuse, durable
<1>2. (\E rec : SubmitRecord(rec)) => ledger' = ledger
  BY <1>1 DEF SubmitRecord, Reimport
<1>3. CASE \/ \E rid, e, x, t : Submit(rid, e, x, t)
           \/ \E e, n, a, t : Correct(e, n, a, t)
           \/ Reindex
  BY <1>1, <1>2, <1>3 DEF Submit, Correct, Reindex
<1>4. CASE \/ \E j, snap, entries : Publish(j, snap, entries)
           \/ \E j : Recover(j)
           \/ \E e, n, x : Restore(e, n, x)
  BY <1>1, <1>4 DEF Publish, Recover, Restore, Commit
<1>5. CASE \/ WithdrawReview \/ WithdrawEntry \/ Index \/ Ensure \/ CommitVersion
           \/ ActivateReview \/ ActivateEntry
  BY <1>5 DEF WithdrawReview, WithdrawEntry, Index, Ensure, CommitVersion,
     ActivateReview, ActivateEntry
<1>6. CASE Fail \/ Crash \/ Restart \/ Serve \/ UNCHANGED vars
  BY <1>6 DEF Fail, Crash, Restart, Serve, durable, vars
<1> QED BY <1>3, <1>4, <1>5, <1>6 DEF Next, Operation, Fault

(* A correction is committed only against words of the version that is     *)
(* current then, whatever happened between the request and its commit.     *)
THEOREM CorrectionsMeetCurrentWords == Spec => CorrectsCurrentWords
<1> DEFINE Words == \A r \in ledger' \ ledger :
                      r.target # NoTarget =>
                        /\ r.about = Len(versions)
                        /\ r.target \in versions[r.about].entries
                        /\ versions[r.about].sig = Sig
<1>1. Init => WordsInv
  BY DEF Init, WordsInv, ImportSteps
<1>2. WordsInv /\ [Next]_vars => WordsInv'
  BY NextWords
<1>3. TypeOK /\ WordsInv /\ [Next]_vars => [Words]_vars
  <2> SUFFICES ASSUME TypeOK, WordsInv, [Next]_vars PROVE Words
    OBVIOUS
  <2>1. ASSUME NEW r \in ledger' \ ledger PROVE step \in ImportSteps /\ r = op.rec
    BY OnlyImportsCommit DEF CommitRecord, ImportSteps
  <2> QED BY <2>1 DEF WordsInv, CorrectsCurrent
<1>4. CorrectsCurrentWords <=> [][Words]_vars
  BY PTL DEF CorrectsCurrentWords
<1> QED BY <1>1, <1>2, <1>3, <1>4, TypeCorrect, PTL DEF Spec
=============================================================================
