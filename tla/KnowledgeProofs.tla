-------------------------- MODULE KnowledgeProofs --------------------------
(***************************************************************************)
(* Theorems about Knowledge, for every set of sources, events, texts, jobs *)
(* and restore requests.                                                   *)
(***************************************************************************)
EXTENDS Knowledge, TLAPS

-----------------------------------------------------------------------------
(* What a snapshot signs are versions and digests of committed records.    *)
LEMMA SigType ==
  ASSUME ledger \in SUBSET Records
  PROVE  Sig \in SUBSET Items
  BY DEF Sig, Vector, Latest, Records, Items

(* Entries that pass validation quote committed records.                   *)
LEMMA ValidCited ==
  ASSUME NEW entries, Valid(Sources, entries)
  PROVE  entries \in SUBSET Cited
  BY DEF Valid, Sources, Latest, Cited

(* The ledger only grows, and with it the values the other variables may   *)
(* have.                                                                   *)
LEMMA Growth ==
  ASSUME ledger \subseteq ledger'
  PROVE  /\ Cited \subseteq Cited'
         /\ Records \subseteq Records'
         /\ VersionRecords \subseteq VersionRecords'
<1>1. Cited \subseteq Cited'
  BY DEF Cited
<1>2. Records \subseteq Records'
  BY <1>1 DEF Records
<1>3. VersionRecords \subseteq VersionRecords'
  BY <1>1 DEF VersionRecords, Items
<1> QED BY <1>1, <1>2, <1>3

LEMMA NoOpType ==
  ASSUME TypeOK
  PROVE  NoOp \in OpRecords
  BY DEF NoOp, TypeOK, StoreTypeOK, Answers, OpRecords

LEMMA InitType == Init => TypeOK
<1> SUFFICES ASSUME Init PROVE TypeOK
  OBVIOUS
<1>1. registered \in BOOLEAN /\ review \in BOOLEAN
  BY DEF Init
<1>2. ledger \in SUBSET Records /\ indexed \in [records : SUBSET Records, linked : BOOLEAN]
  BY DEF Init
<1>3. versions \in Seq(VersionRecords) /\ entryFile \in 0..Len(versions)
  BY DEF Init
<1>4. StoreTypeOK
  BY <1>1, <1>2, <1>3 DEF Init, StoreTypeOK
<1>5. NoOp \in OpRecords
  BY DEF Init, NoOp, OpRecords, Answers
<1>6. OpTypeOK
  BY <1>5 DEF Init, OpTypeOK, ImportSteps, CommitSteps, ActivateSteps, Answers
<1> QED BY <1>4, <1>6 DEF TypeOK

(* A step that leaves the files alone keeps their types.                   *)
LEMMA SameStore ==
  ASSUME StoreTypeOK, UNCHANGED durable, phase' \in {"down", "booting", "up"}
  PROVE  /\ StoreTypeOK'
         /\ Records' = Records
         /\ VersionRecords' = VersionRecords
         /\ OpRecords' = OpRecords
<1>1. ledger' = ledger /\ versions' = versions
  BY DEF durable
<1>2. Cited' = Cited
  BY <1>1 DEF Cited
<1>3. Records' = Records
  BY <1>2 DEF Records
<1>4. VersionRecords' = VersionRecords
  BY <1>2 DEF VersionRecords, Items
<1>5. OpRecords' = OpRecords
  BY <1>1, <1>3, <1>4 DEF OpRecords, Answers
<1>6. StoreTypeOK'
  BY <1>3, <1>4 DEF StoreTypeOK, durable
<1> QED BY <1>3, <1>4, <1>5, <1>6

(* An operation that only takes the lock: its data must be well typed.     *)
LEMMA BeginType ==
  ASSUME TypeOK,
         NEW s \in {"idle", "index"} \cup ImportSteps \cup CommitSteps \cup ActivateSteps,
         NEW o \in OpRecords,
         s \in ImportSteps => o.rec \in Records,
         s \in CommitSteps => o.draft \in VersionRecords,
         s \in ActivateSteps => o.version # 0,
         Begin(s, o)
  PROVE  TypeOK'
<1>1. StoreTypeOK /\ phase' = phase /\ UNCHANGED durable
  BY DEF Begin, TypeOK
<1>2. StoreTypeOK' /\ Records' = Records /\ VersionRecords' = VersionRecords
      /\ OpRecords' = OpRecords
  BY <1>1, SameStore DEF StoreTypeOK
<1>3. step' = s /\ op' = o /\ reply' = "none"
  BY DEF Begin
<1>4. OpTypeOK'
  BY <1>2, <1>3 DEF OpTypeOK, Answers, ImportSteps, CommitSteps, ActivateSteps
<1> QED BY <1>2, <1>4 DEF TypeOK

LEMMA AnswerType ==
  ASSUME StoreTypeOK', NEW a \in Answers, Answer(a)
  PROVE  TypeOK'
<1>1. NoOp \in OpRecords'
  <2>1. Len(versions') \in Nat
    BY DEF StoreTypeOK
  <2> QED BY <2>1 DEF NoOp, OpRecords, Answers
<1>2. OpTypeOK'
  BY <1>1 DEF OpTypeOK, Answer, Answers, ImportSteps, CommitSteps, ActivateSteps
<1> QED BY <1>2 DEF TypeOK

LEMMA RefuseType ==
  ASSUME TypeOK, NEW a \in Answers, Refuse(a)
  PROVE  TypeOK'
<1>1. StoreTypeOK'
  BY SameStore DEF Refuse, TypeOK, StoreTypeOK
<1> QED BY <1>1, AnswerType DEF Refuse

LEMMA IndexOnlyType ==
  ASSUME TypeOK, NEW a \in Answers, Begin("index", [NoOp EXCEPT !.answer = a])
  PROVE  TypeOK'
<1> DEFINE o == [NoOp EXCEPT !.answer = a]
<1>1. o \in OpRecords
  BY NoOpType DEF NoOp, Answers, OpRecords
<1> QED BY <1>1, BeginType DEF ImportSteps, CommitSteps, ActivateSteps

LEMMA SubmitRecordType ==
  ASSUME TypeOK, NEW rec \in Records, SubmitRecord(rec)
  PROVE  TypeOK'
<1> DEFINE o == [NoOp EXCEPT !.rec = rec, !.answer = "imported"]
<1>1. CASE Refuse("fault")
  BY <1>1, RefuseType DEF Answers
<1>2. CASE Reimport
  BY <1>2, IndexOnlyType DEF Reimport, Answers
<1>3. CASE Begin(FirstImportStep, o)
  <2>1. o \in OpRecords
    BY NoOpType DEF NoOp, Answers, OpRecords
  <2>2. o.rec = rec
    BY DEF NoOp
  <2> QED BY <1>3, <2>1, <2>2, BeginType
             DEF FirstImportStep, ImportSteps, CommitSteps, ActivateSteps
<1> QED BY <1>1, <1>2, <1>3 DEF SubmitRecord

LEMMA CommitType ==
  ASSUME TypeOK, NEW draft \in VersionRecords, NEW a \in Answers, Commit(draft, a)
  PROVE  TypeOK'
<1> DEFINE o == [NoOp EXCEPT !.draft = draft, !.answer = a]
<1>1. o \in OpRecords
  BY NoOpType DEF NoOp, Answers, OpRecords
<1>2. o.draft = draft
  BY DEF NoOp
<1> QED BY <1>1, <1>2, BeginType DEF Commit, ImportSteps, CommitSteps, ActivateSteps

LEMMA ActivationType ==
  ASSUME TypeOK, NEW n \in 1..Len(versions), NEW a \in Answers,
         Begin("activateReview", Activation(n, a))
  PROVE  TypeOK'
<1>1. Activation(n, a) \in OpRecords
  <2>1. n \in 0..Len(versions)
    BY DEF TypeOK, StoreTypeOK
  <2> QED BY <2>1, NoOpType DEF NoOp, Activation, OpRecords
<1>2. Activation(n, a).version = n
  BY DEF NoOp, Activation
<1> QED BY <1>1, <1>2, BeginType DEF ImportSteps, CommitSteps, ActivateSteps

LEMMA SubmitType ==
  ASSUME TypeOK, NEW rid \in Rids, NEW e \in Events, NEW x \in Nat, NEW t \in Texts,
         Submit(rid, e, x, t)
  PROVE  TypeOK'
<1>1. Record(rid, x + 1, e, t, NoTarget, 0) \in Records
  BY DEF Record, Records
<1> QED BY <1>1, SubmitRecordType DEF Submit

LEMMA CorrectType ==
  ASSUME TypeOK, NEW e \in CorrectionEvents, NEW n \in DOMAIN versions, NEW t \in Texts,
         NEW a, Correct(e, n, a, t)
  PROVE  TypeOK'
<1>1. CASE a \in versions[n].entries
  <2>1. versions[n] \in VersionRecords /\ n \in Nat
    BY DEF TypeOK, StoreTypeOK
  <2>2. a \in Cited
    BY <1>1, <2>1 DEF VersionRecords
  <2>3. Record(e, 1, e, t, a, n) \in Records
    BY <2>1, <2>2, EventsAssumption DEF Record, Records
  <2> QED BY <2>3, SubmitRecordType, RefuseType DEF Correct, Answers
<1>2. CASE a \notin versions[n].entries
  BY <1>2, RefuseType DEF Correct, Answers
<1> QED BY <1>1, <1>2

LEMMA PublishType ==
  ASSUME TypeOK, NEW j \in Jobs, NEW snap, NEW entries, Publish(j, snap, entries)
  PROVE  TypeOK'
<1>1. CASE Refuse("fault") \/ Refuse("alreadyPublished")
  BY <1>1, RefuseType DEF Answers
<1>2. CASE Begin("activateReview", Activation(Len(versions), "alreadyPublished"))
           /\ Len(versions) \in PublishedBy(j)
  BY <1>2, ActivationType DEF PublishedBy, Answers
<1>3. CASE /\ Valid(Sources, entries)
           /\ Commit(Draft(Sig, entries, "current", j, 0), "published")
  <2>1. Draft(Sig, entries, "current", j, 0) \in VersionRecords
    BY <1>3, SigType, ValidCited DEF Draft, VersionRecords, TypeOK, StoreTypeOK
  <2> QED BY <1>3, <2>1, CommitType DEF Answers
<1> QED BY <1>1, <1>2, <1>3 DEF Publish

LEMMA RestoreType ==
  ASSUME TypeOK, NEW e \in RestoreEvents, NEW n, NEW x, Restore(e, n, x)
  PROVE  TypeOK'
<1> DEFINE draft == Draft(versions[n].sig, versions[n].entries, "pending-review", e, n)
<1>1. CASE Refuse("fault") \/ Refuse("alreadyRestored")
  BY <1>1, RefuseType DEF Answers
<1>2. CASE n \in 1..Len(versions) /\ Commit(draft, "restored")
  <2>1. versions[n] \in VersionRecords /\ n \in Nat /\ Len(versions) \in Nat
    BY <1>2 DEF TypeOK, StoreTypeOK
  <2>2. draft \in VersionRecords
    BY <2>1 DEF Draft, VersionRecords
  <2> QED BY <1>2, <2>2, CommitType DEF Answers
<1> QED BY <1>1, <1>2 DEF Restore

LEMMA RecoverType ==
  ASSUME TypeOK, NEW j \in Jobs, Recover(j)
  PROVE  TypeOK'
  BY ActivationType DEF Recover, PublishedBy, Answers

(* A step that moves the operation on without touching ledger or versions. *)
LEMMA MoveType ==
  ASSUME TypeOK,
         UNCHANGED <<ledger, versions, phase, op, reply>>,
         indexed' \in [records : SUBSET Records, linked : BOOLEAN],
         registered' \in BOOLEAN, review' \in BOOLEAN, entryFile' \in 0..Len(versions),
         \/ step' = step
         \/ step' = "index"
         \/ step \in ImportSteps /\ step' \in ImportSteps
         \/ step \in CommitSteps /\ step' \in CommitSteps
         \/ step \in ActivateSteps /\ step' \in ActivateSteps
  PROVE  TypeOK'
<1>1. Cited' = Cited
  BY DEF Cited
<1>2. Records' = Records /\ VersionRecords' = VersionRecords
  BY <1>1 DEF Records, VersionRecords, Items
<1>3. OpRecords' = OpRecords
  BY <1>2 DEF OpRecords, Answers
<1>4. StoreTypeOK'
  BY <1>2 DEF TypeOK, StoreTypeOK
<1>5. OpTypeOK'
  BY <1>2, <1>3 DEF TypeOK, OpTypeOK, ImportSteps, CommitSteps, ActivateSteps, Answers
<1> QED BY <1>4, <1>5 DEF TypeOK

LEMMA ImportStepType ==
  ASSUME TypeOK, WithdrawReview \/ WithdrawEntry
  PROVE  TypeOK'
<1>1. CASE WithdrawReview
  BY <1>1, MoveType DEF WithdrawReview, TypeOK, StoreTypeOK, ImportSteps
<1>2. CASE WithdrawEntry
  <2>1. 0 \in 0..Len(versions)
    BY DEF TypeOK, StoreTypeOK
  <2> QED BY <1>2, <2>1, MoveType DEF WithdrawEntry, TypeOK, StoreTypeOK, ImportSteps
<1> QED BY <1>1, <1>2

LEMMA CommitRecordType == ASSUME TypeOK, CommitRecord PROVE TypeOK'
<1>1. ledger \subseteq ledger'
  BY DEF CommitRecord
<1>2. Records \subseteq Records' /\ VersionRecords \subseteq VersionRecords'
  BY <1>1, Growth
<1>3. op.rec \in Records
  BY DEF CommitRecord, TypeOK, OpTypeOK, ImportSteps
<1>4. Seq(VersionRecords) \subseteq Seq(VersionRecords')
  BY <1>2
<1>5. /\ ledger' \in SUBSET Records'
      /\ indexed' \in [records : SUBSET Records', linked : BOOLEAN]
      /\ versions' \in Seq(VersionRecords')
  BY <1>2, <1>3, <1>4 DEF CommitRecord, TypeOK, StoreTypeOK
<1>6. StoreTypeOK'
  BY <1>5 DEF CommitRecord, TypeOK, StoreTypeOK
<1>7. OpRecords \subseteq OpRecords'
  BY <1>2 DEF OpRecords, CommitRecord, Answers
<1>8. OpTypeOK'
  BY <1>7 DEF CommitRecord, TypeOK, OpTypeOK, ImportSteps, CommitSteps, ActivateSteps, Answers
<1> QED BY <1>6, <1>8 DEF TypeOK

LEMMA IndexType == ASSUME TypeOK, Index PROVE TypeOK'
<1>1. Cited' = Cited
  BY DEF Cited, Index
<1>2. Records' = Records /\ VersionRecords' = VersionRecords
  BY <1>1 DEF Records, VersionRecords, Items
<1>3. indexed' \in [records : SUBSET Records, linked : BOOLEAN]
  BY DEF Index, TypeOK, StoreTypeOK
<1>4. StoreTypeOK'
  BY <1>2, <1>3 DEF Index, TypeOK, StoreTypeOK
<1>5. op.answer \in Answers
  BY DEF TypeOK, OpTypeOK, OpRecords
<1> QED BY <1>4, <1>5, AnswerType DEF Index

LEMMA EnsureType == ASSUME TypeOK, Ensure PROVE TypeOK'
<1>1. 0 \in 0..Len(versions)
  BY DEF TypeOK, StoreTypeOK
<1> QED BY <1>1, MoveType DEF Ensure, TypeOK, StoreTypeOK, CommitSteps

LEMMA CommitVersionType == ASSUME TypeOK, CommitVersion PROVE TypeOK'
<1>1. op.draft \in VersionRecords /\ op.answer \in Answers
  BY DEF CommitVersion, TypeOK, OpTypeOK, CommitSteps, OpRecords
<1>2. Cited' = Cited
  BY DEF Cited, CommitVersion
<1>3. Records' = Records /\ VersionRecords' = VersionRecords
  BY <1>2 DEF Records, VersionRecords, Items
<1>4. versions' \in Seq(VersionRecords) /\ Len(versions') = Len(versions) + 1
      /\ Len(versions) \in Nat
  BY <1>1 DEF CommitVersion, TypeOK, StoreTypeOK
<1>5. StoreTypeOK'
  BY <1>3, <1>4 DEF CommitVersion, TypeOK, StoreTypeOK
<1>6. op' \in OpRecords' /\ op'.version # 0
  <2>1. op' = [rec |-> None, draft |-> None, version |-> Len(versions) + 1,
               answer |-> op.answer]
    BY DEF CommitVersion, Activation, NoOp
  <2>2. Len(versions) + 1 \in 0..Len(versions') /\ Len(versions) + 1 # 0
    BY <1>4
  <2> QED BY <1>1, <2>1, <2>2 DEF OpRecords, Answers
<1>7. OpTypeOK'
  BY <1>6 DEF CommitVersion, TypeOK, OpTypeOK, ImportSteps, CommitSteps, ActivateSteps
<1> QED BY <1>5, <1>7 DEF TypeOK

LEMMA ActivateType ==
  ASSUME TypeOK, ActivateReview \/ ActivateEntry
  PROVE  TypeOK'
<1>1. CASE ActivateReview
  <2>1. review' \in BOOLEAN
    BY <1>1 DEF ActivateReview
  <2> QED BY <1>1, <2>1, MoveType DEF ActivateReview, TypeOK, StoreTypeOK, ActivateSteps
<1>2. CASE ActivateEntry
  <2>1. entryFile' \in 0..Len(versions)
    BY <1>2 DEF ActivateEntry, TypeOK, StoreTypeOK, OpTypeOK, OpRecords
  <2> QED BY <1>2, <2>1, MoveType DEF ActivateEntry, TypeOK, StoreTypeOK, ActivateSteps
<1> QED BY <1>1, <1>2

LEMMA FaultType ==
  ASSUME TypeOK, Fail \/ Crash \/ Restart \/ Serve
  PROVE  TypeOK'
<1>1. CASE Fail
  <2>1. StoreTypeOK'
    BY <1>1, SameStore DEF Fail, TypeOK, StoreTypeOK
  <2> QED BY <1>1, <2>1, AnswerType DEF Fail, Answers
<1>2. CASE Crash
  <2>1. StoreTypeOK'
    BY <1>2, SameStore DEF Crash, TypeOK
  <2> QED BY <1>2, <2>1, AnswerType DEF Crash, Answers
<1>3. CASE Restart
  <2>1. Cited' = Cited
    BY <1>3 DEF Cited, Restart
  <2>2. Records' = Records /\ VersionRecords' = VersionRecords
    BY <2>1 DEF Records, VersionRecords, Items
  <2>3. OpRecords' = OpRecords
    BY <1>3, <2>2 DEF OpRecords, Answers, Restart
  <2>4. indexed' \in [records : SUBSET Records, linked : BOOLEAN]
    BY <1>3 DEF Restart, TypeOK, StoreTypeOK
  <2>5. StoreTypeOK'
    BY <1>3, <2>2, <2>4 DEF Restart, TypeOK, StoreTypeOK
  <2>6. OpTypeOK'
    BY <1>3, <2>2, <2>3 DEF Restart, TypeOK, OpTypeOK
  <2> QED BY <2>5, <2>6 DEF TypeOK
<1>4. CASE Serve
  <2>1. StoreTypeOK' /\ Records' = Records /\ VersionRecords' = VersionRecords
        /\ OpRecords' = OpRecords
    BY <1>4, SameStore DEF Serve, TypeOK
  <2>2. OpTypeOK'
    BY <1>4, <2>1 DEF Serve, TypeOK, OpTypeOK, Answers
  <2> QED BY <2>1, <2>2 DEF TypeOK
<1> QED BY <1>1, <1>2, <1>3, <1>4

LEMMA StutterType == ASSUME TypeOK, UNCHANGED vars PROVE TypeOK'
<1>1. StoreTypeOK' /\ Records' = Records /\ VersionRecords' = VersionRecords
      /\ OpRecords' = OpRecords
  BY SameStore DEF vars, durable, TypeOK, StoreTypeOK
<1>2. OpTypeOK'
  BY <1>1 DEF vars, TypeOK, OpTypeOK
<1> QED BY <1>1, <1>2 DEF TypeOK

LEMMA NextType == ASSUME TypeOK, [Next]_vars PROVE TypeOK'
<1>1. CASE \E rid \in Rids, e \in Events, x \in NextVersions, t \in Texts : Submit(rid, e, x, t)
  <2>1. NextVersions \subseteq Nat
    BY DEF NextVersions
  <2> QED BY <1>1, <2>1, SubmitType
<1>2. CASE \E e \in CorrectionEvents, n \in DOMAIN versions, t \in Texts \ Unsupported :
             \E a \in Cited : Correct(e, n, a, t)
  BY <1>2, CorrectType
<1>3. CASE \E j \in Jobs, snap \in Snapshots :
             \E entries \in Outputs(snap) : Publish(j, snap, entries)
  BY <1>3, PublishType
<1>4. CASE \E e \in RestoreEvents, n, x \in DOMAIN versions : Restore(e, n, x)
  BY <1>4, RestoreType
<1>5. CASE \E j \in Jobs : Recover(j)
  BY <1>5, RecoverType
<1>6. CASE Reindex
  BY <1>6, IndexOnlyType DEF Reindex, Answers
<1> QED
  BY <1>1, <1>2, <1>3, <1>4, <1>5, <1>6, ImportStepType, CommitRecordType, IndexType, EnsureType,
     CommitVersionType, ActivateType, FaultType, StutterType
  DEF Next, Operation, Fault

(* Every value stays in its range; in particular every entry of every      *)
(* version, and every target of a correction, quotes an original that is   *)
(* committed - through crashes, refused writes and restores.               *)
THEOREM TypeCorrect == Spec => []TypeOK
<1>1. Init => TypeOK
  BY InitType
<1>2. TypeOK /\ [Next]_vars => TypeOK'
  BY NextType
<1> QED BY <1>1, <1>2, PTL DEF Spec

-----------------------------------------------------------------------------
(* NoStaleEntry is not inductive by itself.  What makes it so: no original *)
(* is committed while CURRENT.md presents a version; a project without     *)
(* directory has no CURRENT.md to withdraw; and an operation on its way to *)
(* CURRENT.md carries a version made from the sources of now, which cannot *)
(* change while it holds the lock.                                         *)
EntryInv ==
  /\ NoStaleEntry
  /\ entryFile # 0 \/ versions # <<>> => registered
  /\ step \in {"commitVersion"} \cup ActivateSteps => registered
  /\ step = "commitRecord" => entryFile = 0
  /\ step \in CommitSteps /\ op.draft.status = "current" => op.draft.sig = Sig
  /\ step \in ActivateSteps /\ versions[op.version].status = "current"
       => versions[op.version].sig = Sig

LEMMA InitEntry == Init => EntryInv
  BY DEF Init, EntryInv, NoStaleEntry, CommitSteps, ActivateSteps

(* Steps that write no file and leave the lock free, or keep it.           *)
LEMMA IdleEntry ==
  ASSUME EntryInv, UNCHANGED <<ledger, registered, versions, entryFile>>,
         step' \in {"idle", "index", "withdrawReview"}
  PROVE  EntryInv'
  BY DEF EntryInv, NoStaleEntry, Sig, CommitSteps, ActivateSteps

LEMMA RefuseEntry == ASSUME EntryInv, NEW a, Refuse(a) PROVE EntryInv'
  BY IdleEntry DEF Refuse, Answer, durable

LEMMA SubmitEntry == ASSUME EntryInv, NEW rec, SubmitRecord(rec) PROVE EntryInv'
<1> DEFINE o == [NoOp EXCEPT !.rec = rec, !.answer = "imported"]
<1>1. CASE Refuse("fault")
  BY <1>1, RefuseEntry
<1>2. CASE Reimport
  BY <1>2, IdleEntry DEF Reimport, Begin, durable
<1>3. CASE Begin(FirstImportStep, o)
  <2>1. CASE registered
    BY <1>3, <2>1, IdleEntry DEF Begin, FirstImportStep, durable
  <2>2. CASE ~registered
    BY <1>3, <2>2 DEF Begin, FirstImportStep, durable, EntryInv, NoStaleEntry, Sig,
       CommitSteps, ActivateSteps
  <2> QED BY <2>1, <2>2
<1> QED BY <1>1, <1>2, <1>3 DEF SubmitRecord

LEMMA CommitEntry ==
  ASSUME EntryInv, NEW draft, NEW a, Commit(draft, a),
         draft.status = "current" => draft.sig = Sig
  PROVE  EntryInv'
<1>1. step' \in CommitSteps /\ op'.draft = draft
  BY DEF Commit, Begin, NoOp, CommitSteps
<1>2. Sig' = Sig
  BY DEF Commit, Begin, durable, Sig
<1> QED BY <1>1, <1>2 DEF Commit, Begin, durable, EntryInv, NoStaleEntry, CommitSteps,
           ActivateSteps

LEMMA ActivationEntry ==
  ASSUME EntryInv, NEW n, NEW a, versions # <<>>, versions[n].sig = Sig,
         Begin("activateReview", Activation(n, a))
  PROVE  EntryInv'
<1>1. op'.version = n
  BY DEF Begin, Activation, NoOp
<1>2. Sig' = Sig
  BY DEF Begin, durable, Sig
<1> QED BY <1>1, <1>2 DEF Begin, durable, EntryInv, NoStaleEntry, CommitSteps, ActivateSteps

LEMMA HasVersions == ASSUME NEW j, NEW n \in PublishedBy(j) PROVE versions # <<>>
  BY DEF PublishedBy

LEMMA RequestEntry ==
  ASSUME TypeOK, EntryInv,
         \/ \E rid, e, x, t : Submit(rid, e, x, t)
         \/ \E e, n, a, t : Correct(e, n, a, t)
         \/ \E j, snap, entries : Publish(j, snap, entries)
         \/ \E j : Recover(j)
         \/ \E e, n, x : Restore(e, n, x)
         \/ Reindex
  PROVE  EntryInv'
<1>1. CASE \E rid, e, x, t : Submit(rid, e, x, t)
  BY <1>1, SubmitEntry DEF Submit
<1>2. CASE \E e, n, a, t : Correct(e, n, a, t)
  BY <1>2, SubmitEntry, RefuseEntry DEF Correct
<1>3. ASSUME NEW j, NEW snap, NEW entries, Publish(j, snap, entries) PROVE EntryInv'
  <2>1. ASSUME NEW n \in PublishedBy(j), versions[n].sig = Sig,
               Begin("activateReview", Activation(n, "alreadyPublished"))
        PROVE  EntryInv'
    BY <2>1, HasVersions, ActivationEntry
  <2>2. CASE Commit(Draft(Sig, entries, "current", j, 0), "published")
    BY <2>2, CommitEntry DEF Draft
  <2> QED BY <1>3, <2>1, <2>2, RefuseEntry DEF Publish
<1>4. CASE \E j : Recover(j)
  BY <1>4, HasVersions, ActivationEntry DEF Recover
<1>5. ASSUME NEW e, NEW n, NEW x, Restore(e, n, x) PROVE EntryInv'
  <2> DEFINE draft == Draft(versions[n].sig, versions[n].entries, "pending-review", e, n)
  <2>1. CASE Commit(draft, "restored")
    BY <2>1, CommitEntry DEF Draft
  <2> QED BY <1>5, <2>1, RefuseEntry DEF Restore
<1>6. CASE Reindex
  BY <1>6, IdleEntry DEF Reindex, Begin, durable
<1> QED BY <1>1, <1>2, <1>3, <1>4, <1>5, <1>6

LEMMA StepEntry ==
  ASSUME TypeOK, EntryInv,
         \/ WithdrawReview \/ WithdrawEntry \/ CommitRecord \/ Index
         \/ Ensure \/ CommitVersion \/ ActivateReview \/ ActivateEntry
  PROVE  EntryInv'
<1>1. CASE WithdrawReview
  BY <1>1 DEF WithdrawReview, EntryInv, NoStaleEntry, Sig, CommitSteps, ActivateSteps
<1>2. CASE WithdrawEntry
  BY <1>2 DEF WithdrawEntry, EntryInv, NoStaleEntry, CommitSteps, ActivateSteps
<1>3. CASE CommitRecord
  BY <1>3 DEF CommitRecord, EntryInv, NoStaleEntry, CommitSteps, ActivateSteps
<1>4. CASE Index
  BY <1>4, IdleEntry DEF Index, Answer
<1>5. CASE Ensure
  BY <1>5 DEF Ensure, EntryInv, NoStaleEntry, Sig, CommitSteps, ActivateSteps
<1>6. CASE CommitVersion
  <2>1. versions \in Seq(VersionRecords) /\ entryFile \in 0..Len(versions)
    BY DEF TypeOK, StoreTypeOK
  <2>2. versions'[Len(versions) + 1] = op.draft /\ Len(versions) \in Nat
    BY <1>6, <2>1 DEF CommitVersion
  <2>3. entryFile # 0 => versions'[entryFile] = versions[entryFile]
    BY <1>6, <2>1 DEF CommitVersion
  <2>4. op'.version = Len(versions) + 1
    BY <1>6 DEF CommitVersion, Activation, NoOp
  <2>5. Sig' = Sig
    BY <1>6 DEF CommitVersion, Sig
  <2> QED BY <1>6, <2>2, <2>3, <2>4, <2>5
          DEF CommitVersion, EntryInv, NoStaleEntry, CommitSteps, ActivateSteps
<1>7. CASE ActivateReview
  BY <1>7 DEF ActivateReview, EntryInv, NoStaleEntry, Sig, CommitSteps, ActivateSteps
<1>8. CASE ActivateEntry
  <2>1. step = "activateEntry" /\ step' = "index" /\ UNCHANGED <<registered, versions>>
        /\ Sig' = Sig
    BY <1>8 DEF ActivateEntry, Sig
  <2>2. NoStaleEntry'
    BY <1>8, <2>1 DEF ActivateEntry, EntryInv, NoStaleEntry, ActivateSteps
  <2>3. registered'
    BY <2>1 DEF EntryInv, ActivateSteps
  <2> QED BY <2>1, <2>2, <2>3 DEF EntryInv, CommitSteps, ActivateSteps
<1> QED BY <1>1, <1>2, <1>3, <1>4, <1>5, <1>6, <1>7, <1>8

LEMMA NextEntry == ASSUME TypeOK, EntryInv, [Next]_vars PROVE EntryInv'
<1>1. CASE Fail \/ Crash
  BY <1>1, IdleEntry DEF Fail, Crash, Answer, durable
<1>2. CASE Restart \/ Serve
  BY <1>2 DEF Restart, Serve, durable, EntryInv, NoStaleEntry, Sig
<1>3. CASE UNCHANGED vars
  BY <1>3 DEF vars, EntryInv, NoStaleEntry, Sig
<1> QED BY <1>1, <1>2, <1>3, RequestEntry, StepEntry DEF Next, Operation, Fault

(* Whoever opens CURRENT.md at any moment, even in the middle of an        *)
(* operation or after a crash, finds a version made from exactly the       *)
(* originals committed then, or none.                                      *)
THEOREM EntryNeverStale == Spec => []NoStaleEntry
<1>1. Init => EntryInv
  BY InitEntry
<1>2. TypeOK /\ EntryInv /\ [Next]_vars => EntryInv'
  BY NextEntry
<1>3. EntryInv => NoStaleEntry
  BY DEF EntryInv
<1> QED BY <1>1, <1>2, <1>3, TypeCorrect, PTL DEF Spec

-----------------------------------------------------------------------------
(* A job or a restore request on its way to a version has none yet, and    *)
(* nobody else can add one while it holds the lock.                        *)
OnceInv ==
  /\ PublishedOnce
  /\ step \in CommitSteps => PublishedBy(op.draft.job) = {}

LEMMA InitOnce == Init => OnceInv
  BY DEF Init, OnceInv, PublishedOnce, CommitSteps

(* Steps that add no version, and do not set out to add one.               *)
LEMMA IdleOnce ==
  ASSUME OnceInv, UNCHANGED versions,
         step' \notin CommitSteps \/ (step \in CommitSteps /\ UNCHANGED op)
  PROVE  OnceInv'
  BY DEF OnceInv, PublishedOnce, PublishedBy, CommitSteps

LEMMA CommitOnce ==
  ASSUME OnceInv, NEW draft, NEW a, Commit(draft, a), PublishedBy(draft.job) = {}
  PROVE  OnceInv'
<1>1. op'.draft = draft /\ UNCHANGED versions
  BY DEF Commit, Begin, NoOp, durable
<1>2. PublishedOnce'
  BY <1>1 DEF OnceInv, PublishedOnce
<1>3. (PublishedBy(op.draft.job) = {})'
  BY <1>1 DEF PublishedBy
<1> QED BY <1>2, <1>3 DEF OnceInv

LEMMA RequestOnce ==
  ASSUME OnceInv,
         \/ \E rid, e, x, t : Submit(rid, e, x, t)
         \/ \E e, n, a, t : Correct(e, n, a, t)
         \/ \E j, snap, entries : Publish(j, snap, entries)
         \/ \E j : Recover(j)
         \/ \E e, n, x : Restore(e, n, x)
         \/ Reindex
  PROVE  OnceInv'
<1>1. ASSUME NEW a, Refuse(a) PROVE OnceInv'
  BY <1>1, IdleOnce DEF Refuse, Answer, durable, CommitSteps
<1>2. ASSUME NEW s, s \notin CommitSteps, NEW o, Begin(s, o) PROVE OnceInv'
  BY <1>2, IdleOnce DEF Begin, durable
<1>3. ASSUME NEW rec, SubmitRecord(rec) PROVE OnceInv'
  BY <1>1, <1>2, <1>3 DEF SubmitRecord, Reimport, FirstImportStep, CommitSteps
<1>4. CASE \E rid, e, x, t : Submit(rid, e, x, t)
  BY <1>3, <1>4 DEF Submit
<1>5. CASE \E e, n, a, t : Correct(e, n, a, t)
  BY <1>1, <1>3, <1>5 DEF Correct
<1>6. ASSUME NEW j, NEW snap, NEW entries, Publish(j, snap, entries) PROVE OnceInv'
  <2>1. CASE Commit(Draft(Sig, entries, "current", j, 0), "published") /\ PublishedBy(j) = {}
    BY <2>1, CommitOnce DEF Draft
  <2>2. ASSUME NEW n, Begin("activateReview", Activation(n, "alreadyPublished"))
        PROVE  OnceInv'
    BY <1>2, <2>2 DEF CommitSteps
  <2> QED BY <1>1, <1>6, <2>1, <2>2 DEF Publish
<1>7. CASE (\E j : Recover(j)) \/ Reindex
  BY <1>2, <1>7 DEF Recover, Reindex, CommitSteps
<1>8. ASSUME NEW e, NEW n, NEW x, Restore(e, n, x) PROVE OnceInv'
  <2> DEFINE draft == Draft(versions[n].sig, versions[n].entries, "pending-review", e, n)
  <2>1. CASE Commit(draft, "restored") /\ PublishedBy(e) = {}
    BY <2>1, CommitOnce DEF Draft
  <2> QED BY <1>1, <1>8, <2>1 DEF Restore
<1> QED BY <1>4, <1>5, <1>6, <1>7, <1>8

LEMMA NextOnce == ASSUME TypeOK, OnceInv, [Next]_vars PROVE OnceInv'
<1>1. CASE \/ WithdrawReview \/ WithdrawEntry \/ CommitRecord \/ Index
           \/ Ensure \/ ActivateReview \/ ActivateEntry
  BY <1>1, IdleOnce DEF WithdrawReview, WithdrawEntry, CommitRecord, Index, Answer, Ensure,
     ActivateReview, ActivateEntry, CommitSteps
<1>2. CASE CommitVersion
  <2>1. versions \in Seq(VersionRecords) /\ Len(versions) \in Nat
    BY DEF TypeOK, StoreTypeOK
  <2>2. /\ versions' = Append(versions, op.draft) /\ step' \notin CommitSteps
        /\ \A n \in 1..Len(versions) : versions[n].job # op.draft.job
    BY <1>2 DEF CommitVersion, OnceInv, PublishedBy, CommitSteps
  <2>3. /\ DOMAIN versions' = 1..(Len(versions) + 1)
        /\ versions'[Len(versions) + 1] = op.draft
        /\ \A n \in 1..Len(versions) : versions'[n] = versions[n]
    BY <2>1, <2>2
  <2>4. PublishedOnce'
    BY <2>1, <2>2, <2>3 DEF OnceInv, PublishedOnce
  <2> QED BY <2>2, <2>4 DEF OnceInv
<1>3. CASE Fail \/ Crash \/ Restart \/ Serve \/ UNCHANGED vars
  BY <1>3, IdleOnce DEF Fail, Crash, Restart, Serve, Answer, durable, vars, CommitSteps
<1> QED BY <1>1, <1>2, <1>3, RequestOnce DEF Next, Operation, Fault

(* However often a job or a restore request is repeated, whatever was      *)
(* published in between and wherever the process died, its version exists  *)
(* at most once.                                                           *)
THEOREM NeverPublishedTwice == Spec => []PublishedOnce
<1>1. Init => OnceInv
  BY InitOnce
<1>2. TypeOK /\ OnceInv /\ [Next]_vars => OnceInv'
  BY NextOnce
<1>3. OnceInv => PublishedOnce
  BY DEF OnceInv
<1> QED BY <1>1, <1>2, <1>3, TypeCorrect, PTL DEF Spec

-----------------------------------------------------------------------------
(* LedgerWellFormed is not inductive: it says nothing of the record an     *)
(* import is about to commit, nor that the versions of a record have a     *)
(* greatest one for CurrentVersion to choose.  A correction is the first   *)
(* version of its record, so that Acceptable finds no other one there.     *)
Incoming ==
  /\ \A r \in ledger : r.event # op.rec.event
  /\ Acceptable(op.rec)
  /\ op.rec.target # NoTarget => op.rec.version = 1

LedgerInv ==
  /\ LedgerWellFormed
  /\ \A rid \in Rids : \E k \in Nat : Versions(rid) = 1..k
  /\ step \in ImportSteps => Incoming

LEMMA InitLedger == Init => LedgerInv
<1> SUFFICES ASSUME Init PROVE LedgerInv
  OBVIOUS
<1>1. LedgerWellFormed
  BY DEF Init, LedgerWellFormed
<1>2. ASSUME NEW rid \in Rids PROVE \E k \in Nat : Versions(rid) = 1..k
  <2>1. Versions(rid) = 1..0
    BY DEF Init, Versions
  <2> QED BY <2>1
<1> QED BY <1>1, <1>2 DEF Init, LedgerInv, ImportSteps

(* The version that Acceptable compares with is the number of versions.    *)
LEMMA CurrentVersionIs ==
  ASSUME NEW rid, NEW k \in Nat, Versions(rid) = 1..k
  PROVE  CurrentVersion(rid) = k
<1>1. CASE k = 0
  BY <1>1 DEF CurrentVersion
<1>2. CASE k # 0
  <2>1. k \in 1..k /\ \A m \in 1..k : m <= k
    BY <1>2
  <2>2. \A n \in 1..k : (\A m \in 1..k : m <= n) => n = k
    BY <2>1
  <2>3. CurrentVersion(rid) = CHOOSE n \in 1..k : \A m \in 1..k : m <= n
    BY <2>1 DEF CurrentVersion
  <2>4. \E n \in 1..k : \A m \in 1..k : m <= n
    BY <2>1
  <2> QED BY <2>2, <2>3, <2>4
<1> QED BY <1>1, <1>2

LEMMA IdleLedger ==
  ASSUME LedgerInv, UNCHANGED ledger,
         step' \notin ImportSteps \/ (step \in ImportSteps /\ UNCHANGED op)
  PROVE  LedgerInv'
<1>1. LedgerWellFormed' /\ \A rid \in Rids : \E k \in Nat : (Versions(rid) = 1..k)'
  BY DEF LedgerInv, LedgerWellFormed, Versions
<1>2. step' \in ImportSteps => Incoming'
  BY DEF LedgerInv, Incoming, Acceptable, CurrentVersion, Versions
<1> QED BY <1>1, <1>2 DEF LedgerInv, ImportSteps

(* What submit checks before its first write is Incoming.                  *)
LEMMA SubmitLedger ==
  ASSUME LedgerInv, NEW rec, SubmitRecord(rec), rec.target # NoTarget => rec.version = 1
  PROVE  LedgerInv'
<1> DEFINE o == [NoOp EXCEPT !.rec = rec, !.answer = "imported"]
<1>1. CASE Refuse("fault") \/ Reimport
  BY <1>1, IdleLedger DEF Refuse, Answer, Reimport, Begin, durable, ImportSteps
<1>2. CASE /\ \A r \in ledger : r.event # rec.event
           /\ Acceptable(rec)
           /\ Begin(FirstImportStep, o)
  <2>1. op'.rec = rec /\ UNCHANGED ledger
    BY <1>2 DEF Begin, NoOp, durable
  <2>2. Incoming'
    BY <1>2, <2>1 DEF Incoming, Acceptable, CurrentVersion, Versions
  <2>3. LedgerWellFormed' /\ \A rid \in Rids : \E k \in Nat : (Versions(rid) = 1..k)'
    BY <2>1 DEF LedgerInv, LedgerWellFormed, Versions
  <2> QED BY <2>2, <2>3 DEF LedgerInv
<1>3. CASE Begin(FirstImportStep, o) /\ {r \in ledger : r.event = rec.event} = {}
           /\ Acceptable(rec)
  BY <1>2, <1>3
<1> QED BY <1>1, <1>3 DEF SubmitRecord

LEMMA RequestLedger ==
  ASSUME LedgerInv,
         \/ \E rid, e, x, t : Submit(rid, e, x, t)
         \/ \E e, n, a, t : Correct(e, n, a, t)
         \/ \E j, snap, entries : Publish(j, snap, entries)
         \/ \E j : Recover(j)
         \/ \E e, n, x : Restore(e, n, x)
         \/ Reindex
  PROVE  LedgerInv'
<1>1. ASSUME NEW a, Refuse(a) PROVE LedgerInv'
  BY <1>1, IdleLedger DEF Refuse, Answer, durable, ImportSteps
<1>2. ASSUME NEW s, s \notin ImportSteps, NEW o, Begin(s, o) PROVE LedgerInv'
  BY <1>2, IdleLedger DEF Begin, durable
<1>3. CASE \E rid, e, x, t : Submit(rid, e, x, t)
  BY <1>3, SubmitLedger DEF Submit, Record
<1>4. CASE \E e, n, a, t : Correct(e, n, a, t)
  BY <1>1, <1>4, SubmitLedger DEF Correct, Record
<1>5. CASE \E j, snap, entries : Publish(j, snap, entries)
  BY <1>1, <1>2, <1>5 DEF Publish, Commit, ImportSteps
<1>6. CASE (\E j : Recover(j)) \/ Reindex
  BY <1>2, <1>6 DEF Recover, Reindex, ImportSteps
<1>7. CASE \E e, n, x : Restore(e, n, x)
  BY <1>1, <1>2, <1>7 DEF Restore, Commit, ImportSteps
<1> QED BY <1>3, <1>4, <1>5, <1>6, <1>7

(* The rename that commits an original: the only step that matters.        *)
LEMMA CommitRecordLedger == ASSUME TypeOK, LedgerInv, CommitRecord PROVE LedgerInv'
<1> DEFINE rec == op.rec
           old == Versions(rec.rid)
<1>1. /\ rec \in Records /\ ledger \subseteq Records /\ Incoming
      /\ ledger' = ledger \cup {rec} /\ step' = "index"
  BY DEF CommitRecord, TypeOK, StoreTypeOK, OpTypeOK, ImportSteps, LedgerInv
<1>2. \A r \in ledger' : r.rid \in Rids /\ r.version \in Nat
  BY <1>1 DEF Records
<1>3. PICK k \in Nat : old = 1..k
  BY <1>1, <1>2 DEF LedgerInv
<1>4. /\ rec.version = k + 1
      /\ \A r \in ledger : r.rid = rec.rid => r.target = NoTarget /\ r.version <= k
  BY <1>1, <1>3, CurrentVersionIs DEF Incoming, Acceptable, Versions
<1>5. rec.target # NoTarget => \A r \in ledger : r.rid # rec.rid
  <2>1. ASSUME rec.target # NoTarget, NEW r \in ledger, r.rid = rec.rid PROVE FALSE
    <3>1. k = 0 /\ r.version \in old
      BY <1>1, <1>4, <2>1 DEF Incoming, Versions
    <3> QED BY <1>3, <3>1
  <2> QED BY <2>1
<1>6. \A rid : Versions(rid)' = IF rid = rec.rid THEN Versions(rid) \cup {k + 1} ELSE Versions(rid)
  BY <1>1, <1>4 DEF Versions
<1>7. \A rid \in Rids : \E n \in Nat : (Versions(rid) = 1..n)'
  <2>1. (1..k) \cup {k + 1} = 1..(k + 1)
    BY <1>3
  <2>2. ASSUME NEW rid \in Rids PROVE \E n \in Nat : Versions(rid)' = 1..n
    <3>1. CASE rid = rec.rid
      <4>1. Versions(rid) = 1..k
        BY <1>3, <3>1 DEF Versions
      <4>2. Versions(rid)' = 1..(k + 1)
        BY <1>6, <2>1, <3>1, <4>1
      <4>3. k + 1 \in Nat
        BY <1>3
      <4> QED BY <4>2, <4>3
    <3>2. CASE rid # rec.rid
      BY <1>6, <3>2 DEF LedgerInv
    <3> QED BY <3>1, <3>2
  <2> QED BY <2>2
<1>8. \A r, s \in ledger' : r.event = s.event => r = s
  BY <1>1 DEF Incoming, LedgerInv, LedgerWellFormed
<1>9. \A r, s \in ledger' : r.rid = s.rid /\ r.version = s.version => r = s
  BY <1>1, <1>2, <1>4 DEF LedgerInv, LedgerWellFormed
<1>10. \A r \in ledger' : \A n \in 1..r.version : n \in Versions(r.rid)'
  <2>1. ASSUME NEW r \in ledger', NEW n \in 1..r.version PROVE n \in Versions(r.rid)'
    <3>1. PICK m \in Nat : Versions(r.rid)' = 1..m
      BY <1>2, <1>7
    <3>2. r.version \in Versions(r.rid)'
      BY DEF Versions
    <3> QED BY <1>2, <3>1, <3>2
  <2> QED BY <2>1
<1>11. \A r, s \in ledger' : r.rid = s.rid /\ r.target # NoTarget => r = s
  BY <1>1, <1>4, <1>5 DEF LedgerInv, LedgerWellFormed
<1> QED BY <1>1, <1>7, <1>8, <1>9, <1>10, <1>11 DEF LedgerInv, LedgerWellFormed, ImportSteps

LEMMA NextLedger == ASSUME TypeOK, LedgerInv, [Next]_vars PROVE LedgerInv'
<1>1. CASE \/ WithdrawReview \/ WithdrawEntry \/ Index
           \/ Ensure \/ CommitVersion \/ ActivateReview \/ ActivateEntry
  BY <1>1, IdleLedger DEF WithdrawReview, WithdrawEntry, Index, Answer, Ensure, CommitVersion,
     ActivateReview, ActivateEntry, ImportSteps
<1>2. CASE CommitRecord
  BY <1>2, CommitRecordLedger
<1>3. CASE Fail \/ Crash \/ Restart \/ Serve \/ UNCHANGED vars
  BY <1>3, IdleLedger DEF Fail, Crash, Restart, Serve, Answer, durable, vars, ImportSteps
<1> QED BY <1>1, <1>2, <1>3, RequestLedger DEF Next, Operation, Fault

(* Whatever was imported, corrected and retried, and wherever the process  *)
(* died, the ledger passes the checks without which the vault would not    *)
(* open again.                                                             *)
THEOREM LedgerAlwaysWellFormed == Spec => []LedgerWellFormed
<1>1. Init => LedgerInv
  BY InitLedger
<1>2. TypeOK /\ LedgerInv /\ [Next]_vars => LedgerInv'
  BY NextLedger
<1>3. LedgerInv => LedgerWellFormed
  BY DEF LedgerInv
<1> QED BY <1>1, <1>2, <1>3, TypeCorrect, PTL DEF Spec

-----------------------------------------------------------------------------
(* AnswersHold speaks of idle moments only.  AnswerInv says what each      *)
(* operation has already done when it reaches its last write, INDEX.md:    *)
(* an import leaves the pages withdrawn, or the project had none.          *)
AnswerInv ==
  /\ AnswersHold
  /\ reply # "none" => step = "idle"
  /\ phase = "down" => step = "idle" /\ reply = "none"
  /\ step \in ImportSteps => op.answer = "imported"
  /\ step \in {"withdrawEntry", "commitRecord"} => review \/ ~registered
  /\ step \in CommitSteps => /\ op.answer \in {"published", "restored"}
                             /\ op.answer = "published" <=> op.draft.status = "current"
  /\ step \in ActivateSteps /\ op.answer \in {"published", "restored"} =>
       /\ op.version = Len(versions)
       /\ op.answer = "published" <=> versions[Len(versions)].status = "current"
  /\ step = "activateEntry" /\ op.answer = "published" => ~review
  /\ step \in {"idle", "index"} \cup ImportSteps \cup CommitSteps \cup ActivateSteps
  /\ step \in ActivateSteps => op.answer # "imported"
  /\ step = "index" /\ op.answer = "published" => IsCurrent /\ entryFile = Len(versions)
  /\ step = "index" /\ op.answer \in {"imported", "restored"} => ~IsCurrent /\ entryFile = 0

LEMMA InitAnswer == Init => AnswerInv
  BY DEF Init, AnswerInv, AnswersHold, ImportSteps, CommitSteps, ActivateSteps

(* An operation begins without an answer.                                  *)
LEMMA BeginAnswer ==
  ASSUME AnswerInv, NEW s \in {"index"} \cup ImportSteps \cup CommitSteps \cup ActivateSteps,
         NEW o, Begin(s, o), phase # "down",
         s \in {"withdrawEntry", "commitRecord"} => ~registered,
         s # "activateEntry",
         s \in ImportSteps => o.answer = "imported",
         s = "index" => o.answer \notin {"imported", "published", "restored"},
         s \in CommitSteps => /\ o.answer \in {"published", "restored"}
                              /\ o.answer = "published" <=> o.draft.status = "current",
         s \in ActivateSteps => o.answer = "alreadyPublished"
  PROVE  AnswerInv'
<1>1. /\ step' = s /\ op' = o /\ reply' = "none"
      /\ UNCHANGED <<registered, versions, review, phase>>
  BY DEF Begin, durable
<1>2. AnswersHold'
  BY <1>1 DEF AnswersHold
<1> QED BY <1>1, <1>2 DEF AnswerInv, ImportSteps, CommitSteps, ActivateSteps

LEMMA RefuseAnswer ==
  ASSUME AnswerInv, phase = "up",
         NEW a \in {"fault", "alreadyPublished", "alreadyRestored"}, Refuse(a)
  PROVE  AnswerInv'
  BY DEF Refuse, Answer, AnswerInv, AnswersHold, ImportSteps, CommitSteps, ActivateSteps

LEMMA SubmitAnswer ==
  ASSUME AnswerInv, phase = "up", NEW rec, SubmitRecord(rec)
  PROVE  AnswerInv'
<1>1. CASE Refuse("fault")
  BY <1>1, RefuseAnswer
<1>2. CASE Reimport
  <2> DEFINE o == [NoOp EXCEPT !.answer = "alreadyImported"]
  <2>1. o.answer = "alreadyImported" /\ Begin("index", o)
    BY <1>2 DEF NoOp, Reimport
  <2> HIDE DEF o
  <2> QED BY <2>1, BeginAnswer DEF ImportSteps, CommitSteps, ActivateSteps
<1>3. CASE Begin(FirstImportStep, [NoOp EXCEPT !.rec = rec, !.answer = "imported"])
  <2> DEFINE o == [NoOp EXCEPT !.rec = rec, !.answer = "imported"]
  <2>1. o.answer = "imported" /\ Begin(FirstImportStep, o)
    BY <1>3 DEF NoOp
  <2>2. /\ FirstImportStep \in {"withdrawReview", "commitRecord"}
        /\ FirstImportStep = "commitRecord" => ~registered
    BY DEF FirstImportStep
  <2> HIDE DEF o
  <2> QED BY <2>1, <2>2, BeginAnswer DEF ImportSteps, CommitSteps, ActivateSteps
<1> QED BY <1>1, <1>2, <1>3 DEF SubmitRecord

LEMMA CommitAnswer ==
  ASSUME AnswerInv, NEW draft, NEW a \in {"published", "restored"},
         a = "published" <=> draft.status = "current", Commit(draft, a),
         phase # "down"
  PROVE  AnswerInv'
<1> DEFINE o == [NoOp EXCEPT !.draft = draft, !.answer = a]
<1>1. o.answer = a /\ o.draft = draft
  BY DEF NoOp
<1>2. \/ Begin("commitVersion", o) \/ Begin("ensure", o)
  BY DEF Commit
<1> HIDE DEF o
<1> QED BY <1>1, <1>2, BeginAnswer DEF ImportSteps, CommitSteps, ActivateSteps

LEMMA ActivationAnswer ==
  ASSUME AnswerInv, phase # "down", NEW n,
         Begin("activateReview", Activation(n, "alreadyPublished"))
  PROVE  AnswerInv'
<1>1. Activation(n, "alreadyPublished").answer = "alreadyPublished"
  BY DEF Activation, NoOp
<1> QED BY <1>1, BeginAnswer DEF ImportSteps, CommitSteps, ActivateSteps

LEMMA RequestAnswer ==
  ASSUME AnswerInv,
         \/ \E rid, e, x, t : Submit(rid, e, x, t)
         \/ \E e, n, a, t : Correct(e, n, a, t)
         \/ \E j, snap, entries : Publish(j, snap, entries)
         \/ \E j : Recover(j)
         \/ \E e, n, x : Restore(e, n, x)
         \/ Reindex
  PROVE  AnswerInv'
<1>1. CASE \E rid, e, x, t : Submit(rid, e, x, t)
  BY <1>1, SubmitAnswer DEF Submit, Free
<1>2. CASE \E e, n, a, t : Correct(e, n, a, t)
  BY <1>2, SubmitAnswer, RefuseAnswer DEF Correct, Free
<1>3. ASSUME NEW j, NEW snap, NEW entries, Publish(j, snap, entries) PROVE AnswerInv'
  <2>1. CASE Commit(Draft(Sig, entries, "current", j, 0), "published")
    BY <1>3, <2>1, CommitAnswer DEF Draft, Publish, Free
  <2> QED BY <1>3, <2>1, RefuseAnswer, ActivationAnswer DEF Publish, Free
<1>4. CASE \E j : Recover(j)
  BY <1>4, ActivationAnswer DEF Recover
<1>5. ASSUME NEW e, NEW n, NEW x, Restore(e, n, x) PROVE AnswerInv'
  <2>1. CASE Commit(Draft(versions[n].sig, versions[n].entries, "pending-review", e, n), "restored")
    BY <1>5, <2>1, CommitAnswer DEF Draft, Restore, Free
  <2> QED BY <1>5, <2>1, RefuseAnswer DEF Restore, Free
<1>6. CASE Reindex
  <2> DEFINE o == [NoOp EXCEPT !.answer = "reindexed"]
  <2>1. o.answer = "reindexed" /\ Begin("index", o)
    BY <1>6 DEF NoOp, Reindex
  <2>2. phase # "down"
    BY <1>6 DEF Reindex, Free
  <2> HIDE DEF o
  <2> QED BY <2>1, <2>2, BeginAnswer DEF ImportSteps, CommitSteps, ActivateSteps
<1> QED BY <1>1, <1>2, <1>3, <1>4, <1>5, <1>6

LEMMA StepAnswer ==
  ASSUME TypeOK, EntryInv, AnswerInv,
         \/ WithdrawReview \/ WithdrawEntry \/ CommitRecord \/ Index
         \/ Ensure \/ CommitVersion \/ ActivateReview \/ ActivateEntry
  PROVE  AnswerInv'
<1> USE DEF ImportSteps, CommitSteps, ActivateSteps
<1>0. versions \in Seq(VersionRecords) /\ Len(versions) \in Nat
  BY DEF TypeOK, StoreTypeOK
<1>1. CASE WithdrawReview
  BY <1>1 DEF WithdrawReview, AnswerInv, AnswersHold
<1>2. CASE WithdrawEntry
  BY <1>2 DEF WithdrawEntry, AnswerInv, AnswersHold
<1>3. CASE CommitRecord
  <2>1. entryFile = 0 /\ (review \/ versions = <<>>)
    BY <1>3 DEF CommitRecord, AnswerInv, EntryInv
  <2>2. ~IsCurrent' /\ entryFile' = 0
    BY <1>3, <2>1 DEF CommitRecord, IsCurrent
  <2> QED BY <1>3, <2>2 DEF CommitRecord, AnswerInv, AnswersHold
<1>4. CASE Index
  <2>1. IsCurrent' <=> IsCurrent
    BY <1>4 DEF Index, IsCurrent, Sig
  <2>2. /\ step = "index" /\ step' = "idle" /\ reply' = op.answer /\ phase' = phase
        /\ indexed' = [records |-> ledger, linked |-> registered]
        /\ UNCHANGED <<ledger, registered, versions, review, entryFile>>
    BY <1>4 DEF Index, Answer
  <2>3. /\ op.answer = "published" => IsCurrent /\ entryFile = Len(versions)
        /\ op.answer \in {"imported", "restored"} => ~IsCurrent /\ entryFile = 0
    BY <2>2 DEF AnswerInv
  <2>4. AnswersHold'
    BY <2>1, <2>2, <2>3 DEF AnswersHold
  <2>5. phase # "down"
    BY <1>4, <2>2 DEF AnswerInv
  <2> QED BY <2>2, <2>4, <2>5 DEF AnswerInv
<1>5. CASE Ensure
  BY <1>5 DEF Ensure, AnswerInv, AnswersHold
<1>6. CASE CommitVersion
  <2>1. /\ Len(versions') = Len(versions) + 1 /\ versions'[Len(versions) + 1] = op.draft
        /\ op'.version = Len(versions) + 1 /\ op'.answer = op.answer
        /\ step' = "activateReview" /\ step = "commitVersion" /\ reply' = reply
    BY <1>0, <1>6 DEF CommitVersion, Activation, NoOp
  <2>2. AnswersHold'
    BY <2>1 DEF AnswerInv, AnswersHold
  <2>3. /\ op.answer \in {"published", "restored"}
        /\ op.answer = "published" <=> op.draft.status = "current"
        /\ reply = "none"
    BY <2>1 DEF AnswerInv
  <2>4. /\ op'.version = Len(versions')
        /\ op'.answer = "published" <=> versions'[Len(versions')].status = "current"
    BY <1>0, <2>1, <2>3
  <2>5. step' = "activateReview" /\ reply' = "none" /\ phase # "down" /\ phase' = phase
    BY <1>6, <2>1, <2>3 DEF CommitVersion, AnswerInv
  <2>6. step' \notin {"idle", "index", "activateEntry"} \cup ImportSteps \cup CommitSteps
    BY <2>5
  <2> QED BY <2>1, <2>2, <2>3, <2>4, <2>5, <2>6 DEF AnswerInv
<1>7. CASE ActivateReview
  BY <1>7 DEF ActivateReview, AnswerInv, AnswersHold
<1>8. CASE ActivateEntry
  <2>1. /\ step = "activateEntry" /\ step' = "index" /\ op' = op /\ reply' = reply
        /\ UNCHANGED <<ledger, versions, review, phase>> /\ Sig' = Sig
    BY <1>8 DEF ActivateEntry, Sig
  <2>2. AnswersHold'
    BY <2>1 DEF AnswerInv, AnswersHold
  <2>3. op.answer = "published" => IsCurrent' /\ entryFile' = Len(versions')
    <3>1. ASSUME op.answer = "published" PROVE IsCurrent' /\ entryFile' = Len(versions')
      <4>1. op.version = Len(versions) /\ versions[Len(versions)].status = "current" /\ ~review
        BY <2>1, <3>1 DEF AnswerInv
      <4>2. versions[Len(versions)].sig = Sig
        BY <2>1, <4>1 DEF EntryInv
      <4>3. versions # <<>>
        BY <1>0, <2>1, <4>1 DEF TypeOK, OpTypeOK
      <4> QED BY <1>8, <2>1, <4>1, <4>2, <4>3 DEF ActivateEntry, IsCurrent
    <3> QED BY <3>1
  <2>4. op.answer \in {"imported", "restored"} => ~IsCurrent' /\ entryFile' = 0
    BY <1>8, <2>1 DEF ActivateEntry, AnswerInv, IsCurrent
  <2> QED BY <2>1, <2>2, <2>3, <2>4 DEF AnswerInv
<1> QED BY <1>1, <1>2, <1>3, <1>4, <1>5, <1>6, <1>7, <1>8

LEMMA NextAnswer == ASSUME TypeOK, EntryInv, AnswerInv, [Next]_vars PROVE AnswerInv'
<1> USE DEF ImportSteps, CommitSteps, ActivateSteps
<1>1. CASE Fail \/ Crash
  BY <1>1 DEF Fail, Crash, Answer, AnswerInv, AnswersHold
<1>2. CASE Restart \/ Serve \/ UNCHANGED vars
  <2>1. /\ UNCHANGED <<ledger, registered, versions, review, entryFile, step, op>>
        /\ reply' = reply \/ reply' = "none"
    BY <1>2 DEF Restart, Serve, vars, durable
  <2>2. IsCurrent' <=> IsCurrent
    BY <2>1 DEF IsCurrent, Sig
  <2>3. UNCHANGED indexed \/ reply' = "none"
    BY <1>2 DEF Restart, Serve, vars, durable, AnswerInv
  <2>4. AnswersHold'
    BY <2>1, <2>2, <2>3 DEF AnswerInv, AnswersHold
  <2>5. phase' = "down" => step' = "idle" /\ reply' = "none"
    BY <1>2 DEF Restart, Serve, vars, AnswerInv
  <2>6. reply' # "none" => step' = "idle"
    BY <2>1 DEF AnswerInv
  <2> QED BY <2>1, <2>2, <2>4, <2>5, <2>6 DEF AnswerInv
<1> QED BY <1>1, <1>2, RequestAnswer, StepAnswer DEF Next, Operation, Fault

(* Whatever was interrupted before: an operation that answers that it      *)
(* imported, published or restored leaves INDEX.md complete, and CURRENT.md *)
(* and the view as that answer says.                                       *)
THEOREM AnswersAlwaysHold == Spec => []AnswersHold
<1>1. Init => EntryInv /\ AnswerInv
  BY InitEntry, InitAnswer
<1>2. TypeOK /\ EntryInv /\ AnswerInv /\ [Next]_vars => EntryInv' /\ AnswerInv'
  BY NextEntry, NextAnswer
<1>3. AnswerInv => AnswersHold
  BY DEF AnswerInv
<1> QED BY <1>1, <1>2, <1>3, TypeCorrect, PTL DEF Spec
=============================================================================
