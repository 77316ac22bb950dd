----------------------------- MODULE Knowledge -----------------------------
(***************************************************************************)
(* The durable state of one project in one vault and every operation that  *)
(* changes it: import of an original (Vault.submit), human correction,     *)
(* publication of a knowledge version, restore of an old one, and the      *)
(* recovery after a restart.                                               *)
(*                                                                         *)
(* Each operation runs under Vault.lock, so one operation at a time is in  *)
(* progress; its file writes are separate steps because a reader of the    *)
(* folder sees every intermediate state and because the process may die    *)
(* (Crash) or a write may be refused (Fail) between any two of them.  A    *)
(* directory becomes visible by one rename (SafeFS.publish) and a control  *)
(* file is replaced by one rename (atomic_control), so each is one step.   *)
(***************************************************************************)
EXTENDS Anchors

CONSTANTS
  CorrectionEvents,  \* events of the human-correction tool
  Jobs,              \* steward job ids
  RestoreEvents,     \* ids of restore requests
  None               \* an absent value

ASSUME EventsAssumption == CorrectionEvents \subseteq Events \cap Rids
ASSUME PublishersAssumption == Jobs \cap RestoreEvents = {}

VARIABLES
  ledger,      \* originals/: the committed source records
  indexed,     \* INDEX.md: the records and the project link it lists
  registered,  \* the project directory exists under knowledge/projects
  versions,    \* versions/v1.., immutable once renamed into place
  review,      \* review.json: pending
  entryFile,   \* CURRENT.md: the version it presents as current, or 0
  phase,       \* "down", "booting", "up": the service process
  step,        \* next write of the operation that holds Vault.lock
  op,          \* its data
  reply        \* how the last finished operation was answered

durable == <<ledger, indexed, registered, versions, review, entryFile>>
vars == <<ledger, indexed, registered, versions, review, entryFile,
          phase, step, op, reply>>

-----------------------------------------------------------------------------
(* Records and versions.  The hash of a submission covers everything but   *)
(* the version the ledger gives it, and that is expectedVersion + 1: equal *)
(* request hashes are equal records.                                       *)
Record(rid, version, event, text, target, about) ==
  [rid |-> rid, version |-> version, event |-> event, text |-> text,
   target |-> target, about |-> about]

Versions(rid) == {r.version : r \in {s \in ledger : s.rid = rid}}

CurrentVersion(rid) ==
  IF Versions(rid) = {} THEN 0
  ELSE CHOOSE n \in Versions(rid) : \A m \in Versions(rid) : m <= n

Sig == Vector(ledger)
Sources == Latest(ledger)

Draft(sig, entries, status, job, restores) ==
  [sig |-> sig, entries |-> entries, status |-> status, job |-> job,
   restores |-> restores, expected |-> Len(versions)]

PublishedByLatest(job) == {n \in {Len(versions)} \ {0} : versions[n].job = job}

PublishedBy(job) == {n \in 1..Len(versions) : versions[n].job = job}

(* Knowledge.current(): the status it gives the latest version.            *)
IsCurrent ==
  /\ versions # <<>>
  /\ versions[Len(versions)].status = "current"
  /\ versions[Len(versions)].sig = Sig
  /\ ~review

NoOp == [rec |-> None, draft |-> None, version |-> 0, answer |-> "none"]

Free == phase = "up" /\ step = "idle"

-----------------------------------------------------------------------------
Init ==
  /\ ledger = {}
  /\ indexed = [records |-> {}, linked |-> FALSE]
  /\ registered = FALSE
  /\ versions = <<>>
  /\ review = FALSE
  /\ entryFile = 0
  /\ phase = "up"
  /\ step = "idle"
  /\ op = NoOp
  /\ reply = "none"

Begin(s, o) ==
  /\ step' = s
  /\ op' = o
  /\ reply' = "none"
  /\ UNCHANGED <<durable, phase>>

Answer(a) ==
  /\ step' = "idle"
  /\ op' = NoOp
  /\ reply' = a

(* A request that changes nothing: answered at once.                       *)
Refuse(a) == Answer(a) /\ UNCHANGED <<durable, phase>>

-----------------------------------------------------------------------------
(* invalidate_before_import does nothing for a project without knowledge.  *)
FirstImportStepDirect == "commitRecord"
FirstImportStep == IF registered THEN "withdrawReview" ELSE "commitRecord"

AcceptableAnyVersion(rec) == \A r \in ledger : r.rid = rec.rid => r.target = NoTarget

(* CORRECTION_READ_ONLY and VERSION_CONFLICT.                              *)
AcceptableAnyRid(rec) == rec.version = CurrentVersion(rec.rid) + 1
Acceptable(rec) ==
  /\ \A r \in ledger : r.rid = rec.rid => r.target = NoTarget
  /\ rec.version = CurrentVersion(rec.rid) + 1

(* The retry of a committed event rewrites INDEX.md before it is answered. *)
ReimportSilently == Refuse("alreadyImported")
Reimport == Begin("index", [NoOp EXCEPT !.answer = "alreadyImported"])

(* Vault.submit up to its first write.                                     *)
SubmitRecord(rec) ==
  LET seen == {r \in ledger : r.event = rec.event} IN
  \/ rec \in seen /\ Reimport
  \/ seen # {} /\ rec \notin seen /\ Refuse("fault")       \* EVENT_CONFLICT
  \/ seen = {} /\ ~Acceptable(rec) /\ Refuse("fault")
  \/ /\ seen = {} /\ Acceptable(rec)
     /\ Begin(FirstImportStep, [NoOp EXCEPT !.rec = rec, !.answer = "imported"])

Submit(rid, event, expected, text) ==
  /\ Free
  /\ SubmitRecord(Record(rid, expected + 1, event, text, NoTarget, 0))

CorrectableLatest(event, about) == about = Len(versions)
Correctable(event, about) ==
  \/ \E r \in ledger : r.event = event
  \/ about = Len(versions) /\ IsCurrent

(* Knowledge.corrections: only an entry of the version that is current may *)
(* be corrected, except when the event is already registered (a retry).    *)
Correct(event, about, target, text) ==
  /\ Free
  /\ event \in CorrectionEvents
  /\ about \in 1..Len(versions)
  /\ IF /\ target \in versions[about].entries
        /\ Correctable(event, about)
     THEN SubmitRecord(Record(event, 1, event, text, target, about))
     ELSE Refuse("fault")

(* Vault.rebuild, as a request.                                            *)
Reindex == Free /\ Begin("index", [NoOp EXCEPT !.answer = "reindexed"])

(* invalidate_before_import, the rename of the staged original, entry().   *)
WithdrawReview ==
  /\ step = "withdrawReview"
  /\ review' = TRUE
  /\ step' = "withdrawEntry"
  /\ UNCHANGED <<ledger, indexed, registered, versions, entryFile,
                 phase, op, reply>>

WithdrawEntry ==
  /\ step = "withdrawEntry"
  /\ entryFile' = 0
  /\ step' = "commitRecord"
  /\ UNCHANGED <<ledger, indexed, registered, versions, review,
                 phase, op, reply>>

CommitRecord ==
  /\ step = "commitRecord"
  /\ ledger' = ledger \cup {op.rec}
  /\ step' = "index"
  /\ UNCHANGED <<indexed, registered, versions, review, entryFile,
                 phase, op, reply>>

Index ==
  /\ step = "index"
  /\ indexed' = [records |-> ledger, linked |-> registered]
  /\ Answer(op.answer)
  /\ UNCHANGED <<ledger, registered, versions, review, entryFile, phase>>

-----------------------------------------------------------------------------
Activation(n, answer) == [NoOp EXCEPT !.version = n, !.answer = answer]

Commit(draft, answer) ==
  Begin(IF registered THEN "commitVersion" ELSE "ensure",
        [NoOp EXCEPT !.draft = draft, !.answer = answer])

(* What Knowledge.snapshot freezes for a job: the vector it signed and the *)
(* number of versions then.  (The sources themselves follow from it.)      *)
Snapshot == [sig |-> Sig, expected |-> Len(versions)]

(* Knowledge.publish up to its first write.  A job's snapshot may be as    *)
(* old as it likes; entries are validated against the sources of now.      *)
Publish(j, snap, entries) ==
  /\ Free
  /\ \/ \E n \in PublishedBy(j) :
          IF versions[n].sig # snap.sig THEN Refuse("fault")     \* JOB_CONFLICT
          ELSE IF n = Len(versions) /\ Sig = versions[n].sig
               THEN Begin("activateReview", Activation(n, "alreadyPublished"))
               ELSE Refuse("alreadyPublished")
     \/ /\ PublishedBy(j) = {}
        /\ IF snap = Snapshot /\ Readable(ledger) /\ Valid(Sources, entries)
           THEN Commit(Draft(Sig, entries, "current", j, 0), "published")
           ELSE Refuse("fault")         \* STALE_INPUT or a validation fault

(* Knowledge.recover_committed.                                            *)
Recover(j) ==
  /\ phase # "down" /\ step = "idle"
  /\ Len(versions) \in PublishedBy(j)
  /\ versions[Len(versions)].status = "current"
  /\ versions[Len(versions)].sig = Sig
  /\ Begin("activateReview", Activation(Len(versions), "alreadyPublished"))

(* Knowledge.restore: a copy of an old version becomes the latest one, to  *)
(* be reviewed before it counts.                                           *)
Restore(e, n, expected) ==
  /\ Free
  /\ \/ \E m \in PublishedBy(e) :
          Refuse(IF versions[m].expected = expected /\ versions[m].restores = n
                 THEN "alreadyRestored" ELSE "fault")
     \/ /\ PublishedBy(e) = {}
        /\ IF expected = Len(versions) /\ n \in 1..Len(versions)
           THEN Commit(Draft(versions[n].sig, versions[n].entries,
                             "pending-review", e, n), "restored")
           ELSE Refuse("fault")

(* _ensure: the project directory with its initial control files.          *)
Ensure ==
  /\ step = "ensure"
  /\ registered' = TRUE
  /\ review' = TRUE
  /\ entryFile' = 0
  /\ step' = "commitVersion"
  /\ UNCHANGED <<ledger, indexed, versions, phase, op, reply>>

CommitVersionUnwritten ==
  /\ step = "commitVersion"
  /\ step' = "activateReview"
  /\ op' = Activation(Len(versions) + 1, op.answer)
  /\ UNCHANGED <<ledger, indexed, registered, versions, review, entryFile,
                 phase, reply>>

CommitVersion ==
  /\ step = "commitVersion"
  /\ versions' = Append(versions, op.draft)
  /\ step' = "activateReview"
  /\ op' = Activation(Len(versions) + 1, op.answer)
  /\ UNCHANGED <<ledger, indexed, registered, review, entryFile, phase, reply>>

(* _activate, pending unless the version was published as current.         *)
ActivateReview ==
  /\ step = "activateReview"
  /\ review' = (versions[op.version].status # "current")
  /\ step' = "activateEntry"
  /\ UNCHANGED <<ledger, indexed, registered, versions, entryFile,
                 phase, op, reply>>

ActivateEntryAlways ==
  /\ step = "activateEntry"
  /\ entryFile' = op.version
  /\ step' = "index"
  /\ UNCHANGED <<ledger, indexed, registered, versions, review,
                 phase, op, reply>>

ActivateEntry ==
  /\ step = "activateEntry"
  /\ entryFile' = IF versions[op.version].status = "current" THEN op.version ELSE 0
  /\ step' = "index"
  /\ UNCHANGED <<ledger, indexed, registered, versions, review,
                 phase, op, reply>>

-----------------------------------------------------------------------------
(* A write is refused (disk full, permissions): the operation ends there.  *)
(* While booting the exception ends the process: that is Crash.  Past its  *)
(* commit point an import says that only the index is missing.             *)
Fail ==
  /\ phase = "up" /\ step # "idle"
  /\ Answer(IF step = "index" /\ op.answer = "imported" THEN "indexPending" ELSE "fault")
  /\ UNCHANGED <<durable, phase>>

Crash ==
  /\ phase # "down"
  /\ phase' = "down"
  /\ Answer("none")
  /\ UNCHANGED durable

(* Vault.__init__ rebuilds the index and writes INDEX.md.                  *)
Restart ==
  /\ phase = "down"
  /\ phase' = "booting"
  /\ indexed' = [records |-> ledger, linked |-> registered]
  /\ UNCHANGED <<ledger, registered, versions, review, entryFile,
                 step, op, reply>>

Serve ==
  /\ phase = "booting" /\ step = "idle"
  /\ phase' = "up"
  /\ reply' = "none"
  /\ UNCHANGED <<durable, step, op>>

-----------------------------------------------------------------------------
Cited == UNION {AnchorsOf(r) : r \in ledger}
NextVersions == 0..Cardinality(ledger)

Snapshots == [sig : {Sig} \cup {versions[n].sig : n \in DOMAIN versions},
              expected : {Len(versions)} \cup {versions[n].expected : n \in DOMAIN versions}]

(* A model may answer with any list of citations the validator would count.*)
(* The answer matters only when the snapshot is fresh.                     *)
Outputs(snap) ==
  {{}} \cup IF snap # Snapshot THEN {}
            ELSE {{f[i] : i \in 1..MaxEntries} : f \in [1..MaxEntries -> Cited]}

Operation ==
  \/ \E rid \in Rids, e \in Events, x \in NextVersions, t \in Texts : Submit(rid, e, x, t)
  \/ \E e \in CorrectionEvents, n \in DOMAIN versions, t \in Texts \ Unsupported :
       \E a \in Cited : Correct(e, n, a, t)
  \/ \E j \in Jobs, snap \in Snapshots :
       \E entries \in Outputs(snap) : Publish(j, snap, entries)
  \/ \E e \in RestoreEvents, n, x \in DOMAIN versions : Restore(e, n, x)
  \/ Reindex
  \/ WithdrawReview \/ WithdrawEntry \/ CommitRecord \/ Index
  \/ Ensure \/ CommitVersion \/ ActivateReview \/ ActivateEntry

Fault == Fail \/ Crash \/ Restart \/ Serve \/ \E j \in Jobs : Recover(j)

Next == Operation \/ Fault

Spec == Init /\ [][Next]_vars

(* The same without failures, for longer sequences of requests.            *)
FaultFreeSpec == Init /\ [][Operation]_vars

-----------------------------------------------------------------------------
(* The type invariant.  It also says where words come from: whatever a     *)
(* version quotes or a correction targets is text of a committed original. *)
Items == [rid : Rids, version : Nat, sha : Texts]

Records == [rid : Rids, version : Nat, event : Events, text : Texts,
            target : Cited \cup {NoTarget}, about : Nat]

VersionRecords == [sig : SUBSET Items, entries : SUBSET Cited,
                   status : {"current", "pending-review"},
                   job : Jobs \cup RestoreEvents, restores : Nat, expected : Nat]

Answers == {"none", "fault", "imported", "alreadyImported", "indexPending",
            "published", "alreadyPublished", "restored", "alreadyRestored", "reindexed"}

ImportSteps == {"withdrawReview", "withdrawEntry", "commitRecord"}
CommitSteps == {"ensure", "commitVersion"}
ActivateSteps == {"activateReview", "activateEntry"}

OpRecords == [rec : Records \cup {None}, draft : VersionRecords \cup {None},
              version : 0..Len(versions), answer : Answers]

StoreTypeOK ==
  /\ ledger \in SUBSET Records
  /\ indexed \in [records : SUBSET Records, linked : BOOLEAN]
  /\ registered \in BOOLEAN
  /\ versions \in Seq(VersionRecords)
  /\ review \in BOOLEAN
  /\ entryFile \in 0..Len(versions)
  /\ phase \in {"down", "booting", "up"}

OpTypeOK ==
  /\ step \in {"idle", "index"} \cup ImportSteps \cup CommitSteps \cup ActivateSteps
  /\ op \in OpRecords
  /\ step \in ImportSteps => op.rec \in Records
  /\ step \in CommitSteps => op.draft \in VersionRecords
  /\ step \in ActivateSteps => op.version # 0
  /\ reply \in Answers

TypeOK == StoreTypeOK /\ OpTypeOK

-----------------------------------------------------------------------------
(* What Vault.scan verifies before every operation and at every start: if  *)
(* it ever failed, the vault would refuse to open (LEDGER_CONFLICT).  Also *)
(* a correction stays the only version of its record, so its relation to   *)
(* the words it corrects is never rewritten.                               *)
LedgerWellFormed ==
  /\ \A r, s \in ledger : r.event = s.event => r = s
  /\ \A r, s \in ledger : r.rid = s.rid /\ r.version = s.version => r = s
  /\ \A r \in ledger : \A n \in 1..r.version : n \in Versions(r.rid)
  /\ \A r, s \in ledger : r.rid = s.rid /\ r.target # NoTarget => r = s

(* CURRENT.md never presents a version made from other sources than the    *)
(* committed ones, not even between two writes or after a crash: the       *)
(* reason invalidate_before_import precedes the rename of the original.    *)
NoStaleEntry ==
  entryFile # 0 =>
    /\ versions[entryFile].sig = Sig
    /\ versions[entryFile].status = "current"

(* Knowledge that counts - in CURRENT.md, or in the view that search and   *)
(* context read - contains no corrected quotation and every correction     *)
(* that still holds, whatever was corrected, restored or retried before.   *)
Counts(n) == n = entryFile \/ (IsCurrent /\ n = Len(versions))
CorrectionsHold ==
  \A n \in DOMAIN versions : Counts(n) =>
    /\ \A r \in Corrections(ledger), a \in versions[n].entries : ~Overlap(r.target, a)
    /\ \A r \in Corrections(ledger) :
         \/ WholeAnchor(r) \in versions[n].entries
         \/ \E s \in Corrections(ledger) : s.target = WholeAnchor(r)

(* A job or a restore request adds at most one version, however often it   *)
(* is retried and whatever was published in between.                       *)
PublishedOnce ==
  \A m, n \in DOMAIN versions : versions[m].job = versions[n].job => m = n

(* What an operation was answered is what a reader finds afterwards.       *)
AnswersHold ==
  /\ reply \in {"imported", "alreadyImported", "reindexed", "published", "restored"} =>
       indexed = [records |-> ledger, linked |-> registered]
  /\ reply = "published" => IsCurrent /\ entryFile = Len(versions)
  /\ reply \in {"imported", "restored"} => ~IsCurrent /\ entryFile = 0

(* A correction is committed only against words of the version that was    *)
(* current, made from exactly the sources the ledger still has then.       *)
CorrectsCurrentWords ==
  [][\A r \in ledger' \ ledger :
       r.target # NoTarget =>
         /\ r.about = Len(versions)
         /\ r.target \in versions[r.about].entries
         /\ versions[r.about].sig = Sig]_vars

(* "当前有效性请先查看 ../../CURRENT.md" (every version snapshot): once a restore is *)
(* answered, also to a retry, CURRENT.md no longer presents an older        *)
(* version as current.  Violated: the retry of a restore that stopped after *)
(* its commit is answered without writing CURRENT.md.                       *)
RestoreWithdrawsEntry ==
  reply \in {"restored", "alreadyRestored"} => entryFile \in {0, Len(versions)}

(* "A human correction can quote old wording to deny it. Its complete       *)
(* original statement is mandatory" (validate): whatever the snapshot       *)
(* demands of the model's answer, the validator accepts.  Violated: once a  *)
(* part of a correction has itself been corrected, the whole is demanded    *)
(* and refused, and no answer can be published any more.                    *)
DemandsAreAcceptable == \A a \in Required(Sources) : ~Rejected(Sources, a)

=============================================================================
