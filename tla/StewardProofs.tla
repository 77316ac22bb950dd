--------------------------- MODULE StewardProofs ---------------------------
(***************************************************************************)
(* Theorems about Steward, for every number of jobs, attempts and requests *)
(* and every queue limit.                                                  *)
(***************************************************************************)
EXTENDS CorrectionProofs, MCSteward, FiniteSetTheorems

-----------------------------------------------------------------------------
(* Cardinalities mean something here because nothing is infinite.          *)
LedgerFinite == IsFiniteSet(ledger)

LEMMA NextFinite == ASSUME LedgerFinite, [Next]_vars PROVE LedgerFinite'
<1>1. CASE CommitRecord
  BY <1>1, FS_AddElement DEF CommitRecord, LedgerFinite
<1>2. CASE UNCHANGED ledger
  BY <1>2 DEF LedgerFinite
<1> QED BY <1>1, <1>2, OnlyImportsCommit

LEMMA SpansFinite == ASSUME NEW t \in Texts PROVE IsFiniteSet(LineSpans(t))
<1>1. Len(t) \in Nat
  BY TextsAssumption
<1>2. IsFiniteSet(1..Len(t))
  BY <1>1, FS_Interval
<1>3. IsFiniteSet((1..Len(t)) \X (1..Len(t)))
  BY <1>2, FS_Product
<1> QED BY <1>3, FS_Subset DEF LineSpans

LEMMA AnchorsFinite == ASSUME NEW r, r.text \in Texts PROVE IsFiniteSet(AnchorsOf(r))
<1> DEFINE f == [ij \in LineSpans(r.text) |-> Anchor(r, ij[1], ij[2])]
<1>1. f \in Surjection(LineSpans(r.text), AnchorsOf(r))
  BY DEF Surjection, AnchorsOf
<1> QED BY <1>1, SpansFinite, FS_Surjection

LEMMA CitedFinite == ASSUME TypeOK, LedgerFinite PROVE IsFiniteSet(Cited)
<1> DEFINE S == {AnchorsOf(r) : r \in ledger}
           f == [r \in ledger |-> AnchorsOf(r)]
<1>1. f \in Surjection(ledger, S)
  BY DEF Surjection
<1>2. IsFiniteSet(S)
  BY <1>1, FS_Surjection DEF LedgerFinite
<1>3. \A T \in S : IsFiniteSet(T)
  BY AnchorsFinite DEF TypeOK, StoreTypeOK, Records
<1> HIDE DEF S
<1>4. IsFiniteSet(UNION S)
  BY <1>2, <1>3, FS_UNION
<1> QED BY <1>4 DEF S, Cited

(* A request can name the version its source has, or no version at all.    *)
LEMMA VersionsCounted ==
  ASSUME TypeOK, LedgerInv, LedgerFinite, NEW rid \in Rids
  PROVE  CurrentVersion(rid) \in NextVersions
<1>1. PICK k \in Nat : Versions(rid) = 1..k
  BY DEF LedgerInv
<1>2. CurrentVersion(rid) = k
  BY <1>1, CurrentVersionIs
<1> DEFINE R == {r \in ledger : r.rid = rid}
           f == [r \in R |-> r.version]
<1>3. IsFiniteSet(R) /\ Cardinality(R) <= Cardinality(ledger)
  BY FS_Subset DEF LedgerFinite
<1>4. f \in Surjection(R, 1..k)
  BY <1>1 DEF Surjection, Versions
<1>5. Cardinality(1..k) <= Cardinality(R)
  BY <1>3, <1>4, FS_Surjection
<1>6. Cardinality(1..k) = k
  BY FS_Interval
<1>7. Cardinality(ledger) \in Nat /\ Cardinality(R) \in Nat
  BY <1>3, FS_CardinalityType DEF LedgerFinite
<1> QED BY <1>2, <1>3, <1>5, <1>6, <1>7 DEF NextVersions

(* Every answer the validator accepts is one the model may give.           *)
LEMMA AcceptedOutputs ==
  ASSUME TypeOK, LedgerFinite, NEW entries, Valid(Sources, entries)
  PROVE  entries \in Outputs(Snapshot)
<1>1. entries \in SUBSET Cited
  BY ValidCited
<1>2. IsFiniteSet(entries) /\ entries # {} /\ Cardinality(entries) <= MaxEntries
  BY <1>1, CitedFinite, FS_Subset DEF Valid
<1> DEFINE n == Cardinality(entries)
<1>3. n \in Nat /\ MaxEntries \in Nat
  BY <1>2, FS_CardinalityType, LimitsAssumption
<1>4. n # 0
  BY <1>2, FS_EmptySet
<1>5. ExistsBijection(1..n, entries)
  BY <1>2, FS_CardinalityType
<1>6. PICK g \in Bijection(1..n, entries) : TRUE
  BY <1>5 DEF ExistsBijection
<1>7. g \in [1..n -> entries] /\ \A a \in entries : \E i \in 1..n : g[i] = a
  BY <1>6 DEF Bijection, Surjection
<1> HIDE DEF n
<1> DEFINE f == [i \in 1..MaxEntries |-> IF i <= n THEN g[i] ELSE g[1]]
<1>8. f \in [1..MaxEntries -> Cited]
  BY <1>1, <1>3, <1>4, <1>7
<1>9. n <= MaxEntries
  BY <1>2 DEF n
<1>10. {f[i] : i \in 1..MaxEntries} = entries
  <2>1. \A i \in 1..MaxEntries : f[i] \in entries
    BY <1>3, <1>4, <1>7
  <2>2. ASSUME NEW a \in entries PROVE \E i \in 1..MaxEntries : f[i] = a
    <3>1. PICK i \in 1..n : g[i] = a
      BY <1>7
    <3>2. i \in 1..MaxEntries /\ f[i] = a
      BY <1>3, <1>9, <3>1
    <3> QED BY <3>2
  <2> HIDE DEF f
  <2> QED BY <2>1, <2>2
<1> HIDE DEF f
<1> QED BY <1>8, <1>10 DEF Outputs

-----------------------------------------------------------------------------
(* The inductive invariant.  The worker's place decides what is true of    *)
(* the job in its hands.                                                   *)
Executing == {"check", "call", "called", "hash", "create", "write", "mark"}
Publishing == {"verify", "publish", "publishing"}

StewardTypes ==
  /\ status \in [Jobs -> Statuses]
  /\ attempt \in [Jobs -> Nat]
  /\ calls \in [Jobs -> Nat]
  /\ snapshot \in [Jobs -> {None} \cup SnapshotRecords]
  /\ hash \in [Jobs -> {None} \cup SUBSET Cited]
  /\ file \in [Jobs -> {None} \cup [complete : BOOLEAN, entries : SUBSET Cited]]
  /\ round \in {"none", "running", "completed", "interrupted"}
  /\ paused \in BOOLEAN /\ stopping \in BOOLEAN
  /\ late \in BOOLEAN /\ authorized \in BOOLEAN
  /\ pc \in Labels
  /\ order \in Seq(Jobs)
  /\ queue \in Seq(Jobs)

(* No job is twice in a queue; what the worker has left to do still has    *)
(* work, so that nobody else changes its status meanwhile.                 *)
QueueInv ==
  /\ \A i, k \in DOMAIN order : order[i] = order[k] => i = k
  /\ \A i \in DOMAIN order : status[order[i]] \notin {"absent", "alias"}
  /\ \A i, k \in DOMAIN queue : queue[i] = queue[k] => i = k
  /\ \A i \in DOMAIN queue : i > 1 \/ pc = "take" => HasWork(queue[i])
  /\ pc \in {"off", "recovering"} => queue = <<>>
  /\ pc \in Executing => queue # <<>> /\ status[Job] = "running"
  /\ pc \in Publishing => queue # <<>> /\ status[Job] = "candidate-ready"

PhaseInv ==
  /\ phase # "up" => pc \in {"off", "recovering"}
  /\ pc = "recovering" => phase = "booting"
  /\ enqueuing # None => /\ enqueuing \in Enqueuing
                         /\ status[enqueuing.job] = "absent"
                         /\ phase = "up" /\ pc # "publishing"

(* A status tells what queue.json and the candidate file hold of a job.    *)
JobInv ==
  \A j \in Jobs :
    /\ calls[j] <= attempt[j] /\ attempt[j] <= MaxAttempts
    /\ status[j] = "absent" => attempt[j] = 0 /\ file[j] = None
    /\ (status[j] \in {"absent", "alias"}) = (snapshot[j] = None)
    /\ status[j] = "queued" => attempt[j] < MaxAttempts /\ file[j] = None
    /\ status[j] = "candidate-ready" => file[j] # None

(* An attempt is spent before its call; the answer in memory, its hash in  *)
(* queue.json and the file agree from the step that writes each.           *)
WorkInv ==
  /\ pc \in {"check", "call"} => calls[Job] < attempt[Job]
  /\ pc \in {"hash", "create", "write", "mark"} => content \in SUBSET Cited
  /\ pc \in {"create", "write", "mark"} => content = hash[Job]
  /\ pc = "mark" => file[Job] = Candidate(content)
  /\ pc \in {"publish", "publishing"} => content = hash[Job] /\ file[Job] = Candidate(content)
  /\ pc = "publishing" => ~paused /\ ~stopping /\ authorized

(* A job whose version exists is over, or about to be called so - by the   *)
(* worker that published it, or by the next start.                         *)
Done(j) ==
  \/ status[j] \in {"committed", "failed"}
  \/ status[j] = "candidate-ready" /\ (phase # "up" \/ (pc = "publishing" /\ Job = j))

PublishedInv ==
  \A n \in DOMAIN versions : versions[n].job \in Jobs =>
    LET j == versions[n].job IN
    /\ versions[n].status = "current"
    /\ snapshot[j].expected = n - 1
    /\ versions[n].entries = hash[j]
    /\ file[j] = Candidate(hash[j])
    /\ Done(j)

CommittedInv == \A j \in Jobs : status[j] = "committed" => PublishedBy(j) # {}

PublishAnswers == {"published", "alreadyPublished"}

(* The version in the making is the worker's job's, until it is committed. *)
CommitInv ==
  /\ step \in CommitSteps /\ op.draft.job \in Jobs =>
       /\ pc = "publishing" /\ Job = op.draft.job
       /\ op.draft.status = "current" /\ op.draft.entries = content
       /\ snapshot[Job] = [sig |-> op.draft.sig, expected |-> Len(versions)]
  /\ pc = "publishing" /\ step \in CommitSteps /\ op.answer \in PublishAnswers =>
       op.draft.job \in Jobs
  /\ pc = "publishing" /\ step \in ActivateSteps \cup {"index"} /\ op.answer \in PublishAnswers =>
       PublishedBy(Job) # {}
  /\ pc = "publishing" /\ reply \in PublishAnswers => PublishedBy(Job) # {}

(* How far the repair of CURRENT.md has come.                              *)
RecoverInv ==
  pc = "recovering" =>
    /\ versions # <<>>
    /\ versions[Len(versions)].status = "current"
    /\ versions[Len(versions)].sig = Sig
    /\ step \in ActivateSteps \cup {"index", "idle"}
    /\ step \in ActivateSteps => op.version = Len(versions)
    /\ step # "activateReview" => ~review
    /\ step \in {"index", "idle"} => entryFile = Len(versions)

StewardInv ==
  /\ StewardTypes /\ QueueInv /\ PhaseInv /\ JobInv /\ WorkInv
  /\ PublishedInv /\ CommittedInv /\ CommitInv /\ RecoverInv

LEMMA InitSteward == SInit => StewardInv
<1> SUFFICES ASSUME SInit PROVE StewardInv
  OBVIOUS
<1>1. StewardTypes
  <2>1. /\ status \in [Jobs -> Statuses] /\ attempt \in [Jobs -> Nat] /\ calls \in [Jobs -> Nat]
    BY DEF SInit, Statuses
  <2>2. snapshot \in [Jobs -> {None} \cup SnapshotRecords]
    BY DEF SInit
  <2>3. hash \in [Jobs -> {None} \cup SUBSET Cited]
    BY DEF SInit
  <2>4. file \in [Jobs -> {None} \cup [complete : BOOLEAN, entries : SUBSET Cited]]
    BY DEF SInit
  <2>5. order \in Seq(Jobs) /\ queue \in Seq(Jobs)
    BY DEF SInit
  <2>6. pc \in Labels /\ round \in {"none", "running", "completed", "interrupted"}
    BY DEF SInit, Labels
  <2>7. paused \in BOOLEAN /\ stopping \in BOOLEAN /\ late \in BOOLEAN /\ authorized \in BOOLEAN
    BY DEF SInit
  <2> QED BY <2>1, <2>2, <2>3, <2>4, <2>5, <2>6, <2>7 DEF StewardTypes
<1>2. QueueInv
  BY DEF SInit, QueueInv, Executing, Publishing
<1>3. PhaseInv /\ WorkInv /\ RecoverInv
  BY DEF SInit, PhaseInv, WorkInv, RecoverInv
<1>4. JobInv
  BY StewardAssumption DEF SInit, JobInv
<1>5. PublishedInv /\ CommittedInv /\ CommitInv
  BY DEF SInit, Init, PublishedInv, CommittedInv, CommitInv, CommitSteps, ActivateSteps
<1> QED BY <1>1, <1>2, <1>3, <1>4, <1>5 DEF StewardInv

-----------------------------------------------------------------------------
(* What may be absent and is there is not None.                            *)
LEMMA CitedQuotations == ASSUME TypeOK PROVE Cited \subseteq Quotations
<1> SUFFICES ASSUME NEW r \in ledger, NEW i \in 1..Len(r.text), NEW j \in 1..Len(r.text)
             PROVE  Anchor(r, i, j) \in Quotations
  BY DEF Cited, AnchorsOf, LineSpans
<1>1. r.text \in Texts /\ r.rid \in Rids /\ r.version \in Nat
  BY DEF TypeOK, StoreTypeOK, Records
<1>2. r.text \in Seq(Lines)
  <2> DEFINE own == {r.text[k] : k \in DOMAIN r.text}
  <2>1. r.text \in Seq(own) /\ own \subseteq Lines
    BY <1>1, TextsAssumption DEF Lines
  <2>2. DOMAIN r.text = 1..Len(r.text) /\ Len(r.text) \in Nat
    BY <2>1
  <2>3. \A k \in DOMAIN r.text : r.text[k] \in Lines
    BY <2>1
  <2>4. r.text = [k \in 1..Len(r.text) |-> r.text[k]]
    BY <2>1
  <2> QED BY <2>2, <2>3, <2>4
<1>3. SubSeq(r.text, i, j) \in Seq(Lines) /\ i \in Nat /\ j \in Nat
  BY <1>2
<1> QED BY <1>1, <1>3 DEF Anchor, Quotations

LEMMA ThereIsNotNone ==
  ASSUME TypeOK
  PROVE  /\ \A entries \in SUBSET Cited : Candidate(entries) # None
         /\ [complete |-> FALSE, entries |-> {}] # None
         /\ \A j \in Jobs : [job |-> j, snap |-> Snapshot] \in Enqueuing \ {None}
         /\ Snapshot \in SnapshotRecords \ {None}
<1>1. \A entries \in SUBSET Cited, b \in BOOLEAN :
        [complete |-> b, entries |-> entries] \in Files
  <2>1. SUBSET Cited \subseteq SUBSET Quotations
    BY CitedQuotations
  <2> QED BY <2>1 DEF Files
<1>2. Snapshot \in SnapshotRecords
  BY SigType DEF Snapshot, SnapshotRecords, TypeOK, StoreTypeOK
<1>3. \A j \in Jobs : [job |-> j, snap |-> Snapshot] \in Enqueuing
  BY <1>2 DEF Enqueuing
<1> QED BY <1>1, <1>2, <1>3, NoneAssumption DEF Candidate

-----------------------------------------------------------------------------
LEMMA JobIsJob ==
  ASSUME StewardInv, pc \in Executing \cup Publishing
  PROVE  queue # <<>> /\ queue \in Seq(Jobs) /\ Job \in Jobs
<1>1. queue # <<>> /\ queue \in Seq(Jobs)
  BY DEF StewardInv, StewardTypes, QueueInv
<1> QED BY <1>1 DEF Job

(* A job in the worker's hands is unpublished until Knowledge.publish.     *)
LEMMA WorkIsUnpublished ==
  ASSUME StewardInv, pc \in Executing \cup {"verify", "publish"}
  PROVE  PublishedBy(Job) = {}
<1>1. Job \in Jobs
  BY JobIsJob DEF Publishing
<1>2. status[Job] \in {"running", "candidate-ready"}
  BY DEF StewardInv, QueueInv, Publishing
<1>3. phase = "up" /\ pc # "publishing"
  BY DEF StewardInv, PhaseInv, Executing
<1>4. ~Done(Job)
  BY <1>2, <1>3 DEF Done
<1>5. ASSUME NEW n \in PublishedBy(Job) PROVE FALSE
  <2>1. n \in DOMAIN versions /\ versions[n].job = Job
    BY DEF PublishedBy
  <2> QED BY <1>1, <1>4, <2>1 DEF StewardInv, PublishedInv
<1> QED BY <1>5

(* The publication of a job, whatever its candidate, is one that a         *)
(* component may ask of the store; a refusal does not tell them apart.     *)
LEMMA RefinePublication ==
  ASSUME TypeOK, LedgerFinite, StewardInv, BeginPublication
  PROVE  \E j \in Jobs, snap \in Snapshots : \E entries \in Outputs(snap) : Publish(j, snap, entries)
<1>1. pc = "publish" /\ Publish(Job, snapshot[Job], content)
  BY DEF BeginPublication
<1>2. Job \in Jobs /\ PublishedBy(Job) = {}
  BY <1>1, JobIsJob, WorkIsUnpublished DEF Publishing
<1>3. Snapshot \in Snapshots /\ {} \in Outputs(Snapshot)
  BY DEF Snapshots, Snapshot, Outputs
<1>4. CASE snapshot[Job] = Snapshot /\ Valid(Sources, content)
  BY <1>1, <1>2, <1>3, <1>4, AcceptedOutputs
<1>5. CASE ~(snapshot[Job] = Snapshot /\ Valid(Sources, content))
  <2>1. Free /\ Refuse("fault")
    BY <1>1, <1>2, <1>5 DEF Publish
  <2>2. ~Valid(Sources, {})
    BY DEF Valid
  <2>3. Publish(Job, Snapshot, {})
    BY <1>2, <2>1, <2>2 DEF Publish
  <2> QED BY <1>2, <1>3, <2>3
<1> QED BY <1>4, <1>5

LEMMA RefineRequest ==
  ASSUME TypeOK, LedgerInv, LedgerFinite, VaultRequest
  PROVE  Operation
<1>1. CASE \E rid \in Rids, e \in Events, t \in Texts : Submit(rid, e, CurrentVersion(rid), t)
  BY <1>1, VersionsCounted DEF Operation
<1>2. CASE \E e \in RestoreEvents, n \in DOMAIN versions : Restore(e, n, Len(versions))
  <2>1. DOMAIN versions = 1..Len(versions) /\ Len(versions) \in Nat
    BY DEF TypeOK, StoreTypeOK
  <2>2. \A n \in DOMAIN versions : Len(versions) \in DOMAIN versions
    BY <2>1
  <2> QED BY <1>2, <2>2 DEF Operation
<1> QED BY <1>1, <1>2 DEF VaultRequest

(* Every step of the steward and its world is one the store allows, or     *)
(* none of its business.                                                   *)
LEMMA StewardRefines ==
  ASSUME TypeOK, LedgerInv, LedgerFinite, StewardInv, [SNext]_allVars
  PROVE  [Next]_vars
<1>1. CASE Request \/ Deadline
  BY <1>1 DEF Request, EnqueueRead, Retry, EnqueueSave, Run, Pause, Authorize, Stop, Deadline,
     knowledgeVars
<1>2. CASE WorkerFault \/ (Worker /\ ~BeginPublication)
  <2>1. (\E j, s : Fall(j, s)) \/ (\E j, s : Close(j, s)) => UNCHANGED vars
    BY DEF Fall, Close, knowledgeVars
  <2> QED BY <1>2, <2>1 DEF WorkerFault, Worker, EndRound, TakeCandidate, BeginAttempt,
             CheckSnapshot, Call, CallRefused, CheckAnswer, SaveHash, CreateFile, WriteFile,
             MarkReady, Verify, Withhold, Deny, EndPublication, knowledgeVars
<1>3. CASE BeginPublication
  BY <1>3, RefinePublication DEF Next, Operation
<1>4. CASE VaultRequest \/ VaultStep \/ VaultFail
  BY <1>4, RefineRequest DEF VaultStep, VaultFail, Next, Operation, Fault
<1>5. CASE Die \/ Boot \/ BootServe \/ \E j \in Jobs : BootRecover(j)
  BY <1>5 DEF Die, Boot, BootServe, BootRecover, Next, Fault
<1>6. CASE UNCHANGED allVars
  BY <1>6 DEF allVars, knowledgeVars
<1> QED BY <1>1, <1>2, <1>3, <1>4, <1>5, <1>6 DEF SNext, Worker

-----------------------------------------------------------------------------
LEMMA SameView ==
  ASSUME UNCHANGED <<ledger, versions>>
  PROVE  /\ Cited' = Cited /\ Sig' = Sig /\ Sources' = Sources
         /\ Snapshot' = Snapshot
         /\ \A j : PublishedBy(j)' = PublishedBy(j)
  BY DEF Cited, Sig, Sources, Snapshot, PublishedBy

(* What only the worker in its publication, or a starting service, must    *)
(* keep true.                                                              *)
LEMMA Elsewhere ==
  ASSUME StewardInv, pc' \notin {"publishing", "recovering"},
         step' \notin CommitSteps \/ (pc # "publishing" /\ UNCHANGED <<step, op>>)
  PROVE  CommitInv' /\ RecoverInv'
  BY DEF StewardInv, CommitInv, RecoverInv

LEMMA SameCommit ==
  ASSUME StewardInv, UNCHANGED <<ledger, versions, review, entryFile, step, op, reply,
                                 pc, queue, content, snapshot>>
  PROVE  CommitInv' /\ RecoverInv'
<1>1. Sig' = Sig /\ Job' = Job /\ PublishedBy(Job)' = PublishedBy(Job)
  BY DEF Sig, Job, PublishedBy
<1>2. CommitInv /\ RecoverInv
  BY DEF StewardInv
<1> QED BY <1>1, <1>2 DEF CommitInv, RecoverInv

(* Requests that only set a flag, and what happens to it by itself.        *)
LEMMA ControlSteps ==
  ASSUME TypeOK, StewardInv,
         \/ \E j \in Jobs : EnqueueRead(j)
         \/ \E b \in BOOLEAN : Pause(b) \/ Authorize(b)
         \/ Stop \/ Deadline \/ UNCHANGED allVars
  PROVE  StewardInv'
<1>1. UNCHANGED <<ledger, versions, review, entryFile, phase, step, op, reply,
                  order, status, attempt, snapshot, hash, file, calls, pc, queue, content, round>>
  BY DEF EnqueueRead, Pause, Authorize, Stop, Deadline, allVars, stewardVars, knowledgeVars,
     vars, jobVars, controlVars, workerVars
<1>2. Cited' = Cited /\ Job' = Job /\ \A j : PublishedBy(j)' = PublishedBy(j)
  BY <1>1, SameView DEF Job
<1>3. StewardTypes'
  <2>1. /\ paused' \in BOOLEAN /\ stopping' \in BOOLEAN
        /\ late' \in BOOLEAN /\ authorized' \in BOOLEAN
    BY DEF EnqueueRead, Pause, Authorize, Stop, Deadline, allVars, stewardVars, workerVars,
       controlVars, StewardInv, StewardTypes
  <2> QED BY <1>1, <1>2, <2>1 DEF StewardInv, StewardTypes
<1>4. QueueInv'
  BY <1>1, <1>2 DEF StewardInv, QueueInv, HasWork
<1>5. PhaseInv'
  <2>1. CASE \E j \in Jobs : EnqueueRead(j)
    BY <1>1, <2>1, ThereIsNotNone DEF EnqueueRead, Unlocked, StewardInv, PhaseInv
  <2>2. CASE UNCHANGED enqueuing
    BY <1>1, <2>2 DEF StewardInv, PhaseInv
  <2> QED BY <2>1, <2>2 DEF Pause, Authorize, Stop, Deadline, allVars, stewardVars, controlVars
<1>6. JobInv'
  BY <1>1 DEF StewardInv, JobInv
<1>7. WorkInv'
  <2>1. pc = "publishing" => UNCHANGED <<paused, stopping, authorized>>
    BY DEF EnqueueRead, Pause, Authorize, Stop, Deadline, allVars, stewardVars, controlVars,
       Unlocked
  <2> QED BY <1>1, <1>2, <2>1 DEF StewardInv, WorkInv
<1>8. PublishedInv' /\ CommittedInv'
  BY <1>1, <1>2 DEF StewardInv, PublishedInv, CommittedInv, Done
<1> QED BY <1>1, <1>3, <1>4, <1>5, <1>6, <1>7, <1>8, SameCommit DEF StewardInv

(* A request for a new job: nobody has it yet, so nobody works on it.      *)
LEMMA EnqueueKeeps == ASSUME TypeOK, StewardInv, EnqueueSave PROVE StewardInv'
<1> DEFINE j == enqueuing.job
<1>1. /\ enqueuing \in Enqueuing /\ j \in Jobs /\ enqueuing.snap \in SnapshotRecords
      /\ status[j] = "absent" /\ phase = "up"
  BY DEF EnqueueSave, StewardInv, PhaseInv, Enqueuing
<1>2. /\ UNCHANGED <<ledger, versions, review, entryFile, phase, step, op, reply,
                     attempt, hash, file, calls, pc, queue, content, round, paused,
                     stopping, late, authorized>>
      /\ enqueuing' = None
  BY DEF EnqueueSave, knowledgeVars, vars, workerVars
<1>3. Cited' = Cited /\ Job' = Job /\ \A k : PublishedBy(k)' = PublishedBy(k)
  BY <1>2, SameView DEF Job
<1>4. PICK s \in {"alias", "no-work", "queued"} :
        /\ status' = [status EXCEPT ![j] = s]
        /\ IF s = "alias" THEN UNCHANGED <<order, snapshot>>
           ELSE /\ order' = Append(order, j)
                /\ snapshot' = [snapshot EXCEPT ![j] = enqueuing.snap]
  BY DEF EnqueueSave
<1> HIDE DEF j
<1>5. /\ status \in [Jobs -> Statuses] /\ status' \in [Jobs -> Statuses] /\ status'[j] = s
      /\ \A k \in Jobs : k # j => status'[k] = status[k] /\ snapshot'[k] = snapshot[k]
      /\ s = "alias" => snapshot'[j] = snapshot[j]
      /\ s # "alias" => snapshot'[j] = enqueuing.snap
      /\ snapshot' \in [Jobs -> {None} \cup SnapshotRecords]
  BY <1>1, <1>4 DEF StewardInv, StewardTypes, Statuses
<1>6. /\ order \in Seq(Jobs) /\ order' \in Seq(Jobs)
      /\ \A i \in DOMAIN order : order[i] # j
      /\ \A i \in DOMAIN order' : order'[i] = j \/ (i \in DOMAIN order /\ order'[i] = order[i])
      /\ \A i, k \in DOMAIN order' : order'[i] = order'[k] => i = k
      /\ s = "alias" => order' = order
  <2>1. order \in Seq(Jobs) /\ \A i \in DOMAIN order : order[i] # j
    BY <1>1 DEF StewardInv, StewardTypes, QueueInv
  <2>2. \A i, k \in DOMAIN order : order[i] = order[k] => i = k
    BY DEF StewardInv, QueueInv
  <2>3. CASE s = "alias"
    BY <1>4, <2>1, <2>2, <2>3
  <2>4. CASE order' = Append(order, j)
    BY <1>1, <1>4, <2>1, <2>2, <2>4
  <2> QED BY <1>4, <2>3, <2>4
<1>7. StewardTypes'
  BY <1>2, <1>3, <1>5, <1>6 DEF StewardInv, StewardTypes
<1>8. QueueInv'
  <2>1. \A i \in DOMAIN order' : status'[order'[i]] \notin {"absent", "alias"}
    <3>1. \A i \in DOMAIN order : order[i] \in Jobs /\ status[order[i]] \notin {"absent", "alias"}
      BY <1>6 DEF StewardInv, QueueInv
    <3>2. ASSUME NEW i \in DOMAIN order', order'[i] = j PROVE s # "alias"
      BY <1>6, <3>2
    <3> QED BY <1>5, <1>6, <3>1, <3>2
  <2>2. \A i \in DOMAIN queue : i > 1 \/ pc = "take" => queue[i] # j /\ HasWork(queue[i])
    BY <1>1 DEF StewardInv, QueueInv, HasWork
  <2>3. \A i \in DOMAIN queue : queue[i] \in Jobs
    BY DEF StewardInv, StewardTypes
  <2>4. pc \in Executing \cup Publishing => Job # j /\ Job \in Jobs
    BY <1>1, JobIsJob DEF StewardInv, QueueInv
  <2> QED BY <1>2, <1>3, <1>5, <1>6, <2>1, <2>2, <2>3, <2>4 DEF StewardInv, QueueInv, HasWork,
             Executing, Publishing
<1>9. PhaseInv'
  BY <1>2 DEF StewardInv, PhaseInv
<1>10. JobInv'
  BY <1>1, <1>2, <1>5, StewardAssumption, NoneAssumption DEF StewardInv, JobInv
<1>11. WorkInv'
  BY <1>2, <1>3 DEF StewardInv, WorkInv
<1>12. PublishedInv' /\ CommittedInv'
  BY <1>1, <1>2, <1>3, <1>5 DEF StewardInv, PublishedInv, CommittedInv, Done
<1>13. CommitInv' /\ RecoverInv'
  BY <1>2, Elsewhere DEF EnqueueSave, Free, StewardInv, PhaseInv, CommitSteps
<1> QED BY <1>7, <1>8, <1>9, <1>10, <1>11, <1>12, <1>13 DEF StewardInv

-----------------------------------------------------------------------------
(* A round takes each of its jobs once, and only jobs that have work.      *)
LEMMA RunKeeps == ASSUME TypeOK, StewardInv, NEW n \in 1..MaxJobs, Run(n) PROVE StewardInv'
<1>1. /\ UNCHANGED <<ledger, versions, review, entryFile, phase, step, op, reply, order, status,
                     attempt, snapshot, hash, file, calls, paused, stopping, enqueuing,
                     authorized>>
      /\ phase = "up" /\ pc = "off"
  BY DEF Run, Unlocked, knowledgeVars, vars, jobVars
<1>2. Cited' = Cited /\ \A j : PublishedBy(j)' = PublishedBy(j)
  BY <1>1, SameView
<1>3. CASE UNCHANGED workerVars /\ round' = "completed"
  <2>1. UNCHANGED <<pc, queue, content, late>> /\ Job' = Job
    BY <1>3 DEF workerVars, Job
  <2>2. StewardTypes'
    BY <1>1, <1>2, <1>3, <2>1 DEF StewardInv, StewardTypes
  <2>3. QueueInv' /\ PhaseInv' /\ JobInv' /\ WorkInv' /\ PublishedInv' /\ CommittedInv'
    BY <1>1, <1>2, <2>1 DEF StewardInv, QueueInv, HasWork, PhaseInv, JobInv, WorkInv,
       PublishedInv, CommittedInv, Done
  <2> QED BY <1>1, <2>1, <2>2, <2>3, SameCommit DEF StewardInv
<1>4. ASSUME NEW m \in 1..n, NEW at \in [1..m -> Ready], FirstReady(n, at),
             queue' = [k \in 1..m |-> order[at[k]]],
             round' = "running", pc' = "take", late' = FALSE, content' = None
      PROVE  StewardInv'
  <2>1. n \in Nat /\ m \in Nat /\ m >= 1
    BY StewardAssumption
  <2>2. order \in Seq(Jobs) /\ \A k \in 1..m : at[k] \in DOMAIN order /\ HasWork(order[at[k]])
    BY <1>4 DEF Ready, StewardInv, StewardTypes
  <2>3. queue' \in Seq(Jobs) /\ DOMAIN queue' = 1..m
    BY <1>4, <2>1, <2>2
  <2>4. \A k, l \in 1..m : k < l => at[k] < at[l]
    BY <1>4 DEF FirstReady
  <2>5. \A k, l \in 1..m : at[k] = at[l] => k = l
    <3>1. \A k \in 1..m : at[k] \in Nat
      BY <2>2
    <3> QED BY <2>1, <2>4, <3>1
  <2>6. \A k, l \in 1..m : queue'[k] = queue'[l] => k = l
    BY <1>4, <2>2, <2>5 DEF StewardInv, QueueInv
  <2>7. \A k \in 1..m : HasWork(queue'[k])
    BY <1>4, <2>2
  <2>8. StewardTypes'
    BY <1>1, <1>2, <1>4, <2>3 DEF StewardInv, StewardTypes, Labels
  <2>9. QueueInv'
    BY <1>1, <1>4, <2>3, <2>6, <2>7 DEF StewardInv, QueueInv, HasWork, Executing, Publishing
  <2>10. PhaseInv' /\ JobInv' /\ WorkInv'
    BY <1>1, <1>4 DEF StewardInv, PhaseInv, JobInv, WorkInv
  <2>11. PublishedInv' /\ CommittedInv'
    BY <1>1, <1>2, <1>4 DEF StewardInv, PublishedInv, CommittedInv, Done
  <2> QED BY <1>1, <1>4, <2>8, <2>9, <2>10, <2>11, Elsewhere DEF StewardInv
<1> QED BY <1>3, <1>4 DEF Run

(* A job that has published cannot be retried: its sources are those of    *)
(* the number of versions before its own.                                  *)
LEMMA RetryKeeps == ASSUME TypeOK, StewardInv, NEW j \in Jobs, Retry(j) PROVE StewardInv'
<1>1. /\ UNCHANGED <<ledger, versions, review, entryFile, phase, step, op, reply, order,
                     attempt, snapshot, hash, file, calls, paused, stopping, enqueuing,
                     authorized, round, pc, queue, content, late>>
      /\ phase = "up" /\ pc # "publishing" /\ enqueuing = None
      /\ status[j] \in {"failed", "interrupted"} /\ attempt[j] < MaxAttempts
      /\ snapshot[j].expected = Len(versions)
  BY DEF Retry, Unlocked, Fresh, Snapshot, knowledgeVars, vars, controlVars, workerVars
<1>2. Cited' = Cited /\ Job' = Job /\ \A k : PublishedBy(k)' = PublishedBy(k)
  BY <1>1, SameView DEF Job
<1>3. PICK s \in {"candidate-ready", "queued"} :
        /\ status' = [status EXCEPT ![j] = s]
        /\ s = "candidate-ready" <=> file[j] # None
  BY DEF Retry
<1>4. /\ status' \in [Jobs -> Statuses] /\ status'[j] = s
      /\ \A k \in Jobs : k # j => status'[k] = status[k]
  BY <1>3 DEF StewardInv, StewardTypes, Statuses
<1>5. \A n \in DOMAIN versions : versions[n].job # j
  <2> SUFFICES ASSUME NEW n \in DOMAIN versions, versions[n].job = j PROVE FALSE
    OBVIOUS
  <2>1. snapshot[j].expected = n - 1
    BY DEF StewardInv, PublishedInv
  <2>2. n \in 1..Len(versions) /\ Len(versions) \in Nat
    BY DEF TypeOK, StoreTypeOK
  <2> QED BY <1>1, <2>1, <2>2
<1>6. StewardTypes'
  BY <1>1, <1>2, <1>4 DEF StewardInv, StewardTypes
<1>7. QueueInv'
  <2>1. \A i \in DOMAIN order : order[i] \in Jobs /\ status[order[i]] \notin {"absent", "alias"}
    BY DEF StewardInv, StewardTypes, QueueInv
  <2>2. \A i \in DOMAIN queue : queue[i] \in Jobs
    BY DEF StewardInv, StewardTypes
  <2>3. \A i \in DOMAIN queue : i > 1 \/ pc = "take" => queue[i] # j /\ HasWork(queue[i])
    BY <1>1 DEF StewardInv, QueueInv, HasWork
  <2>4. pc \in Executing \cup Publishing => Job # j /\ Job \in Jobs
    BY <1>1, JobIsJob DEF StewardInv, QueueInv
  <2> QED BY <1>1, <1>2, <1>4, <2>1, <2>2, <2>3, <2>4 DEF StewardInv, QueueInv, HasWork
<1>8. PhaseInv'
  BY <1>1 DEF StewardInv, PhaseInv
<1>9. JobInv'
  BY <1>1, <1>3, <1>4 DEF StewardInv, JobInv
<1>10. WorkInv'
  BY <1>1, <1>2 DEF StewardInv, WorkInv
<1>11. PublishedInv' /\ CommittedInv'
  BY <1>1, <1>2, <1>4, <1>5 DEF StewardInv, PublishedInv, CommittedInv, Done
<1> QED BY <1>1, <1>6, <1>7, <1>8, <1>9, <1>10, <1>11, SameCommit DEF StewardInv

-----------------------------------------------------------------------------
(* The worker leaves a job: failed, decided upon by a human, or committed. *)
LEMMA CloseKeeps ==
  ASSUME TypeOK, StewardInv, pc \in Executing \cup Publishing, phase = "up", enqueuing = None,
         NEW s \in {"failed", "needs-decision", "committed"},
         s = "needs-decision" => PublishedBy(Job) = {},
         s = "committed" => PublishedBy(Job) # {},
         status' = [status EXCEPT ![Job] = s],
         NextJob,
         UNCHANGED <<ledger, versions, phase, order, attempt, snapshot, hash, file, calls,
                     paused, stopping, enqueuing, authorized, round>>,
         step' \notin CommitSteps \/ (pc # "publishing" /\ UNCHANGED <<step, op>>)
  PROVE  StewardInv'
<1> DEFINE j == Job
<1>1. queue # <<>> /\ queue \in Seq(Jobs) /\ j \in Jobs /\ j = queue[1]
  BY JobIsJob DEF Job
<1>2. pc' = "take" /\ queue' = Tail(queue) /\ content' = None /\ late' = late
  BY DEF NextJob
<1>3. Cited' = Cited /\ \A k : PublishedBy(k)' = PublishedBy(k)
  BY SameView
<1>4. /\ status' \in [Jobs -> Statuses] /\ status'[j] = s
      /\ \A k \in Jobs : k # j => status'[k] = status[k]
  BY <1>1 DEF StewardInv, StewardTypes, Statuses
<1>5. /\ queue' \in Seq(Jobs)
      /\ \A i \in DOMAIN queue' : i + 1 \in DOMAIN queue /\ i + 1 > 1 /\ queue'[i] = queue[i + 1]
  BY <1>1, <1>2
<1>6. status[j] \in {"running", "candidate-ready"}
  BY DEF StewardInv, QueueInv
<1>7. StewardTypes'
  BY <1>2, <1>3, <1>4, <1>5 DEF StewardInv, StewardTypes, Labels
<1> HIDE DEF j
<1>8. QueueInv'
  <2>1. \A i \in DOMAIN order : order[i] \in Jobs /\ status[order[i]] \notin {"absent", "alias"}
    BY DEF StewardInv, StewardTypes, QueueInv
  <2>2. \A i \in DOMAIN order : status'[order[i]] \notin {"absent", "alias"}
    BY <1>4, <2>1
  <2>3. \A i, k \in DOMAIN queue' : queue'[i] = queue'[k] => i = k
    <3> SUFFICES ASSUME NEW i \in DOMAIN queue', NEW k \in DOMAIN queue', queue'[i] = queue'[k]
                 PROVE  i = k
      OBVIOUS
    <3>1. i + 1 = k + 1
      BY <1>5 DEF StewardInv, QueueInv
    <3>2. i \in Nat /\ k \in Nat
      BY <1>5
    <3> QED BY <3>1, <3>2
  <2>4. \A i \in DOMAIN queue : i > 1 => HasWork(queue[i]) /\ queue[i] \in Jobs /\ queue[i] # j
    <3> SUFFICES ASSUME NEW i \in DOMAIN queue, i > 1
                 PROVE  HasWork(queue[i]) /\ queue[i] \in Jobs /\ queue[i] # j
      OBVIOUS
    <3>1. 1 \in DOMAIN queue /\ queue[i] \in Jobs
      BY <1>1
    <3>2. HasWork(queue[i]) /\ queue[i] # queue[1]
      BY <3>1 DEF StewardInv, QueueInv
    <3> QED BY <1>1, <3>1, <3>2
  <2>5. \A i \in DOMAIN queue' : status'[queue'[i]] \in {"queued", "candidate-ready"}
    BY <1>4, <1>5, <2>4 DEF HasWork
  <2>6. \A i, k \in DOMAIN order : order[i] = order[k] => i = k
    BY DEF StewardInv, QueueInv
  <2>7. UNCHANGED order /\ pc' = "take"
    BY <1>2
  <2> QED BY <2>2, <2>3, <2>5, <2>6, <2>7 DEF QueueInv, HasWork, Executing, Publishing
<1>9. PhaseInv' /\ WorkInv'
  BY <1>2 DEF StewardInv, PhaseInv, WorkInv
<1>10. JobInv'
  BY <1>4, <1>6 DEF StewardInv, JobInv
<1>11. PublishedInv' /\ CommittedInv'
  <2>1. \A n \in DOMAIN versions : versions[n].job = j => s # "needs-decision"
    <3>1. DOMAIN versions = 1..Len(versions)
      BY DEF TypeOK, StoreTypeOK
    <3>2. \A n \in DOMAIN versions : versions[n].job = j => n \in PublishedBy(j)
      BY <3>1 DEF PublishedBy
    <3> QED BY <3>2 DEF j
  <2>2. ASSUME NEW k \in Jobs, Done(k), k # j \/ s # "needs-decision" PROVE Done(k)'
    BY <1>4, <2>2 DEF Done, j
  <2>3. PublishedInv'
    BY <2>1, <2>2 DEF StewardInv, PublishedInv
  <2>4. CommittedInv'
    BY <1>3, <1>4 DEF StewardInv, CommittedInv, j
  <2> QED BY <2>3, <2>4
<1>12. CommitInv' /\ RecoverInv'
  BY <1>2, Elsewhere
<1> QED BY <1>7, <1>8, <1>9, <1>10, <1>11, <1>12 DEF StewardInv

-----------------------------------------------------------------------------
LEMMA FallKeeps ==
  ASSUME TypeOK, StewardInv, pc \in Executing \cup {"verify", "publish"},
         NEW s \in {"failed", "needs-decision"}, Fall(Job, s)
  PROVE  StewardInv'
<1>1. /\ phase = "up" /\ pc # "publishing" /\ enqueuing = None
      /\ status' = [status EXCEPT ![Job] = s] /\ NextJob
      /\ UNCHANGED <<ledger, versions, phase, order, attempt, snapshot, hash, file, calls,
                     paused, stopping, enqueuing, authorized, round, step, op>>
  BY DEF Fall, Unlocked, Close, knowledgeVars, vars, controlVars
<1>2. pc \in Executing \cup Publishing /\ PublishedBy(Job) = {}
  BY WorkIsUnpublished DEF Publishing
<1> QED BY <1>1, <1>2, CloseKeeps

(* The round ends, or a candidate is kept for another one.                 *)
LEMMA FinishKeeps == ASSUME TypeOK, StewardInv, EndRound \/ Withhold PROVE StewardInv'
<1>1. /\ UNCHANGED <<ledger, versions, review, entryFile, phase, step, op, reply, order, attempt,
                     snapshot, hash, file, calls, paused, stopping, enqueuing, authorized, late>>
      /\ pc \in {"take", "publish"} /\ phase = "up" /\ pc' = "off" /\ queue' = <<>>
      /\ content' = None /\ round' = "completed"
  BY DEF EndRound, Withhold, Unlocked, Finish, knowledgeVars, vars, jobVars
<1>2. UNCHANGED status
  <2>1. CASE EndRound
    BY <2>1 DEF EndRound, jobVars
  <2>2. CASE Withhold
    <3>1. Job \in Jobs /\ status[Job] = "candidate-ready" /\ status \in [Jobs -> Statuses]
      BY <2>2, JobIsJob DEF Withhold, Publishing, StewardInv, StewardTypes, QueueInv
    <3> QED BY <2>2, <3>1 DEF Withhold
  <2> QED BY <2>1, <2>2
<1>3. Cited' = Cited /\ \A j : PublishedBy(j)' = PublishedBy(j)
  BY <1>1, SameView
<1>4. StewardTypes'
  BY <1>1, <1>2, <1>3 DEF StewardInv, StewardTypes, Labels
<1>5. QueueInv'
  BY <1>1, <1>2 DEF StewardInv, QueueInv, Executing, Publishing
<1>6. PhaseInv' /\ JobInv' /\ WorkInv'
  BY <1>1, <1>2 DEF StewardInv, PhaseInv, JobInv, WorkInv
<1>7. PublishedInv' /\ CommittedInv'
  BY <1>1, <1>2, <1>3 DEF StewardInv, PublishedInv, CommittedInv, Done
<1> QED BY <1>1, <1>4, <1>5, <1>6, <1>7, Elsewhere DEF StewardInv

LEMMA InHand ==
  ASSUME StewardInv, phase = "up", queue # <<>>, pc \in {"take", "verify"} \cup Executing
  PROVE  /\ queue \in Seq(Jobs) /\ Job \in Jobs /\ Job = queue[1] /\ 1 \in DOMAIN queue
         /\ pc = "take" => status[Job] \in {"queued", "candidate-ready"}
         /\ pc = "verify" => status[Job] = "candidate-ready"
         /\ pc \in Executing => status[Job] = "running"
         /\ PublishedBy(Job) = {}
<1>1. queue \in Seq(Jobs) /\ Job \in Jobs /\ Job = queue[1] /\ 1 \in DOMAIN queue
  BY DEF StewardInv, StewardTypes, Job
<1>2. /\ pc = "take" => status[Job] \in {"queued", "candidate-ready"}
      /\ pc = "verify" => status[Job] = "candidate-ready"
      /\ pc \in Executing => status[Job] = "running"
  BY <1>1 DEF StewardInv, QueueInv, HasWork, Publishing
<1>3. ~Done(Job)
  BY <1>2 DEF Done, Executing
<1>4. ASSUME NEW n \in PublishedBy(Job) PROVE FALSE
  <2>1. n \in DOMAIN versions /\ versions[n].job = Job
    BY DEF PublishedBy
  <2> QED BY <1>1, <1>3, <2>1 DEF StewardInv, PublishedInv
<1> QED BY <1>1, <1>2, <1>4

(* The worker moves on with the job in its hands; what that place asks of  *)
(* the job is WorkInv and a line of QueueInv.                              *)
LEMMA GotoKeeps ==
  ASSUME TypeOK, StewardInv, phase = "up", queue # <<>>,
         UNCHANGED <<ledger, versions, review, entryFile, phase, step, op, reply, order,
                     snapshot, queue, paused, stopping, enqueuing, authorized, round, late>>,
         pc \in {"take", "verify"} \cup Executing,
         pc' \in {"verify", "publish"} \cup Executing,
         NEW s \in {"running", "candidate-ready"},
         status' = [status EXCEPT ![Job] = s],
         pc' \in Executing <=> s = "running",
         attempt' \in [Jobs -> Nat], calls' \in [Jobs -> Nat],
         hash' \in [Jobs -> {None} \cup SUBSET Cited],
         file' \in [Jobs -> {None} \cup [complete : BOOLEAN, entries : SUBSET Cited]],
         \A j \in Jobs : j # Job => /\ attempt'[j] = attempt[j] /\ calls'[j] = calls[j]
                                    /\ hash'[j] = hash[j] /\ file'[j] = file[j],
         calls'[Job] <= attempt'[Job] /\ attempt'[Job] <= MaxAttempts,
         s = "candidate-ready" => file'[Job] # None,
         WorkInv'
  PROVE  StewardInv'
<1> DEFINE j == Job
<1>1. pc \notin {"publishing", "recovering"} /\ pc' \notin {"off", "recovering", "take", "publishing"}
  BY DEF Executing
<1>2. Job' = Job /\ Cited' = Cited /\ \A k : PublishedBy(k)' = PublishedBy(k)
  BY SameView DEF Job
<1>3. /\ queue \in Seq(Jobs) /\ j \in Jobs /\ j = queue[1] /\ 1 \in DOMAIN queue
      /\ status[j] \in {"queued", "candidate-ready", "running"} /\ PublishedBy(j) = {}
  BY InHand
<1>4. /\ status' \in [Jobs -> Statuses] /\ status'[j] = s
      /\ \A k \in Jobs : k # j => status'[k] = status[k]
  BY <1>3 DEF StewardInv, StewardTypes, Statuses
<1>5. StewardTypes'
  BY <1>2, <1>4 DEF StewardInv, StewardTypes, Labels, Executing
<1>6. /\ \A k \in Jobs : k # j => /\ attempt'[k] = attempt[k] /\ calls'[k] = calls[k]
                                  /\ hash'[k] = hash[k] /\ file'[k] = file[k]
      /\ calls'[j] <= attempt'[j] /\ attempt'[j] <= MaxAttempts
      /\ s = "candidate-ready" => file'[j] # None
  OBVIOUS
<1> HIDE DEF j
<1>7. QueueInv'
  <2>1. \A i \in DOMAIN order : order[i] \in Jobs /\ status[order[i]] \notin {"absent", "alias"}
    BY DEF StewardInv, StewardTypes, QueueInv
  <2>2. \A i \in DOMAIN order : status'[order[i]] \notin {"absent", "alias"}
    BY <1>4, <2>1
  <2>3. \A i \in DOMAIN queue : i > 1 => HasWork(queue[i]) /\ queue[i] \in Jobs /\ queue[i] # j
    BY <1>3 DEF StewardInv, QueueInv
  <2>4. \A i \in DOMAIN queue : i > 1 => status'[queue[i]] \in {"queued", "candidate-ready"}
    BY <1>4, <2>3 DEF HasWork
  <2>5. status'[Job] = s
    BY <1>4 DEF j
  <2>6. /\ \A i, k \in DOMAIN order : order[i] = order[k] => i = k
        /\ \A i, k \in DOMAIN queue : queue[i] = queue[k] => i = k
    BY DEF StewardInv, QueueInv
  <2>7. /\ pc' \in Executing => s = "running"
        /\ pc' \in Publishing => s = "candidate-ready"
    BY DEF Publishing, Executing
  <2> QED BY <1>1, <1>2, <2>2, <2>4, <2>5, <2>6, <2>7 DEF QueueInv, HasWork
<1>8. PhaseInv'
  <2>1. enqueuing # None => enqueuing.job \in Jobs /\ enqueuing.job # j
    BY <1>3 DEF StewardInv, PhaseInv, Enqueuing
  <2> QED BY <1>1, <1>4, <2>1 DEF StewardInv, PhaseInv
<1>9. JobInv'
  <2> SUFFICES ASSUME NEW k \in Jobs
               PROVE  /\ calls'[k] <= attempt'[k] /\ attempt'[k] <= MaxAttempts
                      /\ status'[k] = "absent" => attempt'[k] = 0 /\ file'[k] = None
                      /\ (status'[k] \in {"absent", "alias"}) = (snapshot[k] = None)
                      /\ status'[k] = "queued" => attempt'[k] < MaxAttempts /\ file'[k] = None
                      /\ status'[k] = "candidate-ready" => file'[k] # None
    BY DEF JobInv
  <2>1. CASE k # j
    BY <1>4, <1>6, <2>1 DEF StewardInv, JobInv
  <2>2. CASE k = j
    <3>1. snapshot[j] # None
      BY <1>3 DEF StewardInv, JobInv
    <3> QED BY <1>4, <1>6, <2>2, <3>1
  <2> QED BY <2>1, <2>2
<1>10. PublishedInv' /\ CommittedInv'
  <2>1. DOMAIN versions = 1..Len(versions)
    BY DEF TypeOK, StoreTypeOK
  <2>2. \A n \in DOMAIN versions : versions[n].job # j
    BY <1>3, <2>1 DEF PublishedBy
  <2>3. \A k \in Jobs : k # j /\ Done(k) => Done(k)'
    BY <1>1, <1>4 DEF Done
  <2>4. PublishedInv'
    <3> SUFFICES ASSUME NEW n \in DOMAIN versions, versions[n].job \in Jobs
                 PROVE  LET k == versions[n].job IN
                        /\ versions[n].status = "current"
                        /\ snapshot[k].expected = n - 1
                        /\ versions[n].entries = hash'[k]
                        /\ file'[k] = Candidate(hash'[k])
                        /\ Done(k)'
      BY DEF PublishedInv, Done, Candidate
    <3> QED BY <1>6, <2>2, <2>3 DEF StewardInv, PublishedInv
  <2>5. CommittedInv'
    BY <1>2, <1>4 DEF StewardInv, CommittedInv
  <2> QED BY <2>4, <2>5
<1> QED BY <1>1, <1>5, <1>7, <1>8, <1>9, <1>10, Elsewhere DEF StewardInv

(* A job is taken: its candidate, or else a new attempt, which is counted  *)
(* before anything can go wrong with it.                                   *)
LEMMA TakeKeeps == ASSUME TypeOK, StewardInv, TakeCandidate \/ BeginAttempt PROVE StewardInv'
<1>1. /\ UNCHANGED <<ledger, versions, review, entryFile, phase, step, op, reply, order,
                     snapshot, queue, paused, stopping, enqueuing, authorized, round, late,
                     hash, file, calls, content>>
      /\ pc = "take" /\ phase = "up" /\ queue # <<>>
  BY DEF TakeCandidate, BeginAttempt, Unlocked, Goto, knowledgeVars, vars, jobVars, controlVars
<1>2. Job \in Jobs /\ Job' = Job /\ Cited' = Cited
      /\ status[Job] \in {"queued", "candidate-ready"} /\ status \in [Jobs -> Statuses]
  BY <1>1, InHand, SameView DEF Job, StewardInv, StewardTypes
<1>3. /\ attempt \in [Jobs -> Nat] /\ calls \in [Jobs -> Nat]
      /\ hash \in [Jobs -> {None} \cup SUBSET Cited]
      /\ file \in [Jobs -> {None} \cup [complete : BOOLEAN, entries : SUBSET Cited]]
  BY DEF StewardInv, StewardTypes
<1>4. /\ calls[Job] <= attempt[Job] /\ attempt[Job] <= MaxAttempts /\ MaxAttempts \in Nat
      /\ status[Job] = "queued" => attempt[Job] < MaxAttempts /\ file[Job] = None
      /\ status[Job] = "candidate-ready" => file[Job] # None
  BY <1>2, StewardAssumption DEF StewardInv, JobInv
<1>5. CASE TakeCandidate
  <2>1. /\ pc' = "verify" /\ status[Job] = "candidate-ready" /\ UNCHANGED <<status, attempt>>
        /\ status' = [status EXCEPT ![Job] = "candidate-ready"]
    BY <1>2, <1>4, <1>5 DEF TakeCandidate, Goto, jobVars
  <2>2. WorkInv' /\ pc' \notin Executing
    BY <2>1 DEF WorkInv, Executing
  <2> QED BY <1>1, <1>2, <1>3, <1>4, <2>1, <2>2, GotoKeeps
<1>6. CASE BeginAttempt
  <2>1. /\ pc' = "check" /\ status' = [status EXCEPT ![Job] = "running"]
        /\ attempt' = [attempt EXCEPT ![Job] = @ + 1] /\ status[Job] = "queued"
    BY <1>2, <1>4, <1>6 DEF BeginAttempt, Goto
  <2>2. /\ attempt' \in [Jobs -> Nat] /\ attempt'[Job] = attempt[Job] + 1
        /\ \A j \in Jobs : j # Job => attempt'[j] = attempt[j]
    BY <1>2, <1>3, <2>1
  <2>3. calls[Job] \in Nat /\ attempt[Job] \in Nat
    BY <1>2, <1>3
  <2>4. calls[Job] < attempt'[Job] /\ attempt'[Job] <= MaxAttempts
    BY <1>4, <2>1, <2>2, <2>3
  <2>5. WorkInv' /\ pc' \in Executing
    BY <1>1, <1>2, <2>1, <2>4 DEF WorkInv, Executing
  <2>6. calls'[Job] <= attempt'[Job]
    BY <1>1, <2>2, <2>3, <2>4
  <2> QED BY <1>1, <1>2, <1>3, <2>1, <2>2, <2>4, <2>5, <2>6, GotoKeeps
<1> QED BY <1>5, <1>6

-----------------------------------------------------------------------------
(* The worker's moves that change nothing in queue.json, and what it finds. *)
LEMMA InExecution ==
  ASSUME TypeOK, StewardInv, pc \in Executing \cup {"verify"}
  PROVE  /\ phase = "up" /\ queue # <<>> /\ Job \in Jobs
         /\ status \in [Jobs -> Statuses] /\ attempt \in [Jobs -> Nat] /\ calls \in [Jobs -> Nat]
         /\ hash \in [Jobs -> {None} \cup SUBSET Cited]
         /\ file \in [Jobs -> {None} \cup [complete : BOOLEAN, entries : SUBSET Cited]]
         /\ calls[Job] <= attempt[Job] /\ attempt[Job] <= MaxAttempts
         /\ pc \in Executing => status = [status EXCEPT ![Job] = "running"]
         /\ pc = "verify" => /\ status = [status EXCEPT ![Job] = "candidate-ready"]
                             /\ file[Job] # None
<1>1. queue # <<>> /\ Job \in Jobs
  BY JobIsJob DEF Publishing
<1>2. phase = "up"
  BY DEF StewardInv, PhaseInv, Executing
<1>3. /\ status \in [Jobs -> Statuses] /\ attempt \in [Jobs -> Nat] /\ calls \in [Jobs -> Nat]
      /\ hash \in [Jobs -> {None} \cup SUBSET Cited]
      /\ file \in [Jobs -> {None} \cup [complete : BOOLEAN, entries : SUBSET Cited]]
  BY DEF StewardInv, StewardTypes
<1>4. /\ pc \in Executing => status[Job] = "running"
      /\ pc = "verify" => status[Job] = "candidate-ready"
  BY <1>1, <1>2, InHand
<1>5. /\ calls[Job] <= attempt[Job] /\ attempt[Job] <= MaxAttempts
      /\ status[Job] = "candidate-ready" => file[Job] # None
  BY <1>1 DEF StewardInv, JobInv
<1>6. /\ pc \in Executing => status = [status EXCEPT ![Job] = "running"]
      /\ pc = "verify" => status = [status EXCEPT ![Job] = "candidate-ready"]
  BY <1>1, <1>3, <1>4
<1> QED BY <1>1, <1>2, <1>3, <1>4, <1>5, <1>6

LEMMA CheckSnapshotKeeps == ASSUME TypeOK, StewardInv, CheckSnapshot PROVE StewardInv'
<1>1. CASE Fall(Job, "failed")
  BY <1>1, FallKeeps DEF CheckSnapshot, Executing
<1>2. CASE Goto("call") /\ UNCHANGED <<knowledgeVars, jobVars, controlVars, file, calls>>
  <2>1. /\ UNCHANGED <<ledger, versions, review, entryFile, phase, step, op, reply, order,
                       status, attempt, snapshot, hash, queue, paused, stopping, enqueuing,
                       authorized, round, late, file, calls, content>>
        /\ pc = "check" /\ pc' = "call" /\ {"check", "call"} \subseteq Executing
    BY <1>2 DEF CheckSnapshot, Goto, knowledgeVars, vars, jobVars, controlVars, Executing
  <2>2. Job' = Job
    BY <2>1 DEF Job
  <2>3. WorkInv'
    BY <2>1, <2>2 DEF StewardInv, WorkInv
  <2> QED BY <2>1, <2>3, InExecution, GotoKeeps
<1> QED BY <1>1, <1>2 DEF CheckSnapshot

LEMMA CallKeeps == ASSUME TypeOK, StewardInv, NEW answer, Call(answer) PROVE StewardInv'
<1>1. /\ UNCHANGED <<ledger, versions, review, entryFile, phase, step, op, reply, order,
                     status, attempt, snapshot, hash, queue, paused, stopping, enqueuing,
                     authorized, round, late, file>>
      /\ pc = "call" /\ pc' = "called" /\ {"call", "called"} \subseteq Executing
      /\ calls' = [calls EXCEPT ![Job] = @ + 1]
  BY DEF Call, knowledgeVars, vars, jobVars, controlVars, Executing
<1>2. calls[Job] < attempt[Job]
  BY <1>1 DEF StewardInv, WorkInv
<1>3. /\ calls' \in [Jobs -> Nat] /\ calls'[Job] <= attempt[Job]
      /\ \A j \in Jobs : j # Job => calls'[j] = calls[j]
  BY <1>1, <1>2, InExecution
<1>4. WorkInv'
  BY <1>1 DEF WorkInv
<1> QED BY <1>1, <1>3, <1>4, InExecution, GotoKeeps

LEMMA CheckAnswerKeeps == ASSUME TypeOK, StewardInv, CheckAnswer PROVE StewardInv'
<1>1. CASE Fall(Job, "failed") \/ Fall(Job, "needs-decision")
  BY <1>1, FallKeeps DEF CheckAnswer, Executing
<1>2. CASE /\ Valid(Sources, content) /\ Goto("hash")
           /\ UNCHANGED <<knowledgeVars, jobVars, controlVars, file, calls>>
  <2>1. /\ UNCHANGED <<ledger, versions, review, entryFile, phase, step, op, reply, order,
                       status, attempt, snapshot, hash, queue, paused, stopping, enqueuing,
                       authorized, round, late, file, calls, content>>
        /\ pc = "called" /\ pc' = "hash" /\ {"called", "hash"} \subseteq Executing
    BY <1>2 DEF CheckAnswer, Goto, knowledgeVars, vars, jobVars, controlVars, Executing
  <2>2. content' \in SUBSET Cited'
    BY <1>2, <2>1, ValidCited, SameView
  <2>3. WorkInv'
    BY <2>1, <2>2 DEF WorkInv
  <2> QED BY <2>1, <2>3, InExecution, GotoKeeps
<1> QED BY <1>1, <1>2 DEF CheckAnswer

(* The answer is written down: its hash, then the file.                    *)
LEMMA SaveHashKeeps == ASSUME TypeOK, StewardInv, SaveHash PROVE StewardInv'
<1>1. /\ UNCHANGED <<ledger, versions, review, entryFile, phase, step, op, reply, order,
                     status, attempt, snapshot, queue, paused, stopping, enqueuing,
                     authorized, round, late, file, calls, content>>
      /\ pc = "hash" /\ pc' = "create" /\ {"hash", "create"} \subseteq Executing
      /\ hash' = [hash EXCEPT ![Job] = content]
  BY DEF SaveHash, Goto, knowledgeVars, vars, controlVars, Executing
<1>2. content \in SUBSET Cited
  BY <1>1 DEF StewardInv, WorkInv
<1>3. /\ hash' \in [Jobs -> {None} \cup SUBSET Cited] /\ hash'[Job] = content
      /\ \A j \in Jobs : j # Job => hash'[j] = hash[j]
  BY <1>1, <1>2, InExecution
<1>4. WorkInv'
  BY <1>1, <1>2, <1>3, SameView DEF WorkInv, Job
<1> QED BY <1>1, <1>3, <1>4, InExecution, GotoKeeps

LEMMA FileKeeps == ASSUME TypeOK, StewardInv, CreateFile \/ WriteFile PROVE StewardInv'
<1>1. PICK c \in {[complete |-> FALSE, entries |-> {}], Candidate(content)} :
        file' = [file EXCEPT ![Job] = c] /\ (pc = "write" => c = Candidate(content))
  <2>1. CASE CreateFile
    BY <2>1 DEF CreateFile
  <2>2. CASE WriteFile
    BY <2>2 DEF WriteFile
  <2> QED BY <2>1, <2>2
<1>2. /\ UNCHANGED <<ledger, versions, review, entryFile, phase, step, op, reply, order,
                     status, attempt, snapshot, hash, queue, paused, stopping, enqueuing,
                     authorized, round, late, calls, content>>
      /\ {"create", "write", "mark"} \subseteq Executing
      /\ <<pc, pc'>> \in {<<"create", "write">>, <<"write", "mark">>}
  BY DEF CreateFile, WriteFile, Goto, knowledgeVars, vars, jobVars, controlVars, Executing
<1>3. content \in SUBSET Cited /\ content = hash[Job]
  BY <1>2 DEF StewardInv, WorkInv
<1>4. c \in [complete : BOOLEAN, entries : SUBSET Cited]
  <2>1. [complete |-> FALSE, entries |-> {}] \in [complete : BOOLEAN, entries : SUBSET Cited]
    OBVIOUS
  <2>2. Candidate(content) \in [complete : BOOLEAN, entries : SUBSET Cited]
    BY <1>3 DEF Candidate
  <2> QED BY <2>1, <2>2
<1>5. /\ file' \in [Jobs -> {None} \cup [complete : BOOLEAN, entries : SUBSET Cited]]
      /\ file'[Job] = c /\ \A j \in Jobs : j # Job => file'[j] = file[j]
  BY <1>1, <1>2, <1>4, InExecution
<1>6. WorkInv'
  <2>1. hash'[Job'] = hash[Job] /\ file'[Job'] = c /\ content' = content /\ Cited' = Cited
    BY <1>2, <1>5, SameView DEF Job
  <2>2. pc' \in {"write", "mark"} /\ (pc' = "mark" => c = Candidate(content))
    BY <1>1, <1>2
  <2> QED BY <1>3, <2>1, <2>2 DEF WorkInv, Candidate
<1> QED BY <1>2, <1>5, <1>6, InExecution, GotoKeeps

LEMMA MarkReadyKeeps == ASSUME TypeOK, StewardInv, MarkReady PROVE StewardInv'
<1>1. /\ UNCHANGED <<ledger, versions, review, entryFile, phase, step, op, reply, order,
                     attempt, snapshot, hash, queue, paused, stopping, enqueuing,
                     authorized, round, late, file, calls, content>>
      /\ pc = "mark" /\ pc' = "verify" /\ "mark" \in Executing /\ "verify" \notin Executing
      /\ status' = [status EXCEPT ![Job] = "candidate-ready"]
  BY DEF MarkReady, Goto, knowledgeVars, vars, controlVars, Executing
<1>2. file[Job] # None
  BY <1>1, ThereIsNotNone DEF StewardInv, WorkInv
<1>3. WorkInv'
  BY <1>1 DEF WorkInv
<1> QED BY <1>1, <1>2, <1>3, InExecution, GotoKeeps

(* Only the complete file with the recorded hash is given to publication.  *)
LEMMA VerifyKeeps == ASSUME TypeOK, StewardInv, Verify PROVE StewardInv'
<1>1. CASE Fall(Job, "failed")
  BY <1>1, FallKeeps DEF Verify
<1>2. CASE /\ file[Job] = Candidate(hash[Job]) /\ pc' = "publish" /\ content' = file[Job].entries
           /\ UNCHANGED <<knowledgeVars, jobVars, controlVars, queue, late, file, calls>>
  <2>1. /\ UNCHANGED <<ledger, versions, review, entryFile, phase, step, op, reply, order,
                       status, attempt, snapshot, hash, queue, paused, stopping, enqueuing,
                       authorized, round, late, file, calls>>
        /\ pc = "verify" /\ "verify" \notin Executing /\ "publish" \notin Executing
    BY <1>2 DEF Verify, knowledgeVars, vars, jobVars, controlVars, Executing
  <2>2. content' = hash[Job]
    BY <1>2 DEF Candidate
  <2>3. WorkInv'
    BY <1>2, <2>1, <2>2 DEF WorkInv, Job
  <2> QED BY <1>2, <2>1, <2>3, InExecution, GotoKeeps
<1> QED BY <1>1, <1>2 DEF Verify

-----------------------------------------------------------------------------
-----------------------------------------------------------------------------
(* Publication: the steward's lock and the store's step together.          *)
LEMMA BeginPublicationKeeps ==
  ASSUME TypeOK, StewardInv, BeginPublication
  PROVE  StewardInv'
<1>1. /\ pc = "publish" /\ phase = "up" /\ step = "idle" /\ enqueuing = None
      /\ ~paused /\ ~stopping /\ authorized
      /\ Publish(Job, snapshot[Job], content)
      /\ UNCHANGED <<order, attempt, snapshot, hash, file, calls, paused, stopping, enqueuing,
                     authorized, round>>
  BY DEF BeginPublication, Unlocked, MustStop, Publish, Free, controlVars
<1>2. Job \in Jobs /\ PublishedBy(Job) = {}
  BY <1>1, JobIsJob, WorkIsUnpublished DEF Publishing
<1>3. CASE Refuse("fault")
  <2>1. step' = "idle" /\ reply' = "fault" /\ UNCHANGED <<ledger, versions, phase>>
    BY <1>3 DEF Refuse, Answer, durable
  <2>2. status' = [status EXCEPT ![Job] = "failed"] /\ NextJob
    BY <2>1 DEF BeginPublication
  <2> QED BY <1>1, <1>2, <2>1, <2>2, CloseKeeps DEF Publishing, CommitSteps
<1>4. CASE /\ snapshot[Job] = Snapshot
           /\ Commit(Draft(Sig, content, "current", Job, 0), "published")
  <2> DEFINE draft == Draft(Sig, content, "current", Job, 0)
  <2>1. draft.job = Job /\ draft.status = "current" /\ draft.entries = content /\ draft.sig = Sig
    BY DEF Draft
  <2>2. /\ step' \in CommitSteps /\ op'.draft = draft /\ op'.answer = "published"
        /\ reply' = "none" /\ step' # "idle"
        /\ UNCHANGED <<ledger, versions, phase, review, entryFile>>
    BY <1>4 DEF Commit, Begin, NoOp, CommitSteps, durable
  <2>3. pc' = "publishing" /\ UNCHANGED <<status, queue, content, late>>
    BY <2>2 DEF BeginPublication, Goto
  <2>4. Job' = Job /\ Cited' = Cited /\ \A j : PublishedBy(j)' = PublishedBy(j)
    BY <2>2, <2>3, SameView DEF Job
  <2> HIDE DEF draft
  <2>5. StewardTypes'
    BY <1>1, <2>3, <2>4 DEF StewardInv, StewardTypes, Labels
  <2>6. QueueInv'
    BY <1>1, <2>3, <2>4 DEF StewardInv, QueueInv, HasWork, Executing, Publishing
  <2>7. PhaseInv' /\ JobInv' /\ WorkInv'
    BY <1>1, <2>2, <2>3, <2>4 DEF StewardInv, PhaseInv, JobInv, WorkInv, Candidate
  <2>8. PublishedInv' /\ CommittedInv'
    BY <1>1, <2>2, <2>3, <2>4 DEF StewardInv, PublishedInv, CommittedInv, Done, Candidate
  <2>9. snapshot[Job] = [sig |-> Sig, expected |-> Len(versions)]
    BY <1>4 DEF Snapshot
  <2>10. CommitInv' /\ RecoverInv'
    BY <1>1, <1>2, <2>1, <2>2, <2>3, <2>4, <2>9 DEF CommitInv, RecoverInv, CommitSteps, ActivateSteps,
       PublishAnswers
  <2> QED BY <2>5, <2>6, <2>7, <2>8, <2>10 DEF StewardInv
<1> QED BY <1>1, <1>2, <1>3, <1>4 DEF Publish

LEMMA EndPublicationKeeps == ASSUME TypeOK, StewardInv, EndPublication PROVE StewardInv'
<1>1. PICK s \in {"committed", "failed"} :
        Close(Job, s) /\ (s = "committed" => reply \in PublishAnswers)
  BY DEF EndPublication, PublishAnswers
<1>2. pc = "publishing" /\ step = "idle" /\ phase = "up" /\ enqueuing = None
  BY DEF EndPublication, StewardInv, PhaseInv
<1>3. /\ status' = [status EXCEPT ![Job] = s] /\ NextJob
      /\ UNCHANGED <<ledger, versions, phase, order, attempt, snapshot, hash, file, calls,
                     paused, stopping, enqueuing, authorized, round, step>>
  BY <1>1 DEF Close, knowledgeVars, vars, controlVars
<1>4. s = "committed" => PublishedBy(Job) # {}
  BY <1>1, <1>2 DEF StewardInv, CommitInv
<1> QED BY <1>2, <1>3, <1>4, CloseKeeps DEF Publishing, CommitSteps

-----------------------------------------------------------------------------
(* What the store does by itself leaves queue and worker alone.            *)
LEMMA StoreStep ==
  ASSUME TypeOK, StewardInv, UNCHANGED stewardVars, UNCHANGED phase, ledger \subseteq ledger'
  PROVE  /\ StewardTypes' /\ QueueInv' /\ PhaseInv' /\ JobInv' /\ WorkInv'
         /\ Job' = Job /\ \A j : Done(j) => Done(j)'
         /\ UNCHANGED <<status, snapshot, hash, file, pc, queue, content>>
<1>1. UNCHANGED <<order, status, attempt, snapshot, hash, round, paused, stopping, enqueuing,
                  authorized, pc, queue, content, late, file, calls>>
  BY DEF stewardVars, jobVars, controlVars, workerVars
<1>2. Cited \subseteq Cited'
  BY Growth
<1>3. StewardTypes'
  <2>1. hash' \in [Jobs -> {None} \cup SUBSET Cited']
    <3>1. hash \in [Jobs -> {None} \cup SUBSET Cited]
      BY DEF StewardInv, StewardTypes
    <3> QED BY <1>1, <1>2, <3>1
  <2>2. file' \in [Jobs -> {None} \cup [complete : BOOLEAN, entries : SUBSET Cited']]
    <3>1. file \in [Jobs -> {None} \cup [complete : BOOLEAN, entries : SUBSET Cited]]
      BY DEF StewardInv, StewardTypes
    <3>2. [complete : BOOLEAN, entries : SUBSET Cited]
            \subseteq [complete : BOOLEAN, entries : SUBSET Cited']
      BY <1>2
    <3> QED BY <1>1, <3>1, <3>2
  <2> QED BY <1>1, <2>1, <2>2 DEF StewardInv, StewardTypes
<1>4. QueueInv' /\ PhaseInv' /\ JobInv' /\ WorkInv'
  BY <1>1, <1>2 DEF StewardInv, QueueInv, HasWork, Job, PhaseInv, JobInv, WorkInv, Candidate
<1>5. Job' = Job /\ \A j : Done(j) => Done(j)'
  BY <1>1 DEF Job, Done
<1> QED BY <1>1, <1>3, <1>4, <1>5

LEMMA SameVersions ==
  ASSUME StewardInv, UNCHANGED <<versions, status, snapshot, hash, file>>,
         \A j : Done(j) => Done(j)'
  PROVE  PublishedInv' /\ CommittedInv' /\ \A j : PublishedBy(j)' = PublishedBy(j)
<1>1. \A j : PublishedBy(j)' = PublishedBy(j)
  BY DEF PublishedBy
<1>2. CommittedInv'
  BY <1>1 DEF StewardInv, CommittedInv
<1>3. PublishedInv'
  BY DEF StewardInv, PublishedInv, Done, Candidate
<1> QED BY <1>1, <1>2, <1>3

-----------------------------------------------------------------------------
(* A request to the store by others, while the steward publishes or not.   *)
Foreign ==
  /\ UNCHANGED <<ledger, versions>>
  /\ step' \notin ActivateSteps
  /\ step' \in CommitSteps => op'.answer = "restored" /\ op'.draft.job \notin Jobs
  /\ step' = "index" => op'.answer \notin PublishAnswers
  /\ reply' \notin PublishAnswers

LEMMA RefuseForeign ==
  ASSUME NEW a \in {"fault", "alreadyRestored"}, Refuse(a)
  PROVE  Foreign
  BY DEF Refuse, Answer, durable, Foreign, ActivateSteps, CommitSteps, PublishAnswers

LEMMA SubmitForeign == ASSUME NEW rec, SubmitRecord(rec) PROVE Foreign
<1> USE DEF ActivateSteps, CommitSteps, PublishAnswers, durable
<1>1. CASE Refuse("fault")
  BY <1>1, RefuseForeign
<1>2. CASE Reimport
  <2>1. step' = "index" /\ op'.answer = "alreadyImported" /\ reply' = "none"
        /\ UNCHANGED <<ledger, versions>>
    BY <1>2 DEF Reimport, Begin, NoOp
  <2> QED BY <2>1 DEF Foreign
<1>3. CASE Begin(FirstImportStep, [NoOp EXCEPT !.rec = rec, !.answer = "imported"])
  <2>1. /\ step' \in {"withdrawReview", "commitRecord"} /\ reply' = "none"
        /\ UNCHANGED <<ledger, versions>>
    BY <1>3 DEF Begin, FirstImportStep
  <2> QED BY <2>1 DEF Foreign
<1> QED BY <1>1, <1>2, <1>3 DEF SubmitRecord

LEMMA RestoreForeign == ASSUME NEW e \in RestoreEvents, NEW n, NEW x, Restore(e, n, x) PROVE Foreign
<1> DEFINE draft == Draft(versions[n].sig, versions[n].entries, "pending-review", e, n)
<1>1. CASE Commit(draft, "restored")
  <2>1. draft.job = e
    BY DEF Draft
  <2>2. /\ op'.draft = draft /\ op'.answer = "restored" /\ reply' = "none"
        /\ step' \in CommitSteps /\ UNCHANGED <<ledger, versions>>
    BY <1>1 DEF Commit, Begin, NoOp, CommitSteps, durable
  <2> HIDE DEF draft
  <2>3. e \notin Jobs
    BY PublishersAssumption
  <2> QED BY <2>1, <2>2, <2>3 DEF Foreign, CommitSteps, ActivateSteps, PublishAnswers
<1>2. CASE \E a \in {"fault", "alreadyRestored"} : Refuse(a)
  BY <1>2, RefuseForeign
<1> QED BY <1>1, <1>2 DEF Restore

LEMMA VaultRequestKeeps == ASSUME TypeOK, StewardInv, VaultRequest PROVE StewardInv'
<1>1. Foreign /\ phase = "up" /\ UNCHANGED phase
  <2>1. Foreign
    BY SubmitForeign, RestoreForeign DEF VaultRequest, Submit
  <2>2. \A a : Refuse(a) => UNCHANGED phase
    BY DEF Refuse
  <2>3. \A s, o : Begin(s, o) => UNCHANGED phase
    BY DEF Begin
  <2>4. phase = "up" /\ UNCHANGED phase
    BY <2>2, <2>3 DEF VaultRequest, Submit, SubmitRecord, Reimport, Restore, Commit, Free
  <2> QED BY <2>1, <2>4
<1>2. UNCHANGED stewardVars /\ ledger \subseteq ledger'
  BY <1>1 DEF VaultRequest, Foreign
<1>3. /\ StewardTypes' /\ QueueInv' /\ PhaseInv' /\ JobInv' /\ WorkInv'
      /\ PublishedInv' /\ CommittedInv'
      /\ UNCHANGED pc
  BY <1>1, <1>2, StoreStep, SameVersions DEF Foreign
<1>4. pc # "recovering"
  BY <1>1 DEF StewardInv, PhaseInv
<1>5. CommitInv' /\ RecoverInv'
  BY <1>1, <1>3, <1>4 DEF Foreign, CommitInv, RecoverInv, PublishAnswers
<1> QED BY <1>3, <1>5 DEF StewardInv

LEMMA ImportKeeps ==
  ASSUME TypeOK, AnswerInv, StewardInv, UNCHANGED stewardVars,
         WithdrawReview \/ WithdrawEntry \/ CommitRecord
  PROVE  StewardInv'
<1> USE DEF ImportSteps, CommitSteps, ActivateSteps, PublishAnswers
<1>1. /\ UNCHANGED <<versions, phase, op, reply>> /\ ledger \subseteq ledger'
      /\ step \in ImportSteps /\ step' \in {"withdrawEntry", "commitRecord", "index"}
      /\ op.answer = "imported"
  BY DEF WithdrawReview, WithdrawEntry, CommitRecord, AnswerInv
<1>2. /\ StewardTypes' /\ QueueInv' /\ PhaseInv' /\ JobInv' /\ WorkInv'
      /\ PublishedInv' /\ CommittedInv' /\ Job' = Job
      /\ UNCHANGED <<pc, status, snapshot, hash, file, content>>
  BY <1>1, StoreStep, SameVersions
<1>3. PublishedBy(Job)' = PublishedBy(Job) /\ pc # "recovering"
  BY <1>1, <1>2 DEF PublishedBy, StewardInv, RecoverInv
<1>4. CommitInv' /\ RecoverInv'
  BY <1>1, <1>2, <1>3 DEF StewardInv, CommitInv, RecoverInv
<1> QED BY <1>2, <1>4 DEF StewardInv

LEMMA EnsureKeeps ==
  ASSUME TypeOK, StewardInv, UNCHANGED stewardVars, Ensure
  PROVE  StewardInv'
<1> USE DEF ImportSteps, CommitSteps, ActivateSteps, PublishAnswers
<1>1. /\ UNCHANGED <<ledger, versions, phase, op, reply>> /\ ledger \subseteq ledger'
      /\ step = "ensure" /\ step' = "commitVersion"
  BY DEF Ensure
<1>2. /\ StewardTypes' /\ QueueInv' /\ PhaseInv' /\ JobInv' /\ WorkInv'
      /\ PublishedInv' /\ CommittedInv' /\ Job' = Job
      /\ UNCHANGED <<pc, status, snapshot, hash, file, content>>
  BY <1>1, StoreStep, SameVersions
<1>3. PublishedBy(Job)' = PublishedBy(Job) /\ pc # "recovering"
  BY <1>1, <1>2 DEF PublishedBy, StewardInv, RecoverInv
<1>4. CommitInv' /\ RecoverInv'
  BY <1>1, <1>2, <1>3 DEF StewardInv, CommitInv, RecoverInv
<1> QED BY <1>2, <1>4 DEF StewardInv

LEMMA ActivateKeeps ==
  ASSUME TypeOK, StewardInv, UNCHANGED stewardVars, ActivateReview \/ ActivateEntry \/ Index
  PROVE  StewardInv'
<1> USE DEF ImportSteps, CommitSteps, ActivateSteps, PublishAnswers
<1>1. /\ UNCHANGED <<ledger, versions, phase>> /\ ledger \subseteq ledger'
      /\ \/ /\ step = "activateReview" /\ step' = "activateEntry" /\ UNCHANGED <<op, reply, entryFile>>
            /\ review' = (versions[op.version].status # "current")
         \/ /\ step = "activateEntry" /\ step' = "index" /\ UNCHANGED <<op, reply, review>>
            /\ entryFile' = IF versions[op.version].status = "current" THEN op.version ELSE 0
         \/ step = "index" /\ step' = "idle" /\ reply' = op.answer /\ UNCHANGED <<review, entryFile>>
  BY DEF ActivateReview, ActivateEntry, Index, Answer
<1>2. /\ StewardTypes' /\ QueueInv' /\ PhaseInv' /\ JobInv' /\ WorkInv'
      /\ PublishedInv' /\ CommittedInv' /\ Job' = Job
      /\ UNCHANGED <<pc, status, snapshot, hash, file, content>>
  BY <1>1, StoreStep, SameVersions
<1>3. PublishedBy(Job)' = PublishedBy(Job) /\ Sig' = Sig
  BY <1>1, <1>2 DEF PublishedBy, Sig
<1>4. CommitInv'
  BY <1>1, <1>2, <1>3 DEF StewardInv, CommitInv
<1>5. RecoverInv'
  <2>1. RecoverInv
    BY DEF StewardInv
  <2>2. CASE step = "activateReview"
    BY <1>1, <1>2, <1>3, <2>1, <2>2 DEF RecoverInv
  <2>3. CASE step = "activateEntry"
    BY <1>1, <1>2, <1>3, <2>1, <2>3 DEF RecoverInv
  <2>4. CASE step = "index"
    BY <1>1, <1>2, <1>3, <2>1, <2>4 DEF RecoverInv
  <2> QED BY <1>1, <2>2, <2>3, <2>4
<1> QED BY <1>2, <1>4, <1>5 DEF StewardInv

(* The version appears: of the job in the worker's hands, or of a restore. *)
LEMMA CommitVersionKeeps ==
  ASSUME TypeOK, StewardInv, UNCHANGED stewardVars, CommitVersion
  PROVE  StewardInv'
<1> USE DEF ImportSteps, CommitSteps, ActivateSteps, PublishAnswers
<1>1. versions \in Seq(VersionRecords) /\ Len(versions) \in Nat /\ DOMAIN versions = 1..Len(versions)
  BY DEF TypeOK, StoreTypeOK
<1>2. /\ UNCHANGED <<ledger, phase, reply>> /\ ledger \subseteq ledger'
      /\ step = "commitVersion" /\ step' = "activateReview" /\ op'.answer = op.answer
      /\ versions' = Append(versions, op.draft)
  BY DEF CommitVersion, Activation, NoOp
<1>3. /\ Len(versions') = Len(versions) + 1 /\ DOMAIN versions' = 1..(Len(versions) + 1)
      /\ versions'[Len(versions) + 1] = op.draft
      /\ \A n \in 1..Len(versions) : versions'[n] = versions[n]
  BY <1>1, <1>2
<1>4. /\ StewardTypes' /\ QueueInv' /\ PhaseInv' /\ JobInv' /\ WorkInv' /\ Job' = Job
      /\ \A j : Done(j) => Done(j)'
      /\ UNCHANGED <<pc, status, snapshot, hash, file, content>>
  BY <1>2, StoreStep
<1>5. /\ op.draft.job \in Jobs =>
           /\ pc = "publishing" /\ Job = op.draft.job
           /\ op.draft.status = "current" /\ op.draft.entries = content
           /\ snapshot[Job].expected = Len(versions)
      /\ pc = "publishing" /\ op.answer \in PublishAnswers => op.draft.job \in Jobs
      /\ pc # "recovering"
  BY <1>2 DEF StewardInv, CommitInv, RecoverInv
<1>6. pc = "publishing" => /\ content = hash[Job] /\ file[Job] = Candidate(hash[Job])
                           /\ status[Job] = "candidate-ready"
  BY DEF StewardInv, WorkInv, QueueInv, Publishing
<1>7. \A j : PublishedBy(j) \subseteq PublishedBy(j)'
             /\ (op.draft.job = j => Len(versions) + 1 \in PublishedBy(j)')
  BY <1>1, <1>3 DEF PublishedBy
<1>8. PublishedInv'
  <2>1. ASSUME NEW n \in DOMAIN versions', NEW k \in Jobs, k = versions'[n].job
        PROVE  /\ versions'[n].status = "current"
               /\ snapshot[k].expected = n - 1
               /\ versions'[n].entries = hash[k]
               /\ file[k] = Candidate(hash[k])
               /\ Done(k)
    <3>1. CASE n \in DOMAIN versions
      <4>1. versions'[n] = versions[n]
        BY <1>1, <1>3, <3>1
      <4> QED BY <2>1, <3>1, <4>1 DEF StewardInv, PublishedInv
    <3>2. CASE n = Len(versions) + 1
      <4>1. versions'[n] = op.draft /\ n - 1 = Len(versions)
        BY <1>1, <1>3, <3>2
      <4>2. k = Job /\ pc = "publishing"
        BY <1>5, <2>1, <4>1
      <4> QED BY <1>5, <1>6, <2>1, <4>1, <4>2 DEF Done
    <3> QED BY <1>1, <1>3, <3>1, <3>2
  <2>2. \A k \in Jobs : Done(k) => Done(k)'
    BY <1>4
  <2> QED BY <1>4, <2>1, <2>2 DEF PublishedInv, Done, Candidate
<1>9. CommittedInv'
  BY <1>4, <1>7 DEF StewardInv, CommittedInv
<1>10. CommitInv' /\ RecoverInv'
  <2>1. pc' = "publishing" /\ op'.answer \in PublishAnswers => PublishedBy(Job)' # {}
    BY <1>2, <1>4, <1>5, <1>7
  <2>2. reply' \in PublishAnswers => reply \in PublishAnswers
    BY <1>2
  <2>3. pc' = "publishing" /\ reply' \in PublishAnswers => PublishedBy(Job)' # {}
    BY <1>4, <1>7, <2>2 DEF StewardInv, CommitInv
  <2> QED BY <1>2, <1>4, <1>5, <2>1, <2>3 DEF CommitInv, RecoverInv
<1> QED BY <1>4, <1>8, <1>9, <1>10 DEF StewardInv

-----------------------------------------------------------------------------
LEMMA VaultFailKeeps == ASSUME TypeOK, StewardInv, VaultFail PROVE StewardInv'
<1>1. /\ UNCHANGED <<ledger, versions, phase, stewardVars>> /\ ledger \subseteq ledger'
      /\ phase = "up" /\ step' = "idle" /\ reply' \in {"indexPending", "fault"}
  BY DEF VaultFail, Fail, Answer, durable
<1>2. /\ StewardTypes' /\ QueueInv' /\ PhaseInv' /\ JobInv' /\ WorkInv'
      /\ PublishedInv' /\ CommittedInv' /\ UNCHANGED pc
  BY <1>1, StoreStep, SameVersions
<1>3. pc # "recovering"
  BY <1>1 DEF StewardInv, PhaseInv
<1>4. CommitInv' /\ RecoverInv'
  BY <1>1, <1>2, <1>3 DEF CommitInv, RecoverInv, CommitSteps, ActivateSteps, PublishAnswers
<1> QED BY <1>2, <1>4 DEF StewardInv

-----------------------------------------------------------------------------
(* Death keeps what the files say; a start first repairs CURRENT.md, then  *)
(* settles every job that was under way.                                   *)
LEMMA DieKeeps == ASSUME TypeOK, StewardInv, Die PROVE StewardInv'
<1>1. /\ UNCHANGED <<ledger, versions, order, status, attempt, snapshot, hash, round, paused,
                     authorized, file, calls>>
      /\ phase' = "down" /\ step' = "idle" /\ pc' = "off" /\ queue' = <<>> /\ content' = None
      /\ late' = FALSE /\ stopping' = FALSE /\ enqueuing' = None
  BY DEF Die, Crash, Answer, durable, jobVars
<1>2. Cited' = Cited /\ \A j : PublishedBy(j)' = PublishedBy(j)
  BY <1>1, SameView
<1>3. StewardTypes'
  <2>1. queue' \in Seq(Jobs) /\ pc' \in Labels
    BY <1>1 DEF Labels
  <2> QED BY <1>1, <1>2, <2>1 DEF StewardInv, StewardTypes
<1>4. QueueInv'
  <2>1. /\ \A i, k \in DOMAIN order : order[i] = order[k] => i = k
        /\ \A i \in DOMAIN order : status[order[i]] \notin {"absent", "alias"}
    BY DEF StewardInv, QueueInv
  <2>2. DOMAIN queue' = {} /\ pc' \notin Executing \cup Publishing
    BY <1>1 DEF Executing, Publishing
  <2> QED BY <1>1, <2>1, <2>2 DEF QueueInv
<1>5. PhaseInv' /\ WorkInv' /\ JobInv'
  BY <1>1 DEF PhaseInv, WorkInv, StewardInv, JobInv
<1>6. PublishedInv' /\ CommittedInv'
  BY <1>1, <1>2 DEF StewardInv, PublishedInv, CommittedInv, Done, Candidate
<1>7. CommitInv' /\ RecoverInv'
  BY <1>1, Elsewhere DEF CommitSteps
<1> QED BY <1>3, <1>4, <1>5, <1>6, <1>7 DEF StewardInv

LEMMA BootKeeps == ASSUME TypeOK, StewardInv, Boot PROVE StewardInv'
<1>1. /\ UNCHANGED <<ledger, versions, order, status, attempt, snapshot, hash, round, paused,
                     stopping, enqueuing, authorized, pc, queue, content, late, file, calls,
                     step, op>>
      /\ phase = "down" /\ phase' = "booting"
  BY DEF Boot, Restart, stewardVars, jobVars, controlVars, workerVars
<1>2. Cited' = Cited /\ Job' = Job /\ \A j : PublishedBy(j)' = PublishedBy(j)
  BY <1>1, SameView DEF Job
<1>3. pc = "off" /\ enqueuing = None
  BY <1>1 DEF StewardInv, PhaseInv
<1>4. StewardTypes' /\ JobInv'
  BY <1>1, <1>2 DEF StewardInv, StewardTypes, JobInv
<1>5. QueueInv' /\ PhaseInv' /\ WorkInv'
  BY <1>1, <1>2, <1>3 DEF StewardInv, QueueInv, HasWork, PhaseInv, WorkInv
<1>6. PublishedInv' /\ CommittedInv'
  BY <1>1, <1>2, <1>3 DEF StewardInv, PublishedInv, CommittedInv, Done, Candidate
<1>7. CommitInv' /\ RecoverInv'
  BY <1>1, <1>3, Elsewhere
<1> QED BY <1>4, <1>5, <1>6, <1>7 DEF StewardInv

LEMMA BootRecoverKeeps == ASSUME TypeOK, StewardInv, NEW j \in Jobs, BootRecover(j) PROVE StewardInv'
<1>1. /\ UNCHANGED <<ledger, versions, phase, order, status, attempt, snapshot, hash, round, paused,
                     stopping, enqueuing, authorized, queue, content, late, file, calls>>
      /\ phase = "booting" /\ pc = "off" /\ pc' = "recovering"
      /\ step' = "activateReview" /\ op'.version = Len(versions)
      /\ versions[Len(versions)].status = "current" /\ versions[Len(versions)].sig = Sig
      /\ Len(versions) \in PublishedBy(j)
  BY DEF BootRecover, Recover, Begin, Activation, NoOp, durable, jobVars, controlVars
<1>2. /\ Cited' = Cited /\ Job' = Job /\ Sig' = Sig /\ \A k : PublishedBy(k)' = PublishedBy(k)
      /\ versions # <<>>
  BY <1>1, SameView, HasVersions DEF Job
<1>3. StewardTypes' /\ JobInv'
  BY <1>1, <1>2 DEF StewardInv, StewardTypes, JobInv, Labels
<1>4. QueueInv' /\ PhaseInv' /\ WorkInv'
  BY <1>1, <1>2 DEF StewardInv, QueueInv, HasWork, PhaseInv, WorkInv, Executing, Publishing
<1>5. PublishedInv' /\ CommittedInv'
  BY <1>1, <1>2 DEF StewardInv, PublishedInv, CommittedInv, Done, Candidate
<1>6. CommitInv' /\ RecoverInv'
  BY <1>1, <1>2 DEF CommitInv, RecoverInv, CommitSteps, ActivateSteps
<1> QED BY <1>3, <1>4, <1>5, <1>6 DEF StewardInv

LEMMA BootServeKeeps == ASSUME TypeOK, StewardInv, BootServe PROVE StewardInv'
<1>1. /\ UNCHANGED <<ledger, versions, order, attempt, snapshot, hash, paused,
                     stopping, enqueuing, authorized, queue, content, late, file, calls, step, op>>
      /\ phase = "booting" /\ phase' = "up" /\ pc' = "off" /\ pc \in {"off", "recovering"}
      /\ status' = [k \in Jobs |-> Settled(k)]
      /\ round' = IF round = "running" THEN "interrupted" ELSE round
  BY DEF BootServe, Serve, durable
<1>2. Cited' = Cited /\ Job' = Job /\ \A k : PublishedBy(k)' = PublishedBy(k)
  BY <1>1, SameView DEF Job
<1>3. \A k \in Jobs :
        /\ status'[k] = Settled(k) /\ Settled(k) \in Statuses
        /\ status[k] \notin Recoverable => Settled(k) = status[k]
        /\ status[k] \in Recoverable =>
             /\ Settled(k) \in {"committed", "candidate-ready", "interrupted"}
             /\ Settled(k) = "committed" <=> PublishedBy(k) # {}
             /\ Settled(k) = "candidate-ready" => file[k] # None
  BY <1>1 DEF Settled, Recoverable, Statuses, StewardInv, StewardTypes
<1>4. StewardTypes'
  BY <1>1, <1>2, <1>3 DEF StewardInv, StewardTypes, Labels
<1>5. QueueInv'
  <2>1. \A i \in DOMAIN order : order[i] \in Jobs /\ status[order[i]] \notin {"absent", "alias"}
    BY DEF StewardInv, StewardTypes, QueueInv
  <2>2. \A i \in DOMAIN order : status'[order[i]] \notin {"absent", "alias"}
    BY <1>3, <2>1
  <2>3. queue = <<>>
    BY <1>1 DEF StewardInv, QueueInv
  <2> QED BY <1>1, <2>2, <2>3 DEF StewardInv, QueueInv, Executing, Publishing
<1>6. PhaseInv' /\ WorkInv'
  BY <1>1 DEF StewardInv, PhaseInv, WorkInv
<1>7. JobInv'
  <2> SUFFICES ASSUME NEW k \in Jobs
               PROVE  /\ calls[k] <= attempt[k] /\ attempt[k] <= MaxAttempts
                      /\ status'[k] = "absent" => attempt[k] = 0 /\ file[k] = None
                      /\ (status'[k] \in {"absent", "alias"}) = (snapshot[k] = None)
                      /\ status'[k] = "queued" => attempt[k] < MaxAttempts /\ file[k] = None
                      /\ status'[k] = "candidate-ready" => file[k] # None
    BY <1>1 DEF JobInv
  <2>1. CASE status[k] \notin Recoverable
    BY <1>3, <2>1 DEF StewardInv, JobInv
  <2>2. CASE status[k] \in Recoverable
    <3>1. snapshot[k] # None
      BY <2>2 DEF StewardInv, JobInv, Recoverable
    <3> QED BY <1>3, <2>2, <3>1 DEF StewardInv, JobInv
  <2> QED BY <2>1, <2>2
<1>8. PublishedInv'
  <2>1. DOMAIN versions = 1..Len(versions)
    BY DEF TypeOK, StoreTypeOK
  <2>2. ASSUME NEW n \in DOMAIN versions, NEW k \in Jobs, k = versions[n].job
        PROVE  status'[k] \in {"committed", "failed"}
    <3>1. Done(k) /\ PublishedBy(k) # {}
      BY <2>1, <2>2 DEF StewardInv, PublishedInv, PublishedBy
    <3> QED BY <1>3, <3>1 DEF Done, Recoverable
  <2> QED BY <1>1, <2>2 DEF StewardInv, PublishedInv, Done, Candidate
<1>9. CommittedInv'
  BY <1>2, <1>3 DEF StewardInv, CommittedInv, Recoverable
<1>10. CommitInv' /\ RecoverInv'
  BY <1>1, Elsewhere DEF BootServe, StewardInv, PhaseInv
<1> QED BY <1>4, <1>5, <1>6, <1>7, <1>8, <1>9, <1>10 DEF StewardInv

-----------------------------------------------------------------------------
LEMMA WorkerKeeps == ASSUME TypeOK, StewardInv, Worker \/ WorkerFault PROVE StewardInv'
<1>1. CASE EndRound \/ Withhold
  BY <1>1, FinishKeeps
<1>2. CASE TakeCandidate \/ BeginAttempt
  BY <1>2, TakeKeeps
<1>3. CASE CheckSnapshot \/ (\E answer : Call(answer)) \/ CheckAnswer
  BY <1>3, CheckSnapshotKeeps, CallKeeps, CheckAnswerKeeps
<1>4. CASE SaveHash \/ CreateFile \/ WriteFile \/ MarkReady \/ Verify
  BY <1>4, SaveHashKeeps, FileKeeps, MarkReadyKeeps, VerifyKeeps
<1>5. CASE CallRefused \/ Deny \/ WorkerFault
  BY <1>5, FallKeeps DEF CallRefused, Deny, WorkerFault, Executing
<1>6. CASE BeginPublication \/ EndPublication
  BY <1>6, BeginPublicationKeeps, EndPublicationKeeps
<1> QED BY <1>1, <1>2, <1>3, <1>4, <1>5, <1>6 DEF Worker

LEMMA NextSteward ==
  ASSUME TypeOK, AnswerInv, StewardInv, [SNext]_allVars
  PROVE  StewardInv'
<1>1. CASE Request \/ Deadline \/ UNCHANGED allVars
  BY <1>1, ControlSteps, EnqueueKeeps, RunKeeps, RetryKeeps DEF Request
<1>2. CASE Worker \/ WorkerFault
  BY <1>2, WorkerKeeps
<1>3. CASE VaultRequest \/ VaultFail
  BY <1>3, VaultRequestKeeps, VaultFailKeeps
<1>4. CASE VaultStep
  BY <1>4, ImportKeeps, EnsureKeeps, CommitVersionKeeps, ActivateKeeps DEF VaultStep
<1>5. CASE Die \/ Boot \/ BootServe \/ \E j \in Jobs : BootRecover(j)
  BY <1>5, DieKeeps, BootKeeps, BootServeKeeps, BootRecoverKeeps
<1> QED BY <1>1, <1>2, <1>3, <1>4, <1>5 DEF SNext

-----------------------------------------------------------------------------
WorldInv ==
  TypeOK /\ LedgerInv /\ EntryInv /\ AnswerInv /\ LedgerFinite /\ StewardInv

LEMMA InitWorld == SInit => WorldInv
<1> SUFFICES ASSUME SInit PROVE WorldInv
  OBVIOUS
<1>1. Init
  BY DEF SInit
<1>2. TypeOK /\ LedgerInv /\ EntryInv /\ AnswerInv
  BY <1>1, InitType, InitLedger, InitEntry, InitAnswer
<1>3. LedgerFinite
  BY <1>1, FS_EmptySet DEF Init, LedgerFinite
<1>4. StewardInv
  BY InitSteward
<1> QED BY <1>2, <1>3, <1>4 DEF WorldInv

LEMMA NextWorld == ASSUME WorldInv, [SNext]_allVars PROVE WorldInv' /\ [Next]_vars
<1>1. TypeOK /\ LedgerInv /\ EntryInv /\ AnswerInv /\ LedgerFinite /\ StewardInv
  BY DEF WorldInv
<1>2. [Next]_vars
  BY <1>1, StewardRefines
<1>3. TypeOK' /\ LedgerInv' /\ EntryInv' /\ AnswerInv' /\ LedgerFinite'
  BY <1>1, <1>2, NextType, NextLedger, NextEntry, NextAnswer, NextFinite
<1>4. StewardInv'
  BY <1>1, NextSteward
<1> QED BY <1>2, <1>3, <1>4 DEF WorldInv

LEMMA WorldAlways == SSpec => []WorldInv
<1>1. SInit => WorldInv
  BY InitWorld
<1>2. WorldInv /\ [SNext]_allVars => WorldInv'
  BY NextWorld
<1> QED BY <1>1, <1>2, PTL DEF SSpec

(* The steward, its crashes and restarts do to the store only what the     *)
(* store's own specification allows: every theorem about Knowledge holds   *)
(* of a store with a steward.                                              *)
THEOREM StewardImplementsStore == SSpec => KnowledgeSpec
<1>1. SInit => Init
  BY DEF SInit
<1>2. WorldInv /\ [SNext]_allVars => [Next]_vars
  BY NextWorld
<1> QED BY <1>1, <1>2, WorldAlways, PTL DEF SSpec, KnowledgeSpec, Spec

(* The types of the queue, the worker and the files; exactly the jobs that *)
(* were created on their own have a snapshot.                              *)
THEOREM StewardTyped == SSpec => []StewardTypeOK
<1>1. WorldInv => StewardTypeOK
  <2> SUFFICES ASSUME WorldInv PROVE StewardTypeOK
    OBVIOUS
  <2>1. attempt \in [Jobs -> 0..MaxAttempts]
    <3>1. attempt \in [Jobs -> Nat] /\ \A j \in Jobs : attempt[j] <= MaxAttempts
      BY DEF WorldInv, StewardInv, StewardTypes, JobInv
    <3>2. \A j \in Jobs : attempt[j] \in 0..MaxAttempts
      BY <3>1, StewardAssumption
    <3> QED BY <3>1, <3>2
  <2>2. <<paused, stopping, late, authorized>> \in [1..4 -> BOOLEAN]
    BY DEF WorldInv, StewardInv, StewardTypes
  <2>3. \A j \in Jobs : (status[j] \in {"absent", "alias"}) = (snapshot[j] = None)
    BY DEF WorldInv, StewardInv, JobInv
  <2> QED BY <2>1, <2>2, <2>3 DEF WorldInv, StewardInv, StewardTypes, StewardTypeOK
<1> QED BY <1>1, WorldAlways, PTL

(* However many calls are lost to crashes and retried by hand, a job makes *)
(* no more than its attempts allow.                                        *)
THEOREM CallsStayBounded == SSpec => []CallsBounded
<1>1. WorldInv => CallsBounded
  BY DEF WorldInv, StewardInv, JobInv, CallsBounded
<1> QED BY <1>1, WorldAlways, PTL

(* A job that published is over, whatever failed after its commit.         *)
THEOREM PublishedJobsStayDone == SSpec => []PublishedJobsAreDone
<1>1. WorldInv => PublishedJobsAreDone
  <2> SUFFICES ASSUME WorldInv, NEW j \in Jobs, PublishedBy(j) # {}, phase = "up"
               PROVE  \/ status[j] \in {"committed", "failed"}
                      \/ pc = "publishing" /\ Job = j
    BY DEF PublishedJobsAreDone
  <2>1. PICK n \in DOMAIN versions : versions[n].job = j
    BY DEF PublishedBy, WorldInv, TypeOK, StoreTypeOK
  <2>2. Done(j)
    BY <2>1 DEF WorldInv, StewardInv, PublishedInv
  <2> QED BY <2>2 DEF Done
<1> QED BY <1>1, WorldAlways, PTL

(* What a job published is its recorded candidate, completely written.     *)
THEOREM OnlyCandidatesPublished == SSpec => []CandidatesPublished
<1>1. WorldInv => CandidatesPublished
  <2> SUFFICES ASSUME WorldInv, NEW j \in Jobs
               PROVE  /\ \A n \in PublishedBy(j) :
                           versions[n].entries = hash[j] /\ file[j] = Candidate(hash[j])
                      /\ status[j] = "committed" => PublishedBy(j) # {}
    BY DEF CandidatesPublished
  <2>1. \A n \in PublishedBy(j) : n \in DOMAIN versions /\ versions[n].job = j
    BY DEF PublishedBy, WorldInv, TypeOK, StoreTypeOK
  <2> QED BY <2>1 DEF WorldInv, StewardInv, PublishedInv, CommittedInv
<1> QED BY <1>1, WorldAlways, PTL

-----------------------------------------------------------------------------
(* Only the rename of a version's directory adds to the versions.          *)
LEMMA OnlyCommitsPublish ==
  ASSUME TypeOK, [Next]_vars
  PROVE  CommitVersion \/ UNCHANGED versions
<1>1. (\E s, o : Begin(s, o)) \/ (\E a : Refuse(a)) => UNCHANGED versions
  BY DEF Begin, Refuse, durable
<1>2. (\E rec : SubmitRecord(rec)) => UNCHANGED versions
  BY <1>1 DEF SubmitRecord, Reimport
<1>3. CASE \/ \E rid, e, x, t : Submit(rid, e, x, t)
           \/ \E e, n, a, t : Correct(e, n, a, t)
           \/ Reindex
  BY <1>1, <1>2, <1>3 DEF Submit, Correct, Reindex
<1>4. CASE \/ \E j, snap, entries : Publish(j, snap, entries)
           \/ \E j : Recover(j)
           \/ \E e, n, x : Restore(e, n, x)
  BY <1>1, <1>4 DEF Publish, Recover, Restore, Commit
<1>5. CASE \/ WithdrawReview \/ WithdrawEntry \/ CommitRecord \/ Index \/ Ensure
           \/ ActivateReview \/ ActivateEntry
  BY <1>5 DEF WithdrawReview, WithdrawEntry, CommitRecord, Index, Ensure, ActivateReview,
     ActivateEntry
<1>6. CASE Fail \/ Crash \/ Restart \/ Serve \/ UNCHANGED vars
  BY <1>6 DEF Fail, Crash, Restart, Serve, durable, vars
<1> QED BY <1>3, <1>4, <1>5, <1>6 DEF Next, Operation, Fault

(* A job publishes only while allowed to, and for the sources it was       *)
(* created with.                                                           *)
THEOREM PublicationsStayAllowed == SSpec => PublicationsAllowed
<1> DEFINE Allowed ==
      Len(versions') > Len(versions) /\ versions'[Len(versions')].job \in Jobs =>
        /\ ~paused /\ ~stopping /\ authorized
        /\ snapshot[versions'[Len(versions')].job].sig = Sig
        /\ snapshot[versions'[Len(versions')].job].expected = Len(versions)
<1>1. WorldInv /\ [SNext]_allVars => Allowed
  <2> SUFFICES ASSUME WorldInv, [SNext]_allVars, Len(versions') > Len(versions),
                      versions'[Len(versions')].job \in Jobs
               PROVE  /\ ~paused /\ ~stopping /\ authorized
                      /\ snapshot[versions'[Len(versions')].job].sig = Sig
                      /\ snapshot[versions'[Len(versions')].job].expected = Len(versions)
    OBVIOUS
  <2>1. TypeOK /\ EntryInv /\ StewardInv /\ [Next]_vars
    BY NextWorld DEF WorldInv
  <2>2. versions \in Seq(VersionRecords) /\ Len(versions) \in Nat
    BY <2>1 DEF TypeOK, StoreTypeOK
  <2>3. CommitVersion
    BY <2>1, <2>2, OnlyCommitsPublish
  <2>4. step = "commitVersion" /\ versions'[Len(versions')] = op.draft
    BY <2>2, <2>3 DEF CommitVersion
  <2>5. op.draft.job \in Jobs /\ step \in CommitSteps
    BY <2>4 DEF CommitSteps
  <2>6. /\ pc = "publishing" /\ Job = op.draft.job /\ op.draft.status = "current"
        /\ snapshot[Job] = [sig |-> op.draft.sig, expected |-> Len(versions)]
    BY <2>1, <2>5 DEF StewardInv, CommitInv
  <2>7. op.draft.sig = Sig
    BY <2>1, <2>5, <2>6 DEF EntryInv
  <2>8. ~paused /\ ~stopping /\ authorized
    BY <2>1, <2>6 DEF StewardInv, WorkInv
  <2> QED BY <2>4, <2>6, <2>7, <2>8
<1>2. PublicationsAllowed <=> [][Allowed]_allVars
  BY PTL DEF PublicationsAllowed
<1> HIDE DEF Allowed
<1> QED BY <1>1, <1>2, WorldAlways, PTL DEF SSpec

LEMMA OnlyServiceServes ==
  ASSUME [SNext]_allVars, phase = "booting", phase' = "up"
  PROVE  BootServe
<1>1. CASE Request \/ Deadline
  BY <1>1 DEF Request, EnqueueRead, Retry, EnqueueSave, Run, Pause, Authorize, Stop, Deadline,
     knowledgeVars, vars
<1>2. CASE WorkerFault \/ (Worker /\ ~BeginPublication)
  <2>1. (\E j, s : Fall(j, s)) \/ (\E j, s : Close(j, s)) => UNCHANGED vars
    BY DEF Fall, Close, knowledgeVars
  <2>2. UNCHANGED vars
    BY <1>2, <2>1 DEF WorkerFault, Worker, EndRound, TakeCandidate, BeginAttempt,
       CheckSnapshot, Call, CallRefused, CheckAnswer, SaveHash, CreateFile, WriteFile,
       MarkReady, Verify, Withhold, Deny, EndPublication, knowledgeVars
  <2> QED BY <2>2 DEF vars
<1>3. CASE BeginPublication \/ VaultRequest \/ VaultFail
  BY <1>3 DEF BeginPublication, Unlocked, VaultRequest, Submit, Restore, Free, VaultFail, Fail
<1>4. CASE VaultStep
  BY <1>4 DEF VaultStep, WithdrawReview, WithdrawEntry, CommitRecord, Index, Ensure, CommitVersion,
     ActivateReview, ActivateEntry
<1>5. CASE Die \/ Boot \/ \E j \in Jobs : BootRecover(j)
  BY <1>5 DEF Die, Crash, Boot, Restart, BootRecover, Recover, Begin
<1>6. CASE UNCHANGED allVars
  BY <1>6 DEF allVars, knowledgeVars, vars
<1> QED BY <1>1, <1>2, <1>3, <1>4, <1>5, <1>6 DEF SNext, Worker

(* A start repairs what a crash between commit and CURRENT.md left.        *)
THEOREM CrashesStayRepaired == SSpec => CrashesAreRepaired
<1> DEFINE Repaired ==
      phase = "booting" /\ phase' = "up" /\ versions # <<>> =>
        LET last == versions[Len(versions)] IN
        last.job \in Jobs /\ last.sig = Sig /\ status[last.job] \in Recoverable =>
          entryFile = Len(versions) /\ IsCurrent
<1>1. WorldInv /\ [SNext]_allVars => Repaired
  <2> SUFFICES ASSUME WorldInv, [SNext]_allVars, phase = "booting", phase' = "up", versions # <<>>,
                      NEW j \in Jobs, versions[Len(versions)].job = j,
                      versions[Len(versions)].sig = Sig, status[j] \in Recoverable
               PROVE  entryFile = Len(versions) /\ IsCurrent
    OBVIOUS
  <2>1. TypeOK /\ StewardInv
    BY DEF WorldInv
  <2>2. BootServe
    BY OnlyServiceServes
  <2>3. CASE pc = "recovering"
    <3>1. step = "idle"
      BY <2>2 DEF BootServe, Serve
    <3> QED BY <2>1, <2>3, <3>1 DEF StewardInv, RecoverInv, IsCurrent
  <2>4. CASE ~NeedsActivation(j)
    <3>1. versions \in Seq(VersionRecords) /\ Len(versions) \in DOMAIN versions
          /\ Len(versions) \in 1..Len(versions)
      BY <2>1 DEF TypeOK, StoreTypeOK
    <3>2. versions[Len(versions)].status = "current" /\ Len(versions) \in PublishedBy(j)
      BY <2>1, <3>1 DEF StewardInv, PublishedInv, PublishedBy
    <3> QED BY <2>4, <3>2 DEF NeedsActivation
  <2> QED BY <2>2, <2>3, <2>4 DEF BootServe
<1>2. CrashesAreRepaired <=> [][Repaired]_allVars
  BY PTL DEF CrashesAreRepaired
<1> HIDE DEF Repaired
<1> QED BY <1>1, <1>2, WorldAlways, PTL DEF SSpec
=============================================================================
