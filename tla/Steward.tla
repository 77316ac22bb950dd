------------------------------ MODULE Steward ------------------------------
(***************************************************************************)
(* The background steward over one project's knowledge: the durable queue  *)
(* of jobs, the finite round a worker thread runs over it, the model call, *)
(* the candidate file, the publication, pause and retry, and what becomes  *)
(* of it all when the process dies.                                        *)
(*                                                                         *)
(* Steward.lock guards the queue; publication holds it together with       *)
(* Vault.lock, a model call holds neither.  Every region under the lock    *)
(* ends in _save(), so its effect on the queue is one step; what runs      *)
(* between two regions interleaves with imports, restores and requests.    *)
(***************************************************************************)
EXTENDS Knowledge

CONSTANTS
  MaxAttempts,   \* "maxAttempts" of a job
  QueueLimit,    \* jobs one queue may hold
  MaxJobs        \* jobs of one round

ASSUME StewardAssumption ==
  MaxAttempts \in Nat \ {0} /\ QueueLimit \in Nat /\ MaxJobs \in Nat \ {0}

(* What may be absent is told from what is there.                          *)
SnapshotRecords == [sig : SUBSET Items, expected : Nat]
Enqueuing == [job : Jobs, snap : SnapshotRecords]
Lines == UNION {{t[i] : i \in DOMAIN t} : t \in Texts}
Quotations == [rid : Rids, version : Nat, first : Nat, last : Nat, quote : Seq(Lines)]
Files == [complete : BOOLEAN, entries : SUBSET Quotations]

ASSUME NoneAssumption == None \notin SnapshotRecords \cup Enqueuing \cup Files

VARIABLES
  order,       \* queue.json: job ids in the order they were created
  status,      \* queue.json: per job; "absent" before it is created
  attempt,     \* queue.json: attempts begun
  snapshot,    \* queue.json: the source snapshot the job was created with
  hash,        \* queue.json: candidateHash
  round,       \* queue.json: status of the last round
  paused,      \* queue.json
  file,        \* candidates/<job>.json: None or what has been written of it
  stopping,    \* close() was called
  enqueuing,   \* a request between its snapshot and its save, or None
  pc,          \* where the worker thread is
  queue,       \* jobs the worker has left in this round
  content,     \* the model output the worker holds
  late,        \* the round's deadline has passed
  authorized,  \* validate_task would accept the task (model settings)
  calls        \* history: model calls made for the job

knowledgeVars == vars
jobVars == <<order, status, attempt, snapshot, hash>>
controlVars == <<round, paused, stopping, enqueuing, authorized>>
workerVars == <<pc, queue, content, late>>
stewardVars == <<jobVars, controlVars, workerVars, file, calls>>
allVars == <<knowledgeVars, stewardVars>>

-----------------------------------------------------------------------------
Unfinished == {"queued", "running", "candidate-ready"}
Recoverable == {"running", "candidate-ready", "interrupted"}

Job == Head(queue)
Fresh(j) == snapshot[j] = Snapshot /\ Readable(ledger)

Candidate(entries) == [complete |-> TRUE, entries |-> entries]

(* Steward.lock is held across steps only by a publication and an enqueue. *)
Unlocked == phase = "up" /\ pc # "publishing" /\ enqueuing = None

SInit ==
  /\ Init
  /\ order = <<>>
  /\ status = [j \in Jobs |-> "absent"]
  /\ attempt = [j \in Jobs |-> 0]
  /\ snapshot = [j \in Jobs |-> None]
  /\ hash = [j \in Jobs |-> None]
  /\ round = "none"
  /\ paused = FALSE
  /\ file = [j \in Jobs |-> None]
  /\ stopping = FALSE
  /\ enqueuing = None
  /\ pc = "off"
  /\ queue = <<>>
  /\ content = None
  /\ late = FALSE
  /\ authorized = TRUE
  /\ calls = [j \in Jobs |-> 0]

-----------------------------------------------------------------------------
(* enqueue: the snapshot is read, then - the vault may have moved on - the *)
(* view, and the job is recorded unless an unfinished one has its sources. *)
EnqueueRead(j) ==
  /\ Unlocked /\ Free
  /\ status[j] = "absent"
  /\ Len(order) < QueueLimit
  /\ Readable(ledger)
  /\ enqueuing' = [job |-> j, snap |-> Snapshot]
  /\ UNCHANGED <<knowledgeVars, jobVars, round, paused, stopping, authorized,
                 workerVars, file, calls>>

SameWork(snap) == \E k \in Jobs : status[k] \in Unfinished /\ snapshot[k].sig = snap.sig

EnqueueSaveBare ==
  /\ enqueuing # None /\ Free
  /\ enqueuing' = None
  /\ status' = [status EXCEPT ![enqueuing.job] = "queued"]
  /\ order' = Append(order, enqueuing.job)
  /\ UNCHANGED <<knowledgeVars, snapshot, attempt, hash, round, paused, stopping,
                 authorized, workerVars, file, calls>>

EnqueueSave ==
  /\ enqueuing # None /\ Free
  /\ enqueuing' = None
  /\ IF SameWork(enqueuing.snap)
     THEN /\ status' = [status EXCEPT ![enqueuing.job] = "alias"]
          /\ UNCHANGED <<order, snapshot>>
     ELSE /\ status' = [status EXCEPT ![enqueuing.job] =
                          IF IsCurrent THEN "no-work" ELSE "queued"]
          /\ order' = Append(order, enqueuing.job)
          /\ snapshot' = [snapshot EXCEPT ![enqueuing.job] = enqueuing.snap]
  /\ UNCHANGED <<knowledgeVars, attempt, hash, round, paused, stopping, authorized,
                 workerVars, file, calls>>

(* run: one finite round over the first n jobs that have work, in the      *)
(* order of the queue: at holds their places in it, none passed over.      *)
HasWork(j) == status[j] \in {"queued", "candidate-ready"}
Ready == {i \in DOMAIN order : HasWork(order[i])}

FirstReady(n, at) ==
  /\ \A k, l \in DOMAIN at : k < l => at[k] < at[l]
  /\ \A i \in Ready : (\A k \in DOMAIN at : at[k] # i) =>
       Len(at) = n /\ \A k \in DOMAIN at : at[k] < i

Run(n) ==
  /\ Unlocked /\ ~stopping /\ ~paused /\ pc = "off"
  /\ IF Ready = {}
     THEN round' = "completed" /\ UNCHANGED workerVars
     ELSE /\ \E m \in 1..n : \E at \in [1..m -> Ready] :
               FirstReady(n, at) /\ queue' = [k \in 1..m |-> order[at[k]]]
          /\ round' = "running"
          /\ pc' = "take"
          /\ late' = FALSE
          /\ content' = None
  /\ UNCHANGED <<knowledgeVars, jobVars, paused, stopping, enqueuing, authorized,
                 file, calls>>

Pause(b) ==
  /\ Unlocked
  /\ paused' = b
  /\ UNCHANGED <<knowledgeVars, jobVars, round, stopping, enqueuing, authorized,
                 workerVars, file, calls>>

RetryAlways(j) ==
  /\ Unlocked /\ Free
  /\ status[j] \in {"failed", "interrupted"}
  /\ Fresh(j)
  /\ status' = [status EXCEPT ![j] = IF file[j] # None THEN "candidate-ready" ELSE "queued"]
  /\ UNCHANGED <<knowledgeVars, order, attempt, snapshot, hash, controlVars,
                 workerVars, file, calls>>

Retry(j) ==
  /\ Unlocked /\ Free
  /\ status[j] \in {"failed", "interrupted"}
  /\ attempt[j] < MaxAttempts
  /\ Fresh(j)
  /\ status' = [status EXCEPT ![j] = IF file[j] # None THEN "candidate-ready" ELSE "queued"]
  /\ UNCHANGED <<knowledgeVars, order, attempt, snapshot, hash, controlVars,
                 workerVars, file, calls>>

Stop ==
  /\ Unlocked
  /\ stopping' = TRUE
  /\ UNCHANGED <<knowledgeVars, jobVars, round, paused, enqueuing, authorized,
                 workerVars, file, calls>>

AuthorizeAnytime(b) ==
  /\ authorized' = b
  /\ UNCHANGED <<knowledgeVars, jobVars, round, paused, stopping, enqueuing,
                 workerVars, file, calls>>

(* Model settings change outside the publication, which holds their lock.  *)
Authorize(b) ==
  /\ pc # "publishing"
  /\ authorized' = b
  /\ UNCHANGED <<knowledgeVars, jobVars, round, paused, stopping, enqueuing,
                 workerVars, file, calls>>

Deadline ==
  /\ pc # "off"
  /\ late' = TRUE
  /\ UNCHANGED <<knowledgeVars, jobVars, controlVars, pc, queue, content, file, calls>>

-----------------------------------------------------------------------------
(* The worker.  Finish leaves the round, Fall fails the job and goes on.   *)
Finish ==
  /\ round' = "completed"
  /\ pc' = "off"
  /\ queue' = <<>>
  /\ content' = None
  /\ UNCHANGED late

NextJob ==
  /\ pc' = "take"
  /\ queue' = Tail(queue)
  /\ content' = None
  /\ UNCHANGED late

Close(j, s) ==
  /\ status' = [status EXCEPT ![j] = s]
  /\ NextJob
  /\ UNCHANGED <<knowledgeVars, order, attempt, snapshot, hash, controlVars, file, calls>>

Fall(j, s) == Unlocked /\ Close(j, s)

Goto(label) == pc' = label /\ UNCHANGED <<queue, content, late>>

MustStop == paused \/ stopping \/ late

(* The first two regions of a job (_worker's check, _execute's beginning). *)
(* That _execute finds the job published or out of attempts cannot happen: *)
(* PublishedJobsAreDone and CallsBounded.                                  *)
EndRound ==
  /\ pc = "take" /\ Unlocked
  /\ queue = <<>> \/ MustStop
  /\ Finish
  /\ UNCHANGED <<knowledgeVars, jobVars, paused, stopping, enqueuing, authorized, file, calls>>

TakeCandidate ==
  /\ pc = "take" /\ Unlocked /\ queue # <<>> /\ ~MustStop
  /\ file[Job] # None
  /\ Goto("verify")
  /\ UNCHANGED <<knowledgeVars, jobVars, controlVars, file, calls>>

BeginAttempt ==
  /\ pc = "take" /\ Unlocked /\ queue # <<>> /\ ~MustStop
  /\ file[Job] = None
  /\ status' = [status EXCEPT ![Job] = "running"]
  /\ attempt' = [attempt EXCEPT ![Job] = @ + 1]
  /\ Goto("check")
  /\ UNCHANGED <<knowledgeVars, order, snapshot, hash, controlVars, file, calls>>

(* Nothing may have changed since the job was enqueued, and a second must  *)
(* be left; then the model is called, with no lock held.                   *)
CheckSnapshot ==
  /\ pc = "check" /\ Free
  /\ IF Fresh(Job) /\ ~late
     THEN Goto("call") /\ UNCHANGED <<knowledgeVars, jobVars, controlVars, file, calls>>
     ELSE Fall(Job, "failed")

Call(answer) ==
  /\ pc = "call"
  /\ pc' = "called"
  /\ content' = answer
  /\ calls' = [calls EXCEPT ![Job] = @ + 1]
  /\ UNCHANGED <<knowledgeVars, jobVars, controlVars, queue, late, file>>

(* The adapter refuses before it calls (busy, budget, no authorization).   *)
CallRefused == pc = "call" /\ Fall(Job, "failed")

(* The answer counts only for the sources it was asked about; one without  *)
(* entries may be the request for a human decision.                        *)
CheckAnswer ==
  /\ pc = "called" /\ Free
  /\ IF Fresh(Job) /\ Valid(Sources, content)
     THEN Goto("hash") /\ UNCHANGED <<knowledgeVars, jobVars, controlVars, file, calls>>
     ELSE \/ Fall(Job, "failed")
          \/ Fresh(Job) /\ content = {} /\ Fall(Job, "needs-decision")

SaveHash ==
  /\ pc = "hash" /\ Unlocked
  /\ hash' = [hash EXCEPT ![Job] = content]
  /\ Goto("create")
  /\ UNCHANGED <<knowledgeVars, order, status, attempt, snapshot, controlVars, file, calls>>

(* fs.create is not atomic: the file exists before it is complete.         *)
CreateFile ==
  /\ pc = "create"
  /\ file' = [file EXCEPT ![Job] = [complete |-> FALSE, entries |-> {}]]
  /\ Goto("write")
  /\ UNCHANGED <<knowledgeVars, jobVars, controlVars, calls>>

WriteFile ==
  /\ pc = "write"
  /\ file' = [file EXCEPT ![Job] = Candidate(content)]
  /\ Goto("mark")
  /\ UNCHANGED <<knowledgeVars, jobVars, controlVars, calls>>

MarkReady ==
  /\ pc = "mark" /\ Unlocked
  /\ status' = [status EXCEPT ![Job] = "candidate-ready"]
  /\ Goto("verify")
  /\ UNCHANGED <<knowledgeVars, order, attempt, snapshot, hash, controlVars, file, calls>>

Verify ==
  /\ pc = "verify"
  /\ IF file[Job] = Candidate(hash[Job])
     THEN /\ pc' = "publish"
          /\ content' = file[Job].entries
          /\ UNCHANGED <<knowledgeVars, jobVars, controlVars, queue, late, file, calls>>
     ELSE Fall(Job, "failed")

Withhold ==
  /\ pc = "publish" /\ Unlocked /\ MustStop
  /\ status' = [status EXCEPT ![Job] = "candidate-ready"]
  /\ Finish
  /\ UNCHANGED <<knowledgeVars, order, attempt, snapshot, hash, paused, stopping,
                 enqueuing, authorized, file, calls>>

Deny == pc = "publish" /\ ~MustStop /\ ~authorized /\ Fall(Job, "failed")

BeginPublication ==
  /\ pc = "publish" /\ Unlocked /\ ~MustStop /\ authorized
  /\ Publish(Job, snapshot[Job], content)
  /\ IF step' # "idle"
     THEN Goto("publishing") /\ UNCHANGED <<status>>
     ELSE /\ status' = [status EXCEPT ![Job] =
                          IF reply' = "alreadyPublished" THEN "committed" ELSE "failed"]
          /\ NextJob
  /\ UNCHANGED <<order, attempt, snapshot, hash, controlVars, file, calls>>

EndPublicationBlind ==
  /\ pc = "publishing" /\ step = "idle"
  /\ Close(Job, "committed")

EndPublicationHappy ==
  /\ pc = "publishing" /\ step = "idle"
  /\ reply = "published" /\ Close(Job, "committed")

(* Knowledge.publish has returned.  Should saving the queue fail now, the  *)
(* job is recorded as failed although its version exists.                  *)
EndPublication ==
  /\ pc = "publishing" /\ step = "idle"
  /\ \/ reply \in {"published", "alreadyPublished"} /\ Close(Job, "committed")
     \/ Close(Job, "failed")

(* Any other write or read of the worker raises.                           *)
WorkerFault ==
  /\ pc \in {"check", "called", "hash", "create", "write", "mark", "verify"}
  /\ Fall(Job, "failed")

-----------------------------------------------------------------------------
(* The rest of the world works on the same vault.                          *)
VaultRequest ==
  /\ \/ \E rid \in Rids, e \in Events, t \in Texts : Submit(rid, e, CurrentVersion(rid), t)
     \/ \E e \in RestoreEvents, n \in DOMAIN versions : Restore(e, n, Len(versions))
  /\ UNCHANGED stewardVars

VaultStep ==
  /\ \/ WithdrawReview \/ WithdrawEntry \/ CommitRecord \/ Index
     \/ Ensure \/ CommitVersion \/ ActivateReview \/ ActivateEntry
  /\ UNCHANGED stewardVars

VaultFail == Fail /\ UNCHANGED stewardVars

(* Death of the process loses what is in memory.                           *)
Die ==
  /\ Crash
  /\ pc' = "off"
  /\ queue' = <<>>
  /\ content' = None
  /\ late' = FALSE
  /\ stopping' = FALSE
  /\ enqueuing' = None
  /\ UNCHANGED <<jobVars, round, paused, authorized, file, calls>>

Boot == Restart /\ UNCHANGED stewardVars

(* Steward.__init__: _committed() activates a version that a job committed *)
(* last, then every job that was under way is settled and the queue saved. *)
NeedsActivationRunning(j) ==
  /\ status[j] = "running"
  /\ Len(versions) \in PublishedBy(j)

NeedsActivation(j) ==
  /\ status[j] \in Recoverable
  /\ Len(versions) \in PublishedBy(j)
  /\ versions[Len(versions)].status = "current"
  /\ versions[Len(versions)].sig = Sig

BootActivate(j) ==
  /\ phase = "booting" /\ pc = "off"
  /\ status[j] \in Recoverable
  /\ \E n \in PublishedBy(j) : Begin("activateReview", Activation(n, "alreadyPublished"))
  /\ pc' = "recovering"
  /\ UNCHANGED <<jobVars, controlVars, queue, content, late, file, calls>>

BootRecover(j) ==
  /\ phase = "booting" /\ pc = "off"
  /\ NeedsActivation(j)
  /\ Recover(j)
  /\ pc' = "recovering"
  /\ UNCHANGED <<jobVars, controlVars, queue, content, late, file, calls>>

SettledByFile(j) ==
  IF status[j] \notin Recoverable THEN status[j]
  ELSE IF file[j] # None THEN "candidate-ready"
  ELSE "interrupted"

SettledUnlessRunning(j) ==
  IF status[j] # "candidate-ready" THEN status[j]
  ELSE IF PublishedBy(j) # {} THEN "committed" ELSE "candidate-ready"

Settled(j) ==
  IF status[j] \notin Recoverable THEN status[j]
  ELSE IF PublishedBy(j) # {} THEN "committed"
  ELSE IF file[j] # None THEN "candidate-ready"
  ELSE "interrupted"

BootServe ==
  /\ \/ pc = "recovering"
     \/ pc = "off" /\ \A j \in Jobs : ~NeedsActivation(j)
  /\ Serve
  /\ status' = [j \in Jobs |-> Settled(j)]
  /\ round' = IF round = "running" THEN "interrupted" ELSE round
  /\ pc' = "off"
  /\ UNCHANGED <<order, attempt, snapshot, hash, paused, stopping, enqueuing, authorized,
                 queue, content, late, file, calls>>

-----------------------------------------------------------------------------
Request ==
  \/ \E j \in Jobs : EnqueueRead(j) \/ Retry(j)
  \/ EnqueueSave
  \/ \E n \in 1..MaxJobs : Run(n)
  \/ \E b \in BOOLEAN : Pause(b) \/ Authorize(b)
  \/ Stop

Worker ==
  \/ EndRound \/ TakeCandidate \/ BeginAttempt \/ CheckSnapshot
  \/ (\E answer \in Outputs(Snapshot) : Call(answer)) \/ CallRefused
  \/ CheckAnswer \/ SaveHash \/ CreateFile \/ WriteFile
  \/ MarkReady \/ Verify \/ Withhold \/ Deny \/ BeginPublication \/ EndPublication

SNext ==
  \/ Request \/ Worker \/ WorkerFault \/ Deadline
  \/ VaultRequest \/ VaultStep \/ VaultFail
  \/ Die \/ Boot \/ BootServe \/ \E j \in Jobs : BootRecover(j)

SSpec == SInit /\ [][SNext]_allVars

(* A thread waiting for one of the locks gets it in the end, the thread    *)
(* that holds it goes on, the transport bounds a model call, and a service *)
(* that is started again comes up.                                         *)
Fairness ==
  /\ SF_allVars(Worker)
  /\ SF_allVars(EnqueueSave)
  /\ WF_allVars(VaultStep)
  /\ WF_allVars(Boot)
  /\ SF_allVars(BootServe)
  /\ SF_allVars(\E j \in Jobs : BootRecover(j))

FairSpec == SSpec /\ Fairness

-----------------------------------------------------------------------------
Statuses == {"absent", "alias", "no-work", "queued", "running", "candidate-ready",
             "committed", "failed", "interrupted", "needs-decision"}

Labels == {"off", "recovering", "take", "check", "call", "called", "hash", "create",
           "write", "mark", "verify", "publish", "publishing"}

StewardTypeOK ==
  /\ status \in [Jobs -> Statuses]
  /\ attempt \in [Jobs -> 0..MaxAttempts]
  /\ order \in Seq(Jobs)
  /\ \A j \in Jobs : (status[j] \in {"absent", "alias"}) = (snapshot[j] = None)
  /\ hash \in [Jobs -> {None} \cup SUBSET Cited]
  /\ file \in [Jobs -> {None} \cup [complete : BOOLEAN, entries : SUBSET Cited]]
  /\ round \in {"none", "running", "completed", "interrupted"}
  /\ <<paused, stopping, late, authorized>> \in [1..4 -> BOOLEAN]
  /\ pc \in Labels
  /\ queue \in Seq(Jobs)

(* A job's model calls never exceed its recorded attempts, nor those their *)
(* limit, although calls are lost to crashes and retried by hand: the      *)
(* attempt is saved before the call is made.                               *)
CallsBounded == \A j \in Jobs : calls[j] <= attempt[j] /\ attempt[j] <= MaxAttempts

(* Once a job's version exists the job is never given to a worker again,   *)
(* whatever failed between the commit and the saving of the queue.         *)
PublishedJobsAreDone ==
  \A j \in Jobs : PublishedBy(j) # {} /\ phase = "up" =>
    \/ status[j] \in {"committed", "failed"}
    \/ pc = "publishing" /\ Job = j

(* What a job published is the one candidate it recorded, never a partly   *)
(* written one; and a job called committed has published.                  *)
CandidatesPublished ==
  \A j \in Jobs :
    /\ \A n \in PublishedBy(j) :
         versions[n].entries = hash[j] /\ file[j] = Candidate(hash[j])
    /\ status[j] = "committed" => PublishedBy(j) # {}

(* A version appears only while the steward is neither paused nor closing, *)
(* the task is authorized, and the sources are those the job was created   *)
(* with - although the model call took place with no lock held.            *)
PublicationsAllowed ==
  [][Len(versions') > Len(versions) /\ versions'[Len(versions')].job \in Jobs =>
       /\ ~paused /\ ~stopping /\ authorized
       /\ snapshot[versions'[Len(versions')].job].sig = Sig
       /\ snapshot[versions'[Len(versions')].job].expected = Len(versions)]_allVars

(* A service that comes up after a crash has repaired CURRENT.md: a        *)
(* version committed for the present sources by a job that the crash       *)
(* interrupted is the one presented.                                       *)
CrashesAreRepaired ==
  [][phase = "booting" /\ phase' = "up" /\ versions # <<>> =>
       LET last == versions[Len(versions)] IN
       last.job \in Jobs /\ last.sig = Sig /\ status[last.job] \in Recoverable =>
         entryFile = Len(versions) /\ IsCurrent]_allVars

(* Every round ends, and no job stays "running".                           *)
RoundsEnd == pc \notin {"off", "recovering"} ~> pc = "off"
RunningSettles == \A j \in Jobs : status[j] = "running" ~> status[j] # "running"

(* "请等待有界管家任务完成或查看具体例外" (the withdrawn CURRENT.md): the steward    *)
(* says there is no work only when CURRENT.md presents what is current.     *)
(* Violated: a publication whose last write was refused leaves a view that  *)
(* is current, hence no work, under a CURRENT.md that is still withdrawn.   *)
NoWorkIsPresented ==
  \A j \in Jobs :
    (Free /\ status[j] = "no-work" /\ snapshot[j] = Snapshot /\ IsCurrent)
      => entryFile = Len(versions)

=============================================================================
