--------------------------- MODULE ModelSettings ---------------------------
(***************************************************************************)
(* Model connections, their authorizations, capability checks and call     *)
(* budgets (model_settings.py), with the requests of Transport.            *)
(*                                                                         *)
(* Every operation is one critical section of ModelSettings.lock, hence    *)
(* one step: it changes the state in memory and then saves it.  A save     *)
(* that raises leaves the memory ahead of models.json.  check and generate *)
(* leave the lock to call the model; validate_task keeps it while the      *)
(* steward publishes, which also takes Vault.lock.                         *)
(***************************************************************************)
EXTENDS Transport

CONSTANTS
  Destinations,  \* endpoints: kind, baseUrl and model
  Loopback,      \* the local ones
  Capabilities,  \* how many a check probes; the first one is text
  MaxCalls,      \* maxCalls of every connection
  MaxRevision,   \* bound: revisions of one connection
  MaxSaveFaults, \* bound: saves that raise
  MaxImports,    \* bound: imports of originals beside all this
  None

(* What a thread does for a model.                                         *)
Works ==
  [kind : {"check", "task"}, next : 0..Capabilities,
   phase : {"probe", "chat", "answered", "failed", "last", "finish"}]

ASSUME BoundsAssumption ==
  /\ {MaxCalls, MaxRevision, MaxSaveFaults, MaxImports} \subseteq Nat
  /\ Capabilities \in Nat \ {0}
ASSUME LoopbackAssumption == Loopback \subseteq Destinations
ASSUME NoneAssumption ==
  None \notin Callers \cup Destinations \cup Works
              \cup {"publication", "import"}

VARIABLES
  mem,         \* self.state
  disk,        \* models.json
  busy,        \* self.busy
  work,        \* what a thread does for a model: a check, a task, or None
  verified,    \* the local endpoints that local_verifier finds verified
  lock,        \* ModelSettings.lock: held by "publication" or free
  vaultLock,   \* Vault.lock: held by "publication" or "import", or free
  candidate,   \* the steward's stored candidate, or None
  up,          \* the service runs
  faults,      \* how many saves have raised
  imports,     \* how many imports have begun
  sent,        \* history: requests of each model that may have left
  used         \* history: which revision was sent where, with which key

mvars == <<mem, disk, busy, work, verified, lock, vaultLock, candidate, up,
           faults, imports, sent, used>>
allvars == <<mvars, tvars>>

-----------------------------------------------------------------------------
(* cred names the endpoint a key was entered for; auth and grant are the   *)
(* revision they were given for, 0 for none; caps are the probes passed.   *)
Unconfigured ==
  [rev |-> 0, dest |-> None, cred |-> None, auth |-> 0, caps |-> {},
   grant |-> 0, check |-> "none", calls |-> 0]

Conf(p) == mem.profiles[p]
With(m, p, c) == [m EXCEPT !.profiles[p] = c]
Demote(m, p) == IF m.primary = p THEN [m EXCEPT !.primary = None] ELSE m

(* What the operations on a connection ask for: the lock, and no thread.   *)
IdleUnlocked(p) == up /\ Conf(p).rev # 0 /\ p \notin busy
Idle(p) == up /\ lock = None /\ Conf(p).rev # 0 /\ p \notin busy

(* save: one rename; when it raises the rename may still have happened.    *)
Save(m, ok) ==
  /\ mem' = m
  /\ IF ok THEN disk' = m /\ UNCHANGED faults
     ELSE faults < MaxSaveFaults /\ faults' = faults + 1 /\ disk' \in {disk, m}

Preflight(p) ==
  /\ Conf(p).auth = Conf(p).rev
  /\ Conf(p).dest \in Loopback => Conf(p).dest \in verified

TaskPreflight(p) ==
  Preflight(p) /\ 1 \in Conf(p).caps /\ Conf(p).grant = Conf(p).rev

-----------------------------------------------------------------------------
SettingsInit ==
  /\ TransportInit
  /\ mem = [profiles |-> [p \in Callers |-> Unconfigured], primary |-> None]
  /\ disk = mem
  /\ busy = {}
  /\ work = [p \in Callers |-> None]
  /\ verified = Loopback
  /\ lock = None /\ vaultLock = None /\ candidate = None
  /\ up = TRUE /\ faults = 0 /\ imports = 0
  /\ sent = [p \in Callers |-> 0] /\ used = {}

SettingsOnly == UNCHANGED <<busy, work, verified, lock, vaultLock, candidate, up,
                            imports, sent, used, tvars>>

(* A plausible slip: the key follows the connection to a new endpoint.     *)
ConfigureKeepsKey(p, d, ok) ==
  LET old == Conf(p)
      new == [Unconfigured EXCEPT !.rev = old.rev + 1, !.dest = d,
                !.cred = old.cred, !.calls = old.calls]
  IN /\ up /\ lock = None /\ p \notin busy /\ old.rev < MaxRevision
     /\ Save(Demote(With(mem, p, new), p), ok)
     /\ SettingsOnly

Configure(p, d, ok) ==
  LET old == Conf(p)
      new == [Unconfigured EXCEPT !.rev = old.rev + 1, !.dest = d,
                !.cred = IF old.dest = d THEN old.cred ELSE None, !.calls = old.calls]
  IN /\ up /\ lock = None /\ p \notin busy /\ old.rev < MaxRevision
     /\ Save(Demote(With(mem, p, new), p), ok)
     /\ SettingsOnly

(* The key is in the Keychain under a new reference before the save.       *)
CredentialKeepsCaps(p, ok) ==
  /\ Idle(p) /\ Conf(p).rev < MaxRevision
  /\ Save(With(mem, p, [Conf(p) EXCEPT !.cred = Conf(p).dest, !.rev = @ + 1, !.auth = 0]), ok)
  /\ SettingsOnly

Credential(p, ok) ==
  LET old == Conf(p)
      new == [Unconfigured EXCEPT !.rev = old.rev + 1, !.dest = old.dest,
                !.cred = old.dest, !.calls = old.calls]
  IN /\ Idle(p) /\ old.rev < MaxRevision
     /\ Save(Demote(With(mem, p, new), p), ok)
     /\ SettingsOnly

(* A plausible slip: not refused while a check or a task runs.             *)
AuthorizeBusy(p, allow, ok) ==
  LET new == [Conf(p) EXCEPT !.auth = IF allow THEN Conf(p).rev ELSE 0]
      m == With(mem, p, new)
  IN /\ up /\ lock = None /\ Conf(p).rev # 0
     /\ Save(IF allow THEN m ELSE Demote(m, p), ok)
     /\ SettingsOnly

Authorize(p, allow, ok) ==
  LET new == [Conf(p) EXCEPT !.auth = IF allow THEN Conf(p).rev ELSE 0]
      m == With(mem, p, new)
  IN /\ Idle(p)
     /\ Save(IF allow THEN m ELSE Demote(m, p), ok)
     /\ SettingsOnly

ProjectAuthorization(p, allow, ok) ==
  /\ Idle(p)
  /\ allow => Preflight(p) /\ 1 \in Conf(p).caps
  /\ Save(With(mem, p, [Conf(p) EXCEPT !.grant = IF allow THEN Conf(p).rev ELSE 0]), ok)
  /\ SettingsOnly

Primary(p, ok) ==
  /\ Idle(p) /\ Preflight(p) /\ 1 \in Conf(p).caps
  /\ Save([mem EXCEPT !.primary = p], ok)
  /\ SettingsOnly

-----------------------------------------------------------------------------
(* reserve: refused by the calls or, at any time, by the size or the cost  *)
(* of the request; nothing is sent unless the save came back.              *)
Counted(p) == [Conf(p) EXCEPT !.calls = @ + 1]
Affordable(p) == Conf(p).calls < MaxCalls

Working(p, kind, phase) == up /\ lock = None /\ work[p] # None
                           /\ work[p].kind = kind /\ work[p].phase = phase

ToPhase(p, phase) == work' = [work EXCEPT ![p].phase = phase]

(* A plausible slip: the request goes out before its reservation is saved. *)
DispatchUnsaved(p, ok) ==
  /\ Chat(p, Conf(p).dest \in Loopback)
  /\ sent' = [sent EXCEPT ![p] = @ + 1]
  /\ used' = used \cup {<<p, Conf(p).rev, Conf(p).dest, Conf(p).cred>>}
  /\ IF ok THEN mem' = With(mem, p, Counted(p)) /\ UNCHANGED <<disk, faults>>
     ELSE Save(With(mem, p, Counted(p)), FALSE)

Dispatch(p, ok) ==
  /\ Save(With(mem, p, Counted(p)), ok)
  /\ IF ok
     THEN /\ Chat(p, Conf(p).dest \in Loopback)
          /\ sent' = [sent EXCEPT ![p] = @ + 1]
          /\ used' = used \cup {<<p, Conf(p).rev, Conf(p).dest, Conf(p).cred>>}
     ELSE UNCHANGED <<sent, used, tvars>>

(* check, up to its first save.  When that raises, nobody is left to clear *)
(* the busy mark.                                                          *)
BeginCheck(p, ok) ==
  /\ Idle(p) /\ Preflight(p)
  /\ busy' = busy \cup {p}
  /\ Save(With(mem, p, [Conf(p) EXCEPT !.caps = {}, !.check = "running"]), ok)
  /\ work' = IF ok THEN [work EXCEPT ![p] = [kind |-> "check", phase |-> "probe", next |-> 1]]
             ELSE work
  /\ UNCHANGED <<verified, lock, vaultLock, candidate, up, imports, sent, used, tvars>>

(* One capability: preflight and reserve, then the request.  It may be     *)
(* refused before it is sent ("failed"), for good when a budget or the     *)
(* round's time is used up ("last"); the Keychain may refuse before the     *)
(* first.  A Fault raised by a save fails the probe, another exception     *)
(* ends the check.                                                         *)
Probe(p, ok) ==
  /\ Working(p, "check", "probe")
  /\ \/ /\ Preflight(p) /\ Affordable(p)
        /\ Dispatch(p, ok)
        /\ \E next \in IF ok THEN {"chat"} ELSE {"failed", "finish"} : ToPhase(p, next)
     \/ /\ ok /\ \E next \in {"failed", "last", "finish"} :
             ToPhase(p, next) /\ (next = "finish" => work[p].next = 1)
        /\ UNCHANGED <<mem, disk, faults, sent, used, tvars>>
  /\ UNCHANGED <<busy, verified, lock, vaultLock, candidate, up, imports>>

(* The call is over: its usage is reported and saved, or its error kept.   *)
ChatEnds(p, ok) ==
  /\ up /\ lock = None /\ work[p] # None /\ work[p].phase = "chat"
  /\ at[p] \in Endings
  /\ at' = [at EXCEPT ![p] = "idle"]
  /\ IF at[p] = "answered"
     THEN /\ Save(mem, ok)
          /\ \E next \in IF ok THEN {"answered"} ELSE {"failed", "finish"} : ToPhase(p, next)
     ELSE /\ ok /\ UNCHANGED <<mem, disk, faults>>
          /\ ToPhase(p, IF at[p] = "other" THEN "failed" ELSE "last")
  /\ UNCHANGED <<busy, verified, lock, vaultLock, candidate, up, imports, sent, used,
                 direct, late, timer, wire, resolving, abandoned, slots>>

(* The verdict on one capability is saved; some errors end the check.      *)
RecordProbe(p, ok) ==
  /\ up /\ lock = None /\ work[p] # None /\ work[p].kind = "check"
  /\ work[p].phase \in {"answered", "failed", "last"}
  /\ LET i == work[p].next
         over == ~ok \/ work[p].phase = "last" \/ i = Capabilities
     IN /\ \E passed \in {FALSE, work[p].phase = "answered"} :
             Save(With(mem, p, [Conf(p) EXCEPT !.caps = IF passed THEN @ \cup {i}
                                                        ELSE @ \ {i}]), ok)
        /\ work' = [work EXCEPT ![p] = IF over THEN [@ EXCEPT !.phase = "finish"]
                                       ELSE [@ EXCEPT !.phase = "probe", !.next = i + 1]]
  /\ UNCHANGED <<busy, verified, lock, vaultLock, candidate, up, imports, sent, used, tvars>>

FinishCheck(p, ok) ==
  /\ Working(p, "check", "finish")
  /\ busy' = busy \ {p}
  /\ work' = [work EXCEPT ![p] = None]
  /\ LET m == With(mem, p, [Conf(p) EXCEPT !.check = "done"])
     IN Save(IF 1 \in Conf(p).caps THEN m ELSE Demote(m, p), ok)
  /\ UNCHANGED <<verified, lock, vaultLock, candidate, up, imports, sent, used, tvars>>

-----------------------------------------------------------------------------
(* generate: a task of the steward for the primary model, or for the one   *)
(* its job names.  In the slips the model is never marked, or too early.    *)
BeginTaskUnmarked(p, ok) ==
  /\ Idle(p) /\ TaskPreflight(p) /\ Affordable(p)
  /\ Dispatch(p, ok)
  /\ work' = IF ok THEN [work EXCEPT ![p] = [kind |-> "task", phase |-> "chat", next |-> 0]]
             ELSE work
  /\ UNCHANGED <<busy, verified, lock, vaultLock, candidate, up, imports>>

BeginTaskMarkedEarly(p, ok) ==
  /\ Idle(p) /\ TaskPreflight(p) /\ Affordable(p)
  /\ Dispatch(p, ok)
  /\ busy' = busy \cup {p}
  /\ work' = IF ok THEN [work EXCEPT ![p] = [kind |-> "task", phase |-> "chat", next |-> 0]]
             ELSE work
  /\ UNCHANGED <<verified, lock, vaultLock, candidate, up, imports>>

BeginTask(p, ok) ==
  /\ Idle(p) /\ TaskPreflight(p) /\ Affordable(p)
  /\ Dispatch(p, ok)
  /\ busy' = IF ok THEN busy \cup {p} ELSE busy
  /\ work' = IF ok THEN [work EXCEPT ![p] = [kind |-> "task", phase |-> "chat", next |-> 0]]
             ELSE work
  /\ UNCHANGED <<verified, lock, vaultLock, candidate, up, imports>>

(* The finally clause; a good answer becomes the steward's candidate.      *)
FinishTask(p, ok) ==
  /\ up /\ lock = None /\ work[p] # None /\ work[p].kind = "task"
  /\ work[p].phase \in {"answered", "failed", "last", "finish"}
  /\ busy' = busy \ {p}
  /\ work' = [work EXCEPT ![p] = None]
  /\ Save(mem, ok)
  /\ candidate' \in {candidate} \cup
       IF ok /\ work[p].phase = "answered"
       THEN {[model |-> p, rev |-> Conf(p).rev, dest |-> Conf(p).dest]} ELSE {}
  /\ UNCHANGED <<verified, lock, vaultLock, up, imports, sent, used, tvars>>

(* validate_task: models.lock is kept, then Knowledge.publish waits for    *)
(* Vault.lock.                                                             *)
Validated(c) == Conf(c.model).rev = c.rev /\ TaskPreflight(c.model)

BeginPublish ==
  /\ up /\ lock = None /\ candidate # None
  /\ Validated(candidate)
  /\ lock' = "publication"
  /\ UNCHANGED <<mem, disk, busy, work, verified, vaultLock, candidate, up, faults,
                 imports, sent, used, tvars>>

TakeVault ==
  /\ lock = "publication" /\ vaultLock = None
  /\ vaultLock' = "publication"
  /\ UNCHANGED <<mem, disk, busy, work, verified, lock, candidate, up, faults,
                 imports, sent, used, tvars>>

EndPublish ==
  /\ vaultLock = "publication"
  /\ lock' = None /\ vaultLock' = None /\ candidate' = None
  /\ UNCHANGED <<mem, disk, busy, work, verified, up, faults, imports, sent, used, tvars>>

BeginImport ==
  /\ up /\ vaultLock = None /\ imports < MaxImports
  /\ vaultLock' = "import" /\ imports' = imports + 1
  /\ UNCHANGED <<mem, disk, busy, work, verified, lock, candidate, up, faults,
                 sent, used, tvars>>

(* A plausible slip: the import asks the models while it has the vault.    *)
EndImportAskingModels ==
  /\ vaultLock = "import" /\ lock = None
  /\ vaultLock' = None
  /\ UNCHANGED <<mem, disk, busy, work, verified, lock, candidate, up, faults,
                 imports, sent, used, tvars>>

EndImport ==
  /\ vaultLock = "import"
  /\ vaultLock' = None
  /\ UNCHANGED <<mem, disk, busy, work, verified, lock, candidate, up, faults,
                 imports, sent, used, tvars>>

-----------------------------------------------------------------------------
LocalityChanges(d) ==
  /\ verified' \in {verified \cup {d}, verified \ {d}}
  /\ UNCHANGED <<mem, disk, busy, work, lock, vaultLock, candidate, up, faults,
                 imports, sent, used, tvars>>

Crash ==
  /\ up
  /\ up' = FALSE
  /\ busy' = {} /\ work' = [p \in Callers |-> None]
  /\ lock' = None /\ vaultLock' = None
  /\ at' = [c \in Callers |-> "idle"] /\ direct' = {} /\ late' = {}
  /\ timer' = [c \in Callers |-> "off"] /\ wire' = [c \in Callers |-> "none"]
  /\ resolving' = {} /\ abandoned' = 0 /\ slots' = Slots
  /\ UNCHANGED <<mem, disk, verified, candidate, faults, imports, sent, used>>

(* __init__: a check cut short has proved nothing.                         *)
Interrupted == {p \in Callers : disk.profiles[p].check = "running"}

RepairedKeepsPrimary ==
  [profiles |-> [p \in Callers |-> IF p \notin Interrupted THEN disk.profiles[p]
                  ELSE [disk.profiles[p] EXCEPT !.check = "done", !.caps = {}]],
   primary |-> disk.primary]

Repaired ==
  [profiles |-> [p \in Callers |-> IF p \notin Interrupted THEN disk.profiles[p]
                  ELSE [disk.profiles[p] EXCEPT !.check = "done", !.caps = {}]],
   primary |-> IF disk.primary \in Interrupted THEN None ELSE disk.primary]

Restart(ok) ==
  /\ ~up
  /\ Interrupted = {} => ok       \* nothing to save
  /\ Save(Repaired, ok)
  /\ up' = ok
  /\ UNCHANGED <<busy, work, verified, lock, vaultLock, candidate, imports, sent, used, tvars>>

Operation(ok) ==
  \E p \in Callers :
    \/ \E d \in Destinations : Configure(p, d, ok)
    \/ Credential(p, ok)
    \/ \E allow \in BOOLEAN : Authorize(p, allow, ok) \/ ProjectAuthorization(p, allow, ok)
    \/ Primary(p, ok) \/ BeginCheck(p, ok) \/ BeginTask(p, ok)

WorkStep(p, ok) ==
  Probe(p, ok) \/ ChatEnds(p, ok) \/ RecordProbe(p, ok) \/ FinishCheck(p, ok) \/ FinishTask(p, ok)

SettingsNext ==
  \/ \E ok \in BOOLEAN :
       Operation(ok) \/ Restart(ok) \/ \E p \in Callers : WorkStep(p, ok)
  \/ BeginPublish \/ TakeVault \/ EndPublish \/ BeginImport \/ EndImport
  \/ \E d \in Loopback : LocalityChanges(d)
  \/ Crash
  \/ up /\ TransportNext /\ UNCHANGED mvars

(* Threads run, deadlines pass and timers fire.  Nobody is obliged to ask   *)
(* for anything, and neither resolvers nor models to answer.               *)
SettingsFairness ==
  /\ WF_allvars(TakeVault) /\ WF_allvars(EndPublish) /\ WF_allvars(EndImport)
  /\ \A p \in Callers :
       /\ WF_allvars(\E ok \in BOOLEAN : WorkStep(p, ok))
       /\ WF_allvars(CallerStep(p) /\ UNCHANGED mvars)
       /\ WF_allvars(DeadlinePasses(p) /\ UNCHANGED mvars)
       /\ WF_allvars(TimerFires(p) /\ UNCHANGED mvars)

SettingsSpec == SettingsInit /\ [][SettingsNext]_allvars /\ SettingsFairness

-----------------------------------------------------------------------------
Configurations ==
  [rev : 0..MaxRevision, dest : Destinations \cup {None}, cred : Destinations \cup {None},
   auth : 0..MaxRevision, caps : SUBSET (1..Capabilities), grant : 0..MaxRevision,
   check : {"none", "running", "done"}, calls : Nat]

States == [profiles : [Callers -> Configurations], primary : Callers \cup {None}]

SettingsTypeOK ==
  /\ mem \in States /\ disk \in States
  /\ busy \subseteq Callers
  /\ \A p \in Callers : work[p] # None => p \in busy
  /\ \A p \in Callers : at[p] # "idle" => work[p] # None /\ work[p].phase = "chat"

(* Whatever fails or crashes, a request that may have left is counted in   *)
(* models.json, and no more than the budget ever leave.                    *)
BudgetHolds ==
  \A p \in Callers : sent[p] <= disk.profiles[p].calls /\ disk.profiles[p].calls <= MaxCalls

(* While a call is in flight neither the configuration nor the             *)
(* authorization it was sent under changes, in memory or in the file.      *)
FlightIsAuthorized ==
  \A p \in Callers : at[p] # "idle" =>
    \A m \in {mem, disk} :
      LET c == m.profiles[p] IN
      /\ c.auth = c.rev /\ <<p, c.rev, c.dest, c.cred>> \in used
      /\ work[p].kind = "task" => c.grant = c.rev /\ 1 \in c.caps

(* A revision that was ever sent anywhere names one endpoint, across        *)
(* crashes and saves that were lost; and a key is only sent to the          *)
(* endpoint it was entered for.                                            *)
RevisionsNameOneModel ==
  /\ \A u, v \in used : u[1] = v[1] /\ u[2] = v[2] => u = v
  /\ \A u \in used : u[4] \in {None, u[3]}

(* A capability counts only for a configuration - revision, endpoint and   *)
(* key - that a request was really sent under.                             *)
CapabilitiesWereProbed ==
  \A p \in Callers, m \in {mem, disk} :
    LET c == m.profiles[p] IN c.caps # {} => <<p, c.rev, c.dest, c.cred>> \in used

(* The primary model, unless it is being checked, is authorized and has    *)
(* passed the text probe; also the one that a restart would find, whenever *)
(* the service died and whichever saves were lost.                         *)
Usable(m) ==
  m.primary # None =>
    LET c == m.profiles[m.primary] IN c.auth = c.rev /\ 1 \in c.caps

PrimaryUsable == (up /\ mem.primary \notin busy => Usable(mem)) /\ Usable(Repaired)

(* A model is busy only while a thread works for it, or since a check whose *)
(* first save was refused.                                                 *)
BusyHasReason ==
  \A p \in busy : work[p] # None \/ Conf(p).check = "running"

(* "Revocation cannot race between validation and publication" (steward):  *)
(* what is being published was produced by the model that is configured,   *)
(* authorized and granted at that moment.                                  *)
PublishedUnderGrant ==
  lock = "publication" =>
    LET c == Conf(candidate.model) IN
    /\ c.rev = candidate.rev /\ c.dest = candidate.dest
    /\ c.auth = c.rev /\ c.grant = c.rev /\ 1 \in c.caps

(* Each check and each task ends, whether the model answers, stalls or      *)
(* trickles, unless the service dies.                                      *)
WorkEnds == \A p \in Callers : (work[p] # None) ~> (work[p] = None)

(* steward.lock, models.lock, Vault.lock are taken in this order: an import *)
(* and a publication never wait for each other.                            *)
ImportsEnd == (vaultLock = "import") ~> (vaultLock # "import")

=============================================================================
