--------------------------- MODULE ServiceControl ---------------------------
(* scripts/service_control.py: the controller that starts and stops the     *)
(* background service, among the other processes of the machine.            *)
(*                                                                         *)
(* A process is named by its birth, the number of its turn in the order in  *)
(* which processes appear; the program knows it by a pid, which another     *)
(* process may carry later, and by the start time that proc_pidinfo gives.  *)
(* Each controller is a process of its own that runs one operation; flock   *)
(* on the runtime directory keeps a second one out.  It may die anywhere.   *)
(*                                                                         *)
(* Bounds: MaxBirths processes in all, MaxCrashes controllers killed,       *)
(* MaxFaults saves refused and tools (ps, lsof) that did not answer.        *)
EXTENDS Naturals, FiniteSets

CONSTANTS Pids, MaxBirths, MaxCrashes, MaxFaults, None

Births == 1..MaxBirths

(* service.json; the session is the process whose bootstrap token was seen. *)
Statuses == {"starting", "running", "start-failed", "stopping", "stopped", "stop-pending"}
Records ==
  [pid : Pids, birth : Births, session : Births \cup {None}, status : Statuses]

ASSUME ControlAssumption == {MaxBirths, MaxCrashes, MaxFaults} \subseteq Nat
ASSUME NoneAssumption == None \notin Pids /\ None \notin Births /\ None \notin Records

VARIABLES
  life,       \* birth -> [kind, phase, pid] of the process
  born,       \* the processes that appeared so far
  port,       \* the process that listens on the port, or None
  signalled,  \* the processes that a SIGINT of the controller reached
  record,     \* service.json: None or [pid, birth, session, status]
  ctl,        \* the controller at work, or None
  started,    \* history: the services whose start was reported a success
  crashes, faults

procs == <<life, born, port>>
history == <<started, crashes>>
vars == <<life, born, port, signalled, record, ctl, started, crashes, faults>>

Unborn == [kind |-> "foreign", phase |-> "unborn", pid |-> None]
Gone == [Unborn EXCEPT !.phase = "gone"]

Init ==
  /\ life = [b \in Births |-> Unborn] /\ born = 0 /\ port = None
  /\ signalled = {} /\ record = None /\ ctl = None
  /\ started = {} /\ crashes = 0 /\ faults = 0

-----------------------------------------------------------------------------
(* Processes.  "service" and "manual" run start.command, for the controller *)
(* or for a user; "foreign" is anything else.  The shell that boots a       *)
(* service has another command line than the Python it becomes, which       *)
(* opens the vaults, serves, and closes the port some time before it ends;  *)
(* of the others only the pid and the port matter.                          *)

Live(b) == life[b].phase \in {"booting", "opening", "serving", "closing"}
Free(p) == \A b \in Births : life[b].pid # p
Marked(b) == life[b].kind # "foreign" /\ life[b].phase # "booting"

Appears(kind, p) ==
  /\ born < MaxBirths /\ Free(p)
  /\ born' = born + 1
  /\ LET phase == IF kind = "service" THEN "booting" ELSE "opening" IN
     life' = [life EXCEPT ![born + 1] = [kind |-> kind, phase |-> phase, pid |-> p]]

(* A child of the controller at work keeps its pid until it is waited for.  *)
Exits(b) ==
  /\ life' = [life EXCEPT ![b] =
                IF ctl # None /\ ctl.child = b THEN [@ EXCEPT !.phase = "zombie"] ELSE Gone]
  /\ port' = IF port = b THEN None ELSE port

Becomes(b, phase) == life' = [life EXCEPT ![b].phase = phase]

ProcessStep ==
  /\ \/ \E kind \in {"manual", "foreign"}, p \in Pids : Appears(kind, p) /\ UNCHANGED port
     \/ \E b \in Births :
          \/ life[b].phase = "booting" /\ Becomes(b, "opening") /\ UNCHANGED <<born, port>>
          \/ /\ life[b].phase = "opening" /\ b \notin signalled /\ port = None
             /\ Becomes(b, "serving") /\ port' = b /\ UNCHANGED born
          \/ /\ life[b].phase = "serving" /\ life[b].kind = "service"
             /\ Becomes(b, "closing") /\ port' = None /\ UNCHANGED born
          \/ Live(b) /\ Exits(b) /\ UNCHANGED born
  /\ UNCHANGED <<signalled, record, ctl, history, faults>>

-----------------------------------------------------------------------------
(* What a controller sees, and how it saves and ends.                       *)

(* A plausible slip: the start time is not compared.                      *)
OwnedByPid(r) == \E b \in Births : Live(b) /\ life[b].pid = r.pid /\ Marked(b)

Owned(r) == \E b \in Births : Live(b) /\ life[b].pid = r.pid /\ Marked(b) /\ b = r.birth

Launching == ctl.op = "start" /\ ctl.child # None
Goes(step) == ctl' = [ctl EXCEPT !.step = step]

(* The controller exits: a child that died is reaped.                       *)
Ends ==
  /\ ctl' = None
  /\ life' = [b \in Births |-> IF life[b].phase = "zombie" THEN Gone ELSE life[b]]

EndsWith(r) == Ends /\ record' = r

(* An error while the new service is awaited goes to the handler that       *)
(* interrupts it; any other one ends the operation.                         *)
Raises == IF Launching /\ ctl.step # "identify"
          THEN Goes("failing") /\ UNCHANGED life ELSE Ends

Fault == faults < MaxFaults /\ faults' = faults + 1

-----------------------------------------------------------------------------
(* Operations.                                                              *)

Controls(op, step) ==
  ctl' = [op |-> op, step |-> step, rec |-> record, child |-> None,
          seen |-> None, checked |-> MaxBirths, expired |-> FALSE]

(* A plausible slip: a service that does not listen counts as gone.        *)
BeginStartUnlessReady ==
  /\ ctl = None
  /\ Controls("start", IF record # None /\ Owned(record) /\ port = record.birth
                       THEN "owned" ELSE "free")
  /\ UNCHANGED <<life, record, started>>

BeginStart ==
  /\ ctl = None
  /\ Controls("start", IF record # None /\ Owned(record) THEN "owned" ELSE "free")
  /\ UNCHANGED <<life, record, started>>

BeginStop ==
  /\ ctl = None
  /\ record # None /\ Owned(record)
  /\ Controls("stop", "owned") /\ UNCHANGED <<life, record, started>>

(* _ready, in the order it looks: the process, the listener, the session    *)
(* that bootstrap answers with, and the process again.                      *)
Refused == (IF Launching THEN Goes("poll") /\ UNCHANGED life ELSE Ends)

CheckOwned ==
  /\ ctl.step = "owned"
  /\ IF Owned(ctl.rec) THEN Goes("listeners") /\ UNCHANGED life ELSE Refused
  /\ UNCHANGED <<record, started>>

CheckListeners ==
  /\ ctl.step = "listeners"
  /\ IF port # None /\ life[port].pid = ctl.rec.pid
     THEN Goes("bootstrap") /\ UNCHANGED life ELSE Refused
  /\ UNCHANGED <<record, started>>

Bootstrap ==
  /\ ctl.step = "bootstrap"
  /\ \/ /\ port # None /\ life[port].kind # "foreign"
        /\ ctl.rec.session \in {None, port}
        /\ ctl' = [ctl EXCEPT !.step = "again", !.seen = port]
        /\ UNCHANGED life
     \/ /\ port # None
        /\ life[port].kind = "foreign" \/ ctl.rec.session \notin {None, port}
        /\ Raises
     \/ Refused
  /\ UNCHANGED <<record, started>>

CheckAgain ==
  /\ ctl.step = "again"
  /\ IF Owned(ctl.rec)
     THEN /\ ctl' = [ctl EXCEPT !.step = "save", !.rec.session = ctl.seen, !.seen = None,
                       !.rec.status = IF ctl.op = "stop" THEN "stopping" ELSE "running"]
          /\ UNCHANGED life
     ELSE Refused
  /\ UNCHANGED <<record, started>>

(* The save that follows: of a service that is running, or of one about to  *)
(* be stopped.  If it fails while a new service is awaited, the loop goes   *)
(* on.                                                                      *)
SaveReady ==
  /\ ctl.step = "save"
  /\ \/ /\ record' = ctl.rec /\ Goes(IF ctl.op = "stop" THEN "recheck" ELSE "report")
        /\ UNCHANGED <<life, faults>>
     \/ Fault /\ Refused /\ UNCHANGED record
  /\ UNCHANGED started

(* status, whose answer the operation reports.                              *)
Report ==
  /\ ctl.step = "report"
  /\ Ends /\ started' = started \cup {ctl.rec.birth} /\ UNCHANGED record

-----------------------------------------------------------------------------
(* start: nothing may listen; then a child, if the system grants one, its   *)
(* record, and the wait until it is ready.                                  *)

CheckFree ==
  /\ ctl.step = "free"
  /\ IF port = None THEN Goes("spawn") /\ UNCHANGED life ELSE Ends
  /\ UNCHANGED <<record, started>>

Spawn ==
  /\ ctl.step = "spawn"
  /\ \/ /\ \E p \in Pids : Appears("service", p)
        /\ ctl' = [ctl EXCEPT !.step = "identify", !.child = born + 1]
     \/ Ends /\ UNCHANGED born
  /\ UNCHANGED <<port, signalled, record, history, faults>>

Identify ==
  /\ ctl.step = "identify"
  /\ IF Live(ctl.child)
     THEN /\ ctl' = [ctl EXCEPT !.step = "register",
                       !.rec = [pid |-> life[ctl.child].pid, birth |-> ctl.child,
                                session |-> None, status |-> "starting"]]
          /\ UNCHANGED life
     ELSE Ends
  /\ UNCHANGED <<record, started>>

Register ==
  /\ ctl.step = "register"
  /\ \/ record' = ctl.rec /\ Goes("poll") /\ UNCHANGED faults
     \/ Fault /\ Goes("failing") /\ UNCHANGED record
  /\ UNCHANGED <<life, started>>

(* A plausible slip: the loop does not look at the clock.                  *)
PollForever ==
  /\ ctl.step = "poll"
  /\ ctl' = [ctl EXCEPT !.seen = None, !.step = IF ~Live(ctl.child) THEN "failing" ELSE "owned"]
  /\ UNCHANGED <<life, record, started>>

Poll ==
  /\ ctl.step = "poll"
  /\ ctl' = [ctl EXCEPT !.seen = None,
               !.step = IF ctl.expired \/ ~Live(ctl.child) THEN "failing" ELSE "owned"]
  /\ UNCHANGED <<life, record, started>>

(* The handler: the failure is recorded if it can be, and the child, unless *)
(* it is gone, or does not yet show the command line of the service, is     *)
(* interrupted; its end is awaited for fifteen seconds.                     *)
RecordFailure ==
  /\ ctl.step = "failing"
  /\ ctl' = [ctl EXCEPT !.step = "interrupt", !.rec.status = "start-failed"]
  /\ \/ record' = ctl'.rec /\ UNCHANGED faults
     \/ Fault /\ UNCHANGED record
  /\ UNCHANGED <<life, started>>

Interrupt ==
  /\ ctl.step = "interrupt"
  /\ \/ /\ Owned(ctl.rec)
        /\ signalled' = signalled \cup {ctl.child} /\ Goes("reap") /\ UNCHANGED life
     \/ ~Owned(ctl.rec) /\ Ends /\ UNCHANGED signalled
  /\ UNCHANGED <<born, port, record, history, faults>>

Reap == ctl.step = "reap" /\ Ends /\ UNCHANGED <<record, started>>

-----------------------------------------------------------------------------
(* stop: the process is looked at once more, then whoever carries its pid   *)
(* is signalled.                                                            *)

Recheck ==
  /\ ctl.step = "recheck"
  /\ IF Owned(ctl.rec)
     THEN ctl' = [ctl EXCEPT !.step = "kill", !.checked = born] /\ UNCHANGED life
     ELSE Ends
  /\ UNCHANGED <<record, started>>

Kill ==
  /\ ctl.step = "kill"
  /\ LET target == {b \in Births : Live(b) /\ life[b].pid = ctl.rec.pid} IN
     /\ signalled' = signalled \cup target
     /\ IF target # {} THEN Goes("await") /\ UNCHANGED life ELSE Ends
  /\ UNCHANGED <<born, port, record, history, faults>>

Await ==
  /\ ctl.step = "await"
  /\ \/ ~Live(ctl.rec.birth) /\ EndsWith([ctl.rec EXCEPT !.status = "stopped"]) /\ UNCHANGED faults
     \/ ctl.expired /\ EndsWith([ctl.rec EXCEPT !.status = "stop-pending"]) /\ UNCHANGED faults
     \/ (~Live(ctl.rec.birth) \/ ctl.expired) /\ Fault /\ Ends /\ UNCHANGED record
  /\ UNCHANGED started

-----------------------------------------------------------------------------
(* The deadline passes, of the wait for a new service or for one to end.    *)
Expire ==
  /\ ctl # None /\ ~ctl.expired
  /\ \/ Launching /\ ctl.step \notin {"identify", "failing", "interrupt", "reap"}
     \/ ctl.step = "await"
  /\ ctl' = [ctl EXCEPT !.expired = TRUE]
  /\ UNCHANGED <<procs, signalled, record, history, faults>>

(* ps or lsof does not answer in three seconds: TimeoutExpired, which the   *)
(* loop of start does not catch.                                            *)
ToolStalls ==
  /\ ctl # None
  /\ ctl.step \in {"owned", "listeners", "again", "report", "free",
                   "identify", "recheck", "await", "interrupt"}
  /\ Fault
  /\ IF ctl.step = "interrupt" THEN Ends ELSE Raises
  /\ UNCHANGED <<born, port, signalled, record, history>>

Crash ==
  /\ ctl # None /\ crashes < MaxCrashes
  /\ crashes' = crashes + 1 /\ Ends
  /\ UNCHANGED <<born, port, signalled, record, started, faults>>

Working ==
  /\ ctl # None
  /\ \/ /\ \/ CheckOwned \/ CheckListeners \/ Bootstrap \/ CheckAgain \/ Report
           \/ CheckFree \/ Identify \/ Poll \/ Reap \/ Recheck
        /\ UNCHANGED <<born, port, signalled, crashes, faults>>
     \/ /\ SaveReady \/ Register \/ RecordFailure \/ Await
        /\ UNCHANGED <<born, port, signalled, crashes>>
     \/ Spawn \/ Interrupt \/ Kill

Begin ==
  /\ BeginStart \/ BeginStop
  /\ UNCHANGED <<born, port, signalled, crashes, faults>>

Next == ProcessStep \/ Begin \/ Working \/ Expire \/ ToolStalls \/ Crash

Spec == Init /\ [][Next]_vars /\ WF_vars(Working) /\ WF_vars(Expire)

-----------------------------------------------------------------------------
(* A SIGINT reaches only a service that this controller launched, however   *)
(* pids are reused and listeners replaced; except a process that takes the  *)
(* pid in the instant between the last look and the signal.                 *)
SignalsReachOwnProcess ==
  [][\A b \in signalled' \ signalled : life[b].kind = "service" \/ b > ctl.checked]_vars

(* "finish registration, never adopt others": a service whose start was     *)
(* reported stays the recorded one for as long as it lives, so a later stop *)
(* finds it and a later start launches no second one; and a record that     *)
(* says stopped is of a process that is gone.                               *)
StartedIsRecorded ==
  /\ \A b \in started : Live(b) => record # None /\ record.birth = b
  /\ record # None /\ record.status = "stopped" => ~Live(record.birth)

(* Every operation comes to an end: no service that is slow to start, that  *)
(* ignores its signal, or that is replaced under way keeps it waiting.      *)
OperationsEnd == (ctl # None) ~> (ctl = None)
=============================================================================
