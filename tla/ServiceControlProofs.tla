------------------------ MODULE ServiceControlProofs ------------------------
(***************************************************************************)
(* That the controller signals no process of anybody else, and loses no    *)
(* service it reported as started, for every number of pids, processes,    *)
(* crashes and faults.                                                     *)
(***************************************************************************)
EXTENDS ServiceControl, TLAPS

-----------------------------------------------------------------------------
(* The invariant.  A pid is carried by one process at a time; the process  *)
(* that a record names was launched here, and still carries the recorded   *)
(* pid if it lives.                                                        *)
Processes ==
  [kind : {"service", "manual", "foreign"},
   phase : {"unborn", "booting", "opening", "serving", "closing", "zombie", "gone"},
   pid : Pids \cup {None}]

LifeOK ==
  /\ life \in [Births -> Processes] /\ born \in 0..MaxBirths
  /\ port \in Births \cup {None}
  /\ \A b \in Births : b > born => life[b] = Unborn
  /\ \A b \in Births : life[b].phase \notin {"unborn", "gone"} => life[b].pid \in Pids
  /\ \A b, c \in Births : life[b].pid \in Pids /\ life[b].pid = life[c].pid => b = c

Launched(b) == b \in Births /\ b <= born /\ (Live(b) => life[b].kind = "service")

RecordOK(r) ==
  r \in Records /\ Launched(r.birth) /\ (Live(r.birth) => life[r.birth].pid = r.pid)

SavedOK ==
  record # None =>
    RecordOK(record) /\ (record.status = "stopped" => ~Live(record.birth))

Recorded(b) ==
  /\ record # None /\ record.birth = b /\ record.pid = life[b].pid
  /\ life[b].phase # "booting"

StartedOK ==
  \A b \in started : b \in Births /\ b <= born /\ (Live(b) => Recorded(b))

Controllers ==
  [op : {"start", "stop"},
   step : {"free", "spawn", "identify", "register", "poll", "owned", "listeners", "bootstrap",
           "again", "save", "report", "failing", "interrupt", "reap", "recheck", "kill", "await"},
   rec : Records \cup {None}, child : Births \cup {None}, seen : Births \cup {None},
   checked : Nat, expired : BOOLEAN]

Early == {"free", "spawn", "identify"}

(* What an operation knows at each step.                                   *)
StepsOK ==
  /\ ctl.step \in {"free", "spawn"} => ctl.op = "start" /\ ctl.child = None
  /\ ctl.step = "identify" => ctl.child # None
  /\ ctl.child # None => ctl.op = "start" /\ Launched(ctl.child)
  /\ ctl.step \in {"register", "poll", "failing", "interrupt", "reap"} => ctl.child # None
  /\ ctl.step \in {"recheck", "kill", "await"} => ctl.op = "stop"
  /\ ctl.step = "again" => ctl.seen # None

KnownOK ==
  ctl.step \notin Early =>
    /\ RecordOK(ctl.rec)
    /\ ctl.child # None => ctl.rec.birth = ctl.child
    /\ ctl.child = None =>
         record # None /\ record.birth = ctl.rec.birth /\ record.pid = ctl.rec.pid

SavesOK ==
  /\ ctl.step = "save" => ctl.rec.status # "stopped"
  /\ ctl.step = "register" => ctl.rec.status # "stopped"
  /\ ctl.step \in {"save", "report"} =>
       (Live(ctl.rec.birth) => life[ctl.rec.birth].phase # "booting")
  /\ ctl.step = "report" => record = ctl.rec /\ ctl.op = "start"

(* Nothing that was started lives while another service is launched.       *)
AloneOK ==
  ctl.op = "start" /\ (ctl.child # None \/ ctl.step \in Early) =>
    \A b \in started : ~Live(b)

(* Who may carry the pid that is about to be signalled.                    *)
KillOK ==
  ctl.step = "kill" =>
    /\ ctl.checked <= born
    /\ \A b \in Births : Live(b) /\ life[b].pid = ctl.rec.pid =>
                           life[b].kind = "service" \/ b > ctl.checked

CtlOK ==
  ctl # None =>
    ctl \in Controllers /\ StepsOK /\ KnownOK /\ SavesOK /\ AloneOK /\ KillOK

ControlInv == LifeOK /\ SavedOK /\ StartedOK /\ CtlOK

-----------------------------------------------------------------------------
(* Processes only age: a live one was live, is what it was and carries the *)
(* pid it carried, and has not gone back to the shell it was.              *)
Ages ==
  /\ born' \in Nat /\ born <= born'
  /\ \A b \in Births :
       /\ b <= born /\ Live(b)' => Live(b) /\ life'[b].kind = life[b].kind
                                          /\ life'[b].pid = life[b].pid
       /\ b <= born /\ life'[b].phase = "booting" => life[b].phase = "booting"

(* The ways in which a step touches the processes.                         *)
LEMMA ProcessShapes ==
  ASSUME [Next]_vars
  PROVE  \/ UNCHANGED procs
         \/ UNCHANGED <<born, port>> /\ Ends
         \/ UNCHANGED port /\ \E p \in Pids : Appears("service", p)
         \/ ProcessStep
<1>1. CASE UNCHANGED vars
  BY <1>1 DEF vars, procs
<1>2. CASE ProcessStep
  BY <1>2
<1>3. CASE Begin
  BY <1>3 DEF Begin, BeginStart, BeginStop, procs
<1>4. CASE Working
  <2>1. CASE CheckOwned \/ CheckListeners \/ Bootstrap \/ CheckAgain \/ Report
             \/ CheckFree \/ Identify \/ Poll \/ Reap \/ Recheck
    <3>1. UNCHANGED <<born, port>>
      BY <1>4, <2>1 DEF Working, CheckOwned, CheckListeners, Bootstrap, CheckAgain, Report,
         CheckFree, Identify, Poll, Reap, Recheck, Goes, Spawn, Interrupt, Kill,
         SaveReady, Register, RecordFailure, Await
    <3>2. UNCHANGED life \/ Ends
      BY <2>1 DEF CheckOwned, CheckListeners, Bootstrap, CheckAgain, Report,
         CheckFree, Identify, Poll, Reap, Recheck, Refused, Raises
    <3> QED BY <3>1, <3>2 DEF procs
  <2>2. CASE SaveReady \/ Register \/ RecordFailure \/ Await
    <3>1. UNCHANGED <<born, port>>
      BY <1>4, <2>2 DEF Working, CheckOwned, CheckListeners, Bootstrap, CheckAgain, Report,
         CheckFree, Identify, Poll, Reap, Recheck, Goes, Spawn, Interrupt, Kill,
         SaveReady, Register, RecordFailure, Await
    <3>2. UNCHANGED life \/ Ends
      BY <2>2 DEF SaveReady, Register, RecordFailure, Await, EndsWith, Refused, Raises
    <3> QED BY <3>1, <3>2 DEF procs
  <2>3. CASE Spawn
    BY <2>3 DEF Spawn
  <2>4. CASE Interrupt \/ Kill
    BY <2>4 DEF Interrupt, Kill, procs
  <2> QED BY <1>4, <2>1, <2>2, <2>3, <2>4 DEF Working
<1>5. CASE Expire
  BY <1>5 DEF Expire, procs
<1>6. CASE ToolStalls
  BY <1>6 DEF ToolStalls, Raises, procs
<1>7. CASE Crash
  BY <1>7 DEF Crash
<1> QED BY <1>1, <1>2, <1>3, <1>4, <1>5, <1>6, <1>7 DEF Next

LEMMA LifeStep ==
  ASSUME LifeOK, [Next]_vars
  PROVE  LifeOK' /\ Ages
<1> USE ControlAssumption, NoneAssumption
<1>1. CASE UNCHANGED procs
  BY <1>1 DEF LifeOK, Ages, Live, procs
<1>2. CASE UNCHANGED <<born, port>> /\ Ends
  <2>1. \A b \in Births : life'[b] = IF life[b].phase = "zombie" THEN Gone ELSE life[b]
    BY <1>2 DEF Ends
  <2>2. life' \in [Births -> Processes]
    BY <1>2 DEF Ends, LifeOK, Processes, Gone, Unborn
  <2> QED BY <1>2, <2>1, <2>2 DEF LifeOK, Ages, Live, Gone, Unborn
<1>3. ASSUME NEW kind \in {"service", "manual", "foreign"}, NEW p \in Pids,
             Appears(kind, p), UNCHANGED port
      PROVE  LifeOK' /\ Ages
  <2> DEFINE phase == IF kind = "service" THEN "booting" ELSE "opening"
             new == [kind |-> kind, phase |-> phase, pid |-> p]
  <2>1. born + 1 \in Births /\ born' = born + 1 /\ born \in Nat
        /\ life' = [life EXCEPT ![born + 1] = new]
    BY <1>3 DEF Appears, LifeOK, Births
  <2>2. \A b \in Births : life'[b] = IF b = born + 1 THEN new ELSE life[b]
    BY <2>1 DEF LifeOK
  <2>3. life' \in [Births -> Processes]
    <3>1. new \in Processes
      BY DEF Processes
    <3> QED BY <2>1, <3>1 DEF LifeOK
  <2>4. \A b \in Births : life[b].pid # p
    BY <1>3 DEF Appears, Free
  <2>5. born' \in 0..MaxBirths /\ port' \in Births \cup {None}
    BY <1>3, <2>1 DEF LifeOK, Births
  <2>6. \A b \in Births : b > born' => life'[b] = Unborn
    BY <2>1, <2>2 DEF LifeOK, Births
  <2>7. \A b \in Births : life'[b].phase \notin {"unborn", "gone"} => life'[b].pid \in Pids
    BY <2>2 DEF LifeOK
  <2>8. \A b, c \in Births : life'[b].pid \in Pids /\ life'[b].pid = life'[c].pid => b = c
    BY <2>2, <2>4 DEF LifeOK
  <2>9. LifeOK'
    BY <2>3, <2>5, <2>6, <2>7, <2>8 DEF LifeOK
  <2>10. \A b \in Births : b <= born => life'[b] = life[b]
    BY <2>1, <2>2 DEF Births
  <2>11. Ages
    BY <2>1, <2>10 DEF Ages, Live, Births
  <2> QED BY <2>9, <2>11
<1>4. ASSUME NEW b \in Births, NEW phase \in {"opening", "serving", "closing"},
             Becomes(b, phase), Live(b), UNCHANGED born, port' \in Births \cup {None}
      PROVE  LifeOK' /\ Ages
  <2>1. \A c \in Births : life'[c] = IF c = b THEN [life[b] EXCEPT !.phase = phase] ELSE life[c]
    BY <1>4 DEF Becomes, LifeOK
  <2>2. [life[b] EXCEPT !.phase = phase] \in Processes
    BY <1>4 DEF LifeOK, Processes
  <2>3. life' \in [Births -> Processes]
    BY <1>4, <2>2 DEF Becomes, LifeOK
  <2>4. life'[b].pid = life[b].pid /\ life'[b].kind = life[b].kind /\ life'[b].phase = phase
    BY <2>1 DEF LifeOK, Processes
  <2>5. b <= born
    BY <1>4 DEF LifeOK, Live, Unborn, Births
  <2>6. \A c \in Births : life'[c].pid = life[c].pid
    BY <2>1, <2>4
  <2>7. \A c \in Births : c > born => life'[c] = Unborn
    BY <2>1, <2>5 DEF LifeOK, Births
  <2>8. life[b].phase \notin {"unborn", "gone"}
    BY <1>4 DEF Live
  <2>9. \A c \in Births : life'[c].phase \notin {"unborn", "gone"} => life'[c].pid \in Pids
    BY <2>1, <2>4, <2>8 DEF LifeOK
  <2>10. LifeOK'
    BY <1>4, <2>3, <2>6, <2>7, <2>9 DEF LifeOK
  <2>11. born' \in Nat /\ born <= born'
    BY <1>4 DEF LifeOK
  <2>12. Ages
    BY <1>4, <2>1, <2>4, <2>11 DEF Ages, Live
  <2> QED BY <2>10, <2>12
<1>5. ASSUME NEW b \in Births, Live(b), Exits(b), UNCHANGED born
      PROVE  LifeOK' /\ Ages
  <2> DEFINE last == IF ctl # None /\ ctl.child = b
                     THEN [life[b] EXCEPT !.phase = "zombie"] ELSE Gone
  <2>1. life' = [life EXCEPT ![b] = last]
    BY <1>5 DEF Exits, LifeOK
  <2>2. \A c \in Births : life'[c] = IF c = b THEN last ELSE life[c]
    BY <2>1 DEF LifeOK
  <2>3. last \in Processes /\ last.phase \in {"zombie", "gone"} /\ last.pid \in {None, life[b].pid}
        /\ (last.phase = "zombie" => last.pid = life[b].pid)
    BY DEF LifeOK, Processes, Gone, Unborn
  <2> HIDE DEF last
  <2>4. life' \in [Births -> Processes]
    BY <2>1, <2>3 DEF LifeOK
  <2>5. b <= born
    BY <1>5 DEF LifeOK, Live, Unborn, Births
  <2>6. \A c \in Births : c > born => life'[c] = Unborn
    BY <2>2, <2>5 DEF LifeOK, Births
  <2>7. life[b].pid \in Pids
    BY <1>5 DEF LifeOK, Live
  <2>8. \A c \in Births : life'[c].phase \notin {"unborn", "gone"} => life'[c].pid \in Pids
    BY <2>2, <2>3, <2>7 DEF LifeOK
  <2>9. \A c \in Births : life'[c].pid \in {None, life[c].pid}
    BY <2>2, <2>3
  <2>10. \A c, d \in Births : life'[c].pid \in Pids /\ life'[c].pid = life'[d].pid => c = d
    BY <2>9 DEF LifeOK
  <2>11. port' \in Births \cup {None}
    BY <1>5 DEF Exits, LifeOK
  <2>12. LifeOK'
    BY <1>5, <2>4, <2>6, <2>8, <2>10, <2>11 DEF LifeOK
  <2>13. born' \in Nat /\ born <= born'
    BY <1>5 DEF LifeOK
  <2>14. Ages
    BY <1>5, <2>2, <2>3, <2>13 DEF Ages, Live
  <2> QED BY <2>12, <2>14
<1>6. CASE ProcessStep
  <2>1. ASSUME NEW kind \in {"manual", "foreign"}, NEW p \in Pids, Appears(kind, p), UNCHANGED port
        PROVE  LifeOK' /\ Ages
    BY <1>3, <2>1
  <2>2. ASSUME NEW b \in Births, life[b].phase = "booting", Becomes(b, "opening"),
               UNCHANGED <<born, port>>
        PROVE  LifeOK' /\ Ages
    BY <1>4, <2>2 DEF Live, LifeOK
  <2>3. ASSUME NEW b \in Births, life[b].phase = "opening", Becomes(b, "serving"),
               port' = b, UNCHANGED born
        PROVE  LifeOK' /\ Ages
    BY <1>4, <2>3 DEF Live
  <2>4. ASSUME NEW b \in Births, life[b].phase = "serving", Becomes(b, "closing"),
               port' = None, UNCHANGED born
        PROVE  LifeOK' /\ Ages
    BY <1>4, <2>4 DEF Live
  <2> QED BY <1>5, <1>6, <2>1, <2>2, <2>3, <2>4 DEF ProcessStep
<1> QED BY <1>1, <1>2, <1>3, <1>6, ProcessShapes

(* What is known of a record stays true as the processes age.              *)
LEMMA RecordsStay ==
  ASSUME born \in Nat, Ages
  PROVE  /\ \A b : Launched(b) => Launched(b)'
         /\ \A r : RecordOK(r) => RecordOK(r)'
<1>1. ASSUME NEW b, Launched(b)
      PROVE  Launched(b)'
  <2>1. b \in Births /\ b \in Nat /\ b <= born /\ born \in Nat
    BY <1>1, ControlAssumption DEF Launched, Births
  <2>2. b <= born'
    BY <2>1 DEF Ages
  <2>3. Live(b)' => life'[b].kind = "service"
    BY <1>1, <2>1 DEF Launched, Ages
  <2> QED BY <2>1, <2>2, <2>3 DEF Launched, Live
<1>2. ASSUME NEW r, RecordOK(r)
      PROVE  RecordOK(r)'
  BY <1>1, <1>2 DEF RecordOK, Launched, Ages, Live
<1> QED BY <1>1, <1>2

-----------------------------------------------------------------------------
(* What holds of the files, the history and the operation while they stay. *)
LEMMA SavedStays ==
  ASSUME LifeOK, SavedOK, Ages, UNCHANGED record
  PROVE  SavedOK'
<1>1. record # None => RecordOK(record)'
  BY RecordsStay DEF SavedOK, LifeOK
<1>2. record # None /\ Live(record.birth)' => Live(record.birth)
  BY DEF SavedOK, RecordOK, Launched, Ages, Live
<1> QED BY <1>1, <1>2 DEF SavedOK

LEMMA StartedStays ==
  ASSUME LifeOK, StartedOK, Ages, UNCHANGED <<record, started>>
  PROVE  StartedOK'
<1> SUFFICES ASSUME NEW b \in started
             PROVE  b \in Births /\ b <= born' /\ (Live(b)' => Recorded(b)')
  BY DEF StartedOK
<1>1. b \in Births /\ b \in Nat /\ b <= born /\ born \in Nat /\ (Live(b) => Recorded(b))
  BY ControlAssumption DEF StartedOK, Births, LifeOK
<1>2. b <= born'
  BY <1>1 DEF Ages
<1>3. Live(b)' => Recorded(b)'
  BY <1>1 DEF Ages, Recorded
<1> QED BY <1>1, <1>2, <1>3

(* A record of a service that took the place of the recorded one, or of    *)
(* one that was launched when nothing that was started lived any more.     *)
LEMMA StartedFollows ==
  ASSUME LifeOK, StartedOK, Ages, UNCHANGED started,
         \/ \A b \in started : ~Live(b)
         \/ record # None /\ record' # None /\ record'.birth = record.birth
                          /\ record'.pid = record.pid
  PROVE  StartedOK'
<1> SUFFICES ASSUME NEW b \in started
             PROVE  b \in Births /\ b <= born' /\ (Live(b)' => Recorded(b)')
  BY DEF StartedOK
<1>1. b \in Births /\ b \in Nat /\ b <= born /\ born \in Nat /\ (Live(b) => Recorded(b))
  BY ControlAssumption DEF StartedOK, Births, LifeOK
<1>2. b <= born'
  BY <1>1 DEF Ages
<1>3. Live(b)' => Recorded(b)'
  BY <1>1 DEF Ages, Recorded
<1> QED BY <1>1, <1>2, <1>3

LEMMA CtlStays ==
  ASSUME LifeOK, CtlOK, Ages, UNCHANGED <<ctl, record, started>>,
         \A b \in started : b \in Births /\ b <= born
  PROVE  CtlOK'
<1> SUFFICES ASSUME ctl # None
             PROVE  CtlOK'
  BY DEF CtlOK
<1> USE DEF CtlOK
<1>0. born \in Nat /\ born' \in Nat /\ born <= born' /\ ctl.checked \in Nat
      /\ \A b \in Births : b \in Nat
  BY ControlAssumption DEF LifeOK, Ages, Controllers, Births
<1>1. ctl' \in Controllers
  OBVIOUS
<1>2. StepsOK'
  BY RecordsStay, <1>0 DEF StepsOK
<1>3. KnownOK'
  BY RecordsStay, <1>0 DEF KnownOK
<1>4. SavesOK'
  <2>1. ctl.step \in {"save", "report"} =>
          ctl.rec.birth \in Births /\ ctl.rec.birth <= born
    BY DEF KnownOK, RecordOK, Launched, Early
  <2> QED BY <2>1 DEF SavesOK, Ages
<1>5. AloneOK'
  BY DEF AloneOK, Ages
<1>6. KillOK'
  <2> SUFFICES ASSUME ctl.step = "kill"
               PROVE  KillOK'
    BY DEF KillOK
  <2>1. ctl.checked <= born'
    BY <1>0 DEF KillOK
  <2>2. ASSUME NEW b \in Births, Live(b)', life'[b].pid = ctl.rec.pid
        PROVE  life'[b].kind = "service" \/ b > ctl.checked
    <3>1. CASE b <= born
      BY <2>2, <3>1 DEF KillOK, Ages
    <3>2. CASE ~(b <= born)
      BY <1>0, <3>2 DEF KillOK
    <3> QED BY <3>1, <3>2
  <2> QED BY <2>1, <2>2 DEF KillOK
<1> QED BY <1>1, <1>2, <1>3, <1>4, <1>5, <1>6

-----------------------------------------------------------------------------
(* The invariant holds at first, and of every step.                        *)
LEMMA ControlInit == Init => ControlInv
BY ControlAssumption, NoneAssumption
   DEF Init, ControlInv, LifeOK, SavedOK, StartedOK, CtlOK, Processes, Unborn, Births, Live

(* An operation that ends, or was not there, leaves nothing to be known.   *)
LEMMA Ended ==
  ASSUME ControlInv, Ages, Ends, UNCHANGED <<record, started>>
  PROVE  SavedOK' /\ StartedOK' /\ CtlOK'
BY SavedStays, StartedStays DEF ControlInv, CtlOK, Ends

LEMMA BeginKeeps ==
  ASSUME ControlInv, Ages, BeginStart \/ BeginStop, UNCHANGED born
  PROVE  SavedOK' /\ StartedOK' /\ CtlOK'
<1>1. UNCHANGED <<life, record, started>>
  BY DEF BeginStart, BeginStop
<1>2. SavedOK' /\ StartedOK'
  BY <1>1, SavedStays, StartedStays DEF ControlInv
<1>3. PICK step \in {"owned", "free"}, o \in {"start", "stop"} :
        /\ Controls(o, step)
        /\ step = "owned" => record # None /\ Owned(record)
        /\ step = "free" => o = "start" /\ ~(record # None /\ Owned(record))
  BY DEF BeginStart, BeginStop
<1>4. record # None => RecordOK(record)
  BY DEF ControlInv, SavedOK
<1>5. ctl' = [op |-> o, step |-> step, rec |-> record, child |-> None,
              seen |-> None, checked |-> MaxBirths, expired |-> FALSE]
  BY <1>3 DEF Controls
<1>6. ctl' \in Controllers
  BY <1>4, <1>5, ControlAssumption DEF Controllers, RecordOK
<1>7. step = "free" => \A b \in started : ~Live(b)
  <2> SUFFICES ASSUME step = "free", NEW b \in started, Live(b)
               PROVE  FALSE
    OBVIOUS
  <2>1. Recorded(b) /\ b \in Births
    BY DEF ControlInv, StartedOK
  <2>2. life[b].kind = "service"
    BY <1>4, <2>1 DEF Recorded, RecordOK, Launched
  <2>3. Owned(record)
    BY <2>1, <2>2 DEF Owned, Recorded, Marked
  <2> QED BY <1>3, <2>1, <2>3 DEF Recorded
<1>8. StepsOK' /\ SavesOK' /\ KillOK'
  BY <1>3, <1>5 DEF StepsOK, SavesOK, KillOK
<1>9. KnownOK'
  BY <1>1, <1>3, <1>4, <1>5 DEF KnownOK, Early, RecordOK, Launched, Live
<1>10. AloneOK'
  BY <1>1, <1>5, <1>7 DEF AloneOK, Early, Live
<1> QED BY <1>2, <1>6, <1>8, <1>9, <1>10 DEF CtlOK

(* An operation that looks further, and has learned nothing that it must   *)
(* keep.                                                                   *)
LEMMA LookKeeps ==
  ASSUME ControlInv, Ages, ctl # None, UNCHANGED <<born, port>>,
         CheckOwned \/ CheckListeners \/ Bootstrap \/ CheckFree \/ Poll \/ Reap
  PROVE  SavedOK' /\ StartedOK' /\ CtlOK'
<1>1. UNCHANGED <<record, started>>
  BY DEF CheckOwned, CheckListeners, Bootstrap, CheckFree, Poll, Reap
<1>2. CASE Ends
  BY <1>1, <1>2, Ended
<1>3. CASE ~Ends
  <2>1. SavedOK' /\ StartedOK'
    BY <1>1, SavedStays, StartedStays DEF ControlInv
  <2>2. UNCHANGED life
    BY <1>3 DEF CheckOwned, CheckListeners, Bootstrap, CheckFree, Poll, Reap, Refused, Raises
  <2>3. ctl \in Controllers /\ CtlOK
    BY DEF ControlInv, CtlOK
  <2>4. /\ ctl' \in Controllers /\ ctl'.rec = ctl.rec /\ ctl'.child = ctl.child /\ ctl'.op = ctl.op
        /\ ctl'.step \in {"poll", "listeners", "bootstrap", "again", "failing", "spawn", "owned"}
        /\ ctl'.step = "again" => ctl'.seen # None
        /\ ctl'.step \in {"poll", "failing"} => ctl.child # None
        /\ ctl'.step = "spawn" => ctl.step = "free"
        /\ ctl'.step # "spawn" => ctl.step \notin Early
    <3>1. CASE CheckOwned
      BY <1>3, <2>3, <3>1 DEF CheckOwned, Refused, Goes, Launching, Controllers, Early
    <3>2. CASE CheckListeners
      BY <1>3, <2>3, <3>2 DEF CheckListeners, Refused, Goes, Launching, Controllers, Early
    <3>3. CASE Bootstrap
      <4>1. CASE ctl' = [ctl EXCEPT !.step = "again", !.seen = port] /\ port # None
        BY <2>3, <3>3, <4>1 DEF Bootstrap, Controllers, Early, ControlInv, LifeOK
      <4>2. CASE ctl.step = "bootstrap" /\ ctl.child # None /\ (Goes("failing") \/ Goes("poll"))
        BY <2>3, <4>2 DEF Goes, Controllers, Early
      <4> QED BY <1>3, <3>3, <4>1, <4>2 DEF Bootstrap, Refused, Raises, Launching
    <3>4. CASE CheckFree
      BY <1>3, <2>3, <3>4 DEF CheckFree, Goes, Controllers, Early
    <3>5. CASE Poll
      BY <2>3, <3>5 DEF Poll, Controllers, Early, CtlOK, StepsOK
    <3>6. CASE Reap
      BY <1>3, <3>6 DEF Reap
    <3> QED BY <3>1, <3>2, <3>3, <3>4, <3>5, <3>6
  <2>5. StepsOK' /\ SavesOK' /\ KillOK'
    BY <1>1, <2>2, <2>3, <2>4
       DEF CtlOK, StepsOK, SavesOK, KillOK, Launched, Live, Early
  <2>6. KnownOK'
    BY <1>1, <2>2, <2>3, <2>4 DEF CtlOK, KnownOK, Early, RecordOK, Launched, Live
  <2>7. AloneOK'
    BY <1>1, <2>2, <2>3, <2>4 DEF CtlOK, AloneOK, Early, Live
  <2> QED BY <2>1, <2>4, <2>5, <2>6, <2>7 DEF CtlOK
<1> QED BY <1>2, <1>3

(* An operation that learns who carries the pid: the service it just       *)
(* started or found, or the one it is about to signal.                     *)
LEMMA CheckAgainKeeps ==
  ASSUME ControlInv, Ages, ctl # None, CheckAgain, UNCHANGED <<born, port>>
  PROVE  SavedOK' /\ StartedOK' /\ CtlOK'
<1>1. UNCHANGED <<record, started>>
  BY DEF CheckAgain
<1>2. SavedOK' /\ StartedOK'
  BY <1>1, SavedStays, StartedStays DEF ControlInv
<1>3. ctl \in Controllers /\ StepsOK /\ KnownOK /\ AloneOK /\ ctl.step = "again"
  BY DEF ControlInv, CtlOK, CheckAgain
<1>4. RecordOK(ctl.rec)
  BY <1>3 DEF KnownOK, Early
<1>5. CASE Owned(ctl.rec)
  <2> DEFINE rec == [ctl.rec EXCEPT !.session = ctl.seen,
                       !.status = IF ctl.op = "stop" THEN "stopping" ELSE "running"]
  <2>1. rec \in Records /\ rec.pid = ctl.rec.pid /\ rec.birth = ctl.rec.birth
        /\ rec.status # "stopped"
    BY <1>3, <1>4 DEF RecordOK, Records, Statuses, Controllers, StepsOK
  <2>2. UNCHANGED life /\ ctl' = [ctl EXCEPT !.step = "save", !.rec = rec, !.seen = None]
    BY <1>3, <1>4, <1>5 DEF CheckAgain, Controllers, RecordOK, Records
  <2> HIDE DEF rec
  <2>3. ctl' \in Controllers /\ ctl'.rec = rec /\ ctl'.child = ctl.child /\ ctl'.op = ctl.op
        /\ ctl'.step = "save" /\ ctl'.seen = None
    BY <1>3, <2>1, <2>2 DEF Controllers
  <2>4. RecordOK(rec)
    BY <1>4, <2>1 DEF RecordOK
  <2>5. life[rec.birth].phase # "booting"
    BY <1>5, <2>1 DEF Owned, Marked
  <2>6. SavesOK' /\ KillOK' /\ StepsOK'
    BY <1>3, <2>1, <2>2, <2>3, <2>5 DEF SavesOK, KillOK, StepsOK, Launched, Live
  <2>7. KnownOK' /\ AloneOK'
    BY <1>1, <1>3, <2>1, <2>2, <2>3, <2>4 DEF KnownOK, AloneOK, Early, RecordOK, Launched, Live
  <2> QED BY <1>2, <2>3, <2>6, <2>7 DEF CtlOK
<1>6. CASE ~Owned(ctl.rec)
  <2>1. Ends \/ (Launching /\ Goes("poll") /\ UNCHANGED life)
    BY <1>6 DEF CheckAgain, Refused
  <2>2. ASSUME Launching, Goes("poll"), UNCHANGED life
        PROVE  CtlOK'
    <3>1. ctl' \in Controllers /\ ctl'.rec = ctl.rec /\ ctl'.child = ctl.child /\ ctl'.op = ctl.op
          /\ ctl'.step = "poll" /\ ctl.child # None
      BY <1>3, <2>2 DEF Controllers, Goes, Launching
    <3>2. KillOK' /\ SavesOK' /\ StepsOK'
      BY <1>3, <2>2, <3>1 DEF KillOK, SavesOK, StepsOK, Launched, Live
    <3>3. KnownOK' /\ AloneOK'
      BY <1>1, <1>3, <2>2, <3>1 DEF KnownOK, AloneOK, Early, RecordOK, Launched, Live
    <3> QED BY <3>1, <3>2, <3>3 DEF CtlOK
  <2> QED BY <1>1, <1>2, <2>1, <2>2, Ended
<1> QED BY <1>5, <1>6

LEMMA RecheckKeeps ==
  ASSUME ControlInv, Ages, ctl # None, Recheck, UNCHANGED <<born, port>>
  PROVE  SavedOK' /\ StartedOK' /\ CtlOK'
<1>1. UNCHANGED <<record, started>>
  BY DEF Recheck
<1>2. CASE ~Owned(ctl.rec)
  BY <1>1, <1>2, Ended DEF Recheck
<1>3. CASE Owned(ctl.rec)
  <2>1. SavedOK' /\ StartedOK'
    BY <1>1, SavedStays, StartedStays DEF ControlInv
  <2>2. UNCHANGED life /\ ctl' = [ctl EXCEPT !.step = "kill", !.checked = born]
    BY <1>3 DEF Recheck
  <2>3. ctl \in Controllers /\ StepsOK /\ KnownOK /\ AloneOK /\ ctl.step = "recheck" /\ born \in Nat
    BY DEF ControlInv, CtlOK, Recheck, LifeOK
  <2>4. ctl' \in Controllers /\ ctl'.rec = ctl.rec /\ ctl'.child = ctl.child /\ ctl'.op = ctl.op
        /\ ctl'.step = "kill" /\ ctl'.seen = ctl.seen /\ ctl'.checked = born
    BY <2>2, <2>3 DEF Controllers
  <2>5. \A b \in Births : Live(b) /\ life[b].pid = ctl.rec.pid => life[b].kind = "service"
    <3>1. RecordOK(ctl.rec)
      BY <2>3 DEF KnownOK, Early
    <3>2. ctl.rec.pid \in Pids /\ ctl.rec.birth \in Births
      BY <3>1 DEF RecordOK, Records
    <3>3. Live(ctl.rec.birth) /\ life[ctl.rec.birth].pid = ctl.rec.pid
          /\ life[ctl.rec.birth].kind = "service"
      BY <1>3, <3>1 DEF Owned, RecordOK, Launched
    <3> QED BY <3>2, <3>3 DEF ControlInv, LifeOK
  <2>6. KillOK'
    BY <2>2, <2>3, <2>4, <2>5 DEF KillOK, Live
  <2>7. SavesOK' /\ StepsOK'
    BY <2>2, <2>3, <2>4 DEF SavesOK, StepsOK, Launched, Live
  <2>8. KnownOK' /\ AloneOK'
    BY <1>1, <2>2, <2>3, <2>4 DEF KnownOK, AloneOK, Early, RecordOK, Launched, Live
  <2> QED BY <2>1, <2>4, <2>6, <2>7, <2>8 DEF CtlOK
<1> QED BY <1>2, <1>3

(* An operation that moves on with what it knows.                          *)
LEMMA MoveKeeps ==
  ASSUME ControlInv, ctl # None, ctl.step \notin Early,
         UNCHANGED <<life, born, started>>, record' \in {record, ctl.rec},
         NEW step \in {"poll", "failing", "reap", "recheck", "await"}, Goes(step),
         step \in {"poll", "failing", "reap"} => ctl.child # None,
         step \in {"recheck", "await"} => ctl.op = "stop"
  PROVE  CtlOK'
<1>1. ctl \in Controllers /\ StepsOK /\ KnownOK /\ AloneOK
  BY DEF ControlInv, CtlOK
<1>2. ctl' \in Controllers /\ ctl'.rec = ctl.rec /\ ctl'.child = ctl.child /\ ctl'.op = ctl.op
      /\ ctl'.step = step
  BY <1>1 DEF Controllers, Goes
<1>3. StepsOK' /\ SavesOK' /\ KillOK'
  BY <1>1, <1>2 DEF StepsOK, SavesOK, KillOK, Launched, Live
<1>4. RecordOK(ctl.rec)
  BY <1>1 DEF KnownOK
<1>5. ctl.rec # None
  BY <1>4, NoneAssumption DEF RecordOK
<1>6. KnownOK'
  BY <1>1, <1>2, <1>5 DEF KnownOK, Early, RecordOK, Launched, Live
<1>7. AloneOK'
  BY <1>1, <1>2 DEF AloneOK, Early, Live
<1> QED BY <1>2, <1>3, <1>6, <1>7 DEF CtlOK

(* What an operation saves is of the recorded service, or of one launched  *)
(* when nothing that was started lived any more.                           *)
LEMMA SaveKeeps ==
  ASSUME ControlInv, Ages, ctl # None, ctl.step \notin Early, UNCHANGED started,
         record' \in Records, record'.pid = ctl.rec.pid, record'.birth = ctl.rec.birth,
         record'.status = "stopped" => ~Live(ctl.rec.birth)
  PROVE  SavedOK' /\ StartedOK'
<1>1. ctl \in Controllers /\ StepsOK /\ KnownOK /\ AloneOK
  BY DEF ControlInv, CtlOK
<1>2. RecordOK(ctl.rec)
  BY <1>1 DEF KnownOK
<1>3. PICK r \in Records : r = record'
  OBVIOUS
<1>4. RecordOK(r)'
  BY <1>2, <1>3, RecordsStay DEF RecordOK, ControlInv, LifeOK
<1>5. Live(r.birth)' => Live(r.birth)
  BY <1>2, <1>3 DEF RecordOK, Launched, Ages
<1>6. SavedOK'
  BY <1>3, <1>4, <1>5 DEF SavedOK, RecordOK, Launched, Live
<1>7. record' # None
  BY NoneAssumption
<1>8. \/ \A b \in started : ~Live(b)
      \/ record # None /\ record'.birth = record.birth /\ record'.pid = record.pid
  BY <1>1 DEF StepsOK, KnownOK, AloneOK
<1>9. StartedOK'
  BY <1>7, <1>8, StartedFollows DEF ControlInv
<1> QED BY <1>6, <1>9

LEMMA SaveReadyKeeps ==
  ASSUME ControlInv, Ages, ctl # None, SaveReady, UNCHANGED <<born, port>>
  PROVE  SavedOK' /\ StartedOK' /\ CtlOK'
<1>1. ctl \in Controllers /\ StepsOK /\ KnownOK /\ AloneOK /\ SavesOK /\ ctl.step = "save"
      /\ ctl.step \notin Early /\ UNCHANGED started
  BY DEF ControlInv, CtlOK, SaveReady, Early
<1>2. RecordOK(ctl.rec)
  BY <1>1 DEF KnownOK
<1>3. CASE record' = ctl.rec /\ Goes(IF ctl.op = "stop" THEN "recheck" ELSE "report") /\ UNCHANGED life
  <2>1. SavedOK' /\ StartedOK'
    BY <1>1, <1>2, <1>3, SaveKeeps DEF RecordOK, SavesOK
  <2>2. CASE ctl.op = "stop"
    BY <1>1, <1>3, <2>1, <2>2, MoveKeeps
  <2>3. CASE ctl.op # "stop"
    <3>1. ctl' \in Controllers /\ ctl'.rec = ctl.rec /\ ctl'.child = ctl.child /\ ctl'.op = ctl.op
          /\ ctl'.step = "report" /\ ctl.op = "start"
      BY <1>1, <1>3, <2>3 DEF Controllers, Goes
    <3>2. StepsOK' /\ SavesOK' /\ KillOK'
      BY <1>1, <1>3, <3>1 DEF StepsOK, SavesOK, KillOK, Launched, Live
    <3>3. ctl.rec # None
      BY <1>2, NoneAssumption DEF RecordOK
    <3>4. KnownOK' /\ AloneOK'
      BY <1>1, <1>3, <3>1, <3>3 DEF KnownOK, AloneOK, Early, RecordOK, Launched, Live
    <3> QED BY <2>1, <3>1, <3>2, <3>4 DEF CtlOK
  <2> QED BY <2>2, <2>3
<1>4. CASE Refused /\ UNCHANGED record
  <2>1. SavedOK' /\ StartedOK'
    BY <1>1, <1>4, SavedStays, StartedStays DEF ControlInv
  <2>2. CASE Ends
    BY <1>1, <1>4, <2>2, Ended
  <2>3. CASE Launching /\ Goes("poll") /\ UNCHANGED life
    BY <1>1, <1>4, <2>1, <2>3, MoveKeeps DEF Launching
  <2> QED BY <1>4, <2>2, <2>3 DEF Refused
<1> QED BY <1>3, <1>4 DEF SaveReady

(* The answer of a start is of the recorded service.                       *)
LEMMA ReportKeeps ==
  ASSUME ControlInv, Ages, ctl # None, Report
  PROVE  SavedOK' /\ StartedOK' /\ CtlOK'
<1>1. ctl \in Controllers /\ KnownOK /\ SavesOK /\ ctl.step = "report" /\ Ends
      /\ started' = started \cup {ctl.rec.birth} /\ UNCHANGED record
  BY DEF ControlInv, CtlOK, Report
<1>2. RecordOK(ctl.rec) /\ record = ctl.rec
  BY <1>1 DEF KnownOK, Early, SavesOK
<1>3. StartedOK /\ LifeOK
  BY DEF ControlInv
<1> DEFINE before == started \cup {ctl.rec.birth}
<1>4. \A b \in before : b \in Births /\ b <= born /\ (Live(b) => Recorded(b))
  <2>1. ctl.rec # None
    BY <1>2, NoneAssumption DEF RecordOK
  <2> QED BY <1>1, <1>2, <1>3, <2>1 DEF StartedOK, RecordOK, Launched, Recorded, SavesOK
<1>5. StartedOK'
  <2> SUFFICES ASSUME NEW b \in before
               PROVE  b \in Births /\ b <= born' /\ (Live(b)' => Recorded(b)')
    BY <1>1 DEF StartedOK
  <2>1. b \in Births /\ b \in Nat /\ b <= born /\ born \in Nat /\ (Live(b) => Recorded(b))
    BY <1>3, <1>4, ControlAssumption DEF Births, LifeOK
  <2>2. b <= born'
    BY <2>1 DEF Ages
  <2>3. Live(b)' => Recorded(b)'
    BY <1>1, <2>1 DEF Ages, Recorded
  <2> QED BY <2>1, <2>2, <2>3
<1> QED BY <1>1, <1>5, SavedStays DEF ControlInv, CtlOK, Ends

LEMMA SpawnKeeps ==
  ASSUME ControlInv, LifeOK', Ages, ctl # None, Spawn
  PROVE  SavedOK' /\ StartedOK' /\ CtlOK'
<1>1. UNCHANGED <<record, started>> /\ ctl.step = "spawn"
  BY DEF Spawn, history
<1>2. CASE Ends
  BY <1>1, <1>2, Ended
<1>3. ASSUME NEW p \in Pids, Appears("service", p),
             ctl' = [ctl EXCEPT !.step = "identify", !.child = born + 1]
      PROVE  SavedOK' /\ StartedOK' /\ CtlOK'
  <2>1. SavedOK' /\ StartedOK'
    BY <1>1, SavedStays, StartedStays DEF ControlInv
  <2>2. ctl \in Controllers /\ StepsOK /\ AloneOK /\ born \in Nat
    BY DEF ControlInv, CtlOK, LifeOK
  <2>3. born + 1 \in Births /\ born' = born + 1 /\ life'[born + 1].kind = "service"
    BY <1>3, <2>2, ControlAssumption DEF Appears, ControlInv, LifeOK, Births
  <2>4. born + 1 # None
    BY <2>3, NoneAssumption
  <2>5. ctl' \in Controllers /\ ctl'.op = "start" /\ ctl'.child = born + 1 /\ ctl'.step = "identify"
    BY <1>1, <1>3, <2>2, <2>3 DEF Controllers, StepsOK
  <2>6. StepsOK' /\ KnownOK' /\ SavesOK' /\ KillOK'
    BY <2>2, <2>3, <2>4, <2>5 DEF StepsOK, KnownOK, SavesOK, KillOK, Early, Launched
  <2>7. \A b \in started : ~Live(b)
    BY <1>1, <2>2 DEF AloneOK, Early, StepsOK
  <2>8. AloneOK'
    BY <1>1, <2>7 DEF AloneOK, ControlInv, StartedOK, Ages
  <2> QED BY <2>1, <2>5, <2>6, <2>8 DEF CtlOK
<1> QED BY <1>2, <1>3 DEF Spawn

LEMMA IdentifyKeeps ==
  ASSUME ControlInv, Ages, ctl # None, Identify, UNCHANGED <<born, port>>
  PROVE  SavedOK' /\ StartedOK' /\ CtlOK'
<1>1. UNCHANGED <<record, started>> /\ ctl.step = "identify"
  BY DEF Identify
<1>2. CASE ~Live(ctl.child)
  BY <1>1, <1>2, Ended DEF Identify
<1>3. CASE Live(ctl.child)
  <2> DEFINE rec == [pid |-> life[ctl.child].pid, birth |-> ctl.child,
                     session |-> None, status |-> "starting"]
  <2>1. ctl \in Controllers /\ StepsOK /\ AloneOK /\ ctl.child # None /\ ctl.op = "start"
        /\ Launched(ctl.child) /\ ctl.child \in Births
    BY <1>1 DEF ControlInv, CtlOK, StepsOK, Launched
  <2>2. life[ctl.child].pid \in Pids
    BY <1>3, <2>1 DEF ControlInv, LifeOK, Live
  <2>3. RecordOK(rec) /\ rec.birth = ctl.child /\ rec.status # "stopped"
    BY <2>1, <2>2 DEF RecordOK, Records, Statuses
  <2>4. UNCHANGED life /\ ctl' = [ctl EXCEPT !.step = "register", !.rec = rec]
    BY <1>3 DEF Identify
  <2> HIDE DEF rec
  <2>5. ctl' \in Controllers /\ ctl'.rec = rec /\ ctl'.child = ctl.child /\ ctl'.op = ctl.op
        /\ ctl'.step = "register"
    BY <2>1, <2>3, <2>4 DEF Controllers, RecordOK
  <2>6. StepsOK' /\ SavesOK' /\ KillOK'
    BY <2>1, <2>3, <2>4, <2>5 DEF StepsOK, SavesOK, KillOK, Launched, Live
  <2>7. KnownOK'
    BY <2>1, <2>3, <2>4, <2>5 DEF KnownOK, RecordOK, Launched, Live
  <2>8. AloneOK'
    BY <1>1, <2>1, <2>4, <2>5 DEF AloneOK, Early, Live
  <2>9. SavedOK' /\ StartedOK'
    BY <1>1, SavedStays, StartedStays DEF ControlInv
  <2> QED BY <2>5, <2>6, <2>7, <2>8, <2>9 DEF CtlOK
<1> QED BY <1>2, <1>3

LEMMA RegisterKeeps ==
  ASSUME ControlInv, Ages, ctl # None, Register, UNCHANGED <<born, port>>
  PROVE  SavedOK' /\ StartedOK' /\ CtlOK'
<1>1. UNCHANGED <<life, started>> /\ ctl.step = "register" /\ ctl.step \notin Early
  BY DEF Register, Early
<1>2. ctl.child # None /\ RecordOK(ctl.rec) /\ ctl.rec.status # "stopped"
  BY <1>1 DEF ControlInv, CtlOK, StepsOK, KnownOK, SavesOK
<1>3. CtlOK'
  BY <1>1, <1>2, MoveKeeps DEF Register
<1>4. CASE record' = ctl.rec
  BY <1>1, <1>2, <1>3, <1>4, SaveKeeps DEF RecordOK
<1>5. CASE UNCHANGED record
  BY <1>1, <1>3, <1>5, SavedStays, StartedStays DEF ControlInv
<1> QED BY <1>4, <1>5 DEF Register

LEMMA RecordFailureKeeps ==
  ASSUME ControlInv, Ages, ctl # None, RecordFailure, UNCHANGED <<born, port>>
  PROVE  SavedOK' /\ StartedOK' /\ CtlOK'
<1>1. UNCHANGED <<life, started>> /\ ctl.step = "failing" /\ ctl.step \notin Early
  BY DEF RecordFailure, Early
<1>2. ctl \in Controllers /\ StepsOK /\ KnownOK /\ AloneOK /\ ctl.child # None /\ ctl.op = "start"
  BY <1>1 DEF ControlInv, CtlOK, StepsOK
<1>3. RecordOK(ctl.rec) /\ ctl.rec.birth = ctl.child
  BY <1>1, <1>2 DEF KnownOK
<1> DEFINE rec == [ctl.rec EXCEPT !.status = "start-failed"]
<1>4. rec \in Records /\ rec.pid = ctl.rec.pid /\ rec.birth = ctl.rec.birth
      /\ rec.status # "stopped"
  BY <1>3 DEF RecordOK, Records, Statuses
<1>5. ctl' = [ctl EXCEPT !.step = "interrupt", !.rec = rec]
  BY <1>2, <1>3 DEF RecordFailure, Controllers, RecordOK, Records
<1> HIDE DEF rec
<1>6. ctl' \in Controllers /\ ctl'.rec = rec /\ ctl'.child = ctl.child /\ ctl'.op = ctl.op
      /\ ctl'.step = "interrupt"
  BY <1>2, <1>4, <1>5 DEF Controllers
<1>7. StepsOK' /\ SavesOK' /\ KillOK'
  BY <1>1, <1>2, <1>6 DEF StepsOK, SavesOK, KillOK, Launched, Live
<1>8. KnownOK'
  BY <1>1, <1>2, <1>3, <1>4, <1>6 DEF KnownOK, RecordOK, Launched, Live
<1>9. AloneOK'
  BY <1>1, <1>2, <1>6 DEF AloneOK, Early, Live
<1>10. CtlOK'
  BY <1>6, <1>7, <1>8, <1>9 DEF CtlOK
<1>11. record' = rec \/ UNCHANGED record
  BY <1>6 DEF RecordFailure
<1>12. CASE record' = rec
  BY <1>1, <1>4, <1>10, <1>12, SaveKeeps
<1>13. CASE UNCHANGED record
  BY <1>1, <1>10, <1>13, SavedStays, StartedStays DEF ControlInv
<1> QED BY <1>11, <1>12, <1>13

LEMMA SignalKeeps ==
  ASSUME ControlInv, Ages, ctl # None, Interrupt \/ Kill
  PROVE  SavedOK' /\ StartedOK' /\ CtlOK'
<1>1. UNCHANGED <<record, started, born>> /\ ctl.step \in {"interrupt", "kill"}
      /\ ctl.step \notin Early
  BY DEF Interrupt, Kill, Early, history
<1>2. CASE Ends
  BY <1>1, <1>2, Ended
<1>3. CASE ~Ends
  <2>1. SavedOK' /\ StartedOK'
    BY <1>1, SavedStays, StartedStays DEF ControlInv
  <2>2. ctl.step = "interrupt" => ctl.child # None
    BY DEF ControlInv, CtlOK, StepsOK
  <2>3. ctl.step = "kill" => ctl.op = "stop"
    BY DEF ControlInv, CtlOK, StepsOK
  <2>4. UNCHANGED life
    BY <1>3 DEF Interrupt, Kill
  <2>5. CASE Interrupt
    BY <1>1, <1>3, <2>1, <2>2, <2>4, <2>5, MoveKeeps DEF Interrupt
  <2>6. CASE Kill
    BY <1>1, <1>3, <2>1, <2>3, <2>4, <2>6, MoveKeeps DEF Kill
  <2> QED BY <2>5, <2>6
<1> QED BY <1>2, <1>3

LEMMA AwaitKeeps ==
  ASSUME ControlInv, Ages, ctl # None, Await
  PROVE  SavedOK' /\ StartedOK' /\ CtlOK'
<1>1. UNCHANGED started /\ Ends /\ ctl.step = "await" /\ ctl.step \notin Early
  BY DEF Await, EndsWith, Early
<1>2. RecordOK(ctl.rec)
  BY <1>1 DEF ControlInv, CtlOK, KnownOK
<1>3. CtlOK'
  BY <1>1 DEF CtlOK, Ends
<1>4. CASE ~Live(ctl.rec.birth) /\ record' = [ctl.rec EXCEPT !.status = "stopped"]
  <2>1. record' \in Records /\ record'.pid = ctl.rec.pid /\ record'.birth = ctl.rec.birth
    BY <1>2, <1>4 DEF RecordOK, Records, Statuses
  <2> QED BY <1>1, <1>3, <1>4, <2>1, SaveKeeps
<1>5. CASE record' = [ctl.rec EXCEPT !.status = "stop-pending"]
  <2>1. record' \in Records /\ record'.pid = ctl.rec.pid /\ record'.birth = ctl.rec.birth
        /\ record'.status # "stopped"
    BY <1>2, <1>5 DEF RecordOK, Records, Statuses
  <2> QED BY <1>1, <1>3, <2>1, SaveKeeps
<1>6. CASE UNCHANGED record
  BY <1>1, <1>6, Ended
<1> QED BY <1>4, <1>5, <1>6 DEF Await, EndsWith

LEMMA ExpireKeeps ==
  ASSUME ControlInv, Ages, Expire
  PROVE  SavedOK' /\ StartedOK' /\ CtlOK'
<1>1. UNCHANGED <<record, started, life, born>> /\ ctl # None
      /\ ctl' = [ctl EXCEPT !.expired = TRUE]
  BY DEF Expire, procs, history
<1>2. SavedOK' /\ StartedOK'
  BY <1>1, SavedStays, StartedStays DEF ControlInv
<1>3. ctl \in Controllers /\ StepsOK /\ KnownOK /\ SavesOK /\ AloneOK /\ KillOK
  BY <1>1 DEF ControlInv, CtlOK
<1>4. ctl' \in Controllers /\ ctl'.rec = ctl.rec /\ ctl'.child = ctl.child /\ ctl'.op = ctl.op
      /\ ctl'.step = ctl.step /\ ctl'.seen = ctl.seen /\ ctl'.checked = ctl.checked
  BY <1>1, <1>3 DEF Controllers
<1>5. StepsOK' /\ SavesOK' /\ KillOK'
  BY <1>1, <1>3, <1>4 DEF StepsOK, SavesOK, KillOK, Launched, Live
<1>6. KnownOK' /\ AloneOK'
  BY <1>1, <1>3, <1>4 DEF KnownOK, AloneOK, Early, RecordOK, Launched, Live
<1> QED BY <1>2, <1>4, <1>5, <1>6 DEF CtlOK

LEMMA ToolStallsKeeps ==
  ASSUME ControlInv, Ages, ToolStalls
  PROVE  SavedOK' /\ StartedOK' /\ CtlOK'
<1>1. UNCHANGED <<record, started, born>> /\ ctl # None
      /\ (Ends \/ (Launching /\ ctl.step # "identify" /\ Goes("failing") /\ UNCHANGED life))
  BY DEF ToolStalls, Raises, history
<1>2. CASE Ends
  BY <1>1, <1>2, Ended
<1>3. CASE Launching /\ ctl.step # "identify" /\ Goes("failing") /\ UNCHANGED life
  <2>1. SavedOK' /\ StartedOK'
    BY <1>1, SavedStays, StartedStays DEF ControlInv
  <2>2. ctl.child # None /\ ctl.step \notin Early
    BY <1>1, <1>3 DEF ControlInv, CtlOK, StepsOK, Launching, Early
  <2> QED BY <1>1, <1>3, <2>1, <2>2, MoveKeeps
<1> QED BY <1>1, <1>2, <1>3

LEMMA ControlStep ==
  ASSUME ControlInv, [Next]_vars
  PROVE  ControlInv'
<1>1. LifeOK' /\ Ages
  BY LifeStep DEF ControlInv
<1> SUFFICES SavedOK' /\ StartedOK' /\ CtlOK'
  BY <1>1 DEF ControlInv
<1>2. ASSUME UNCHANGED <<ctl, record, started>>
      PROVE  SavedOK' /\ StartedOK' /\ CtlOK'
  BY <1>1, <1>2, SavedStays, StartedStays, CtlStays DEF ControlInv, StartedOK
<1>3. CASE UNCHANGED vars
  BY <1>2, <1>3 DEF vars
<1>4. CASE ProcessStep
  BY <1>2, <1>4 DEF ProcessStep, history
<1>5. CASE Begin
  BY <1>1, <1>5, BeginKeeps DEF Begin
<1>6. CASE Working
  <2>1. CASE CheckOwned \/ CheckListeners \/ Bootstrap \/ CheckFree \/ Poll \/ Reap
    BY <1>1, <1>6, <2>1, LookKeeps DEF Working, CheckOwned, CheckListeners, Bootstrap, CheckAgain,
       Report, CheckFree, Identify, Poll, Reap, Recheck, SaveReady, Register, RecordFailure, Await,
       Spawn, Interrupt, Kill
  <2>2. CASE UNCHANGED <<born, port>> /\ (CheckAgain \/ Recheck \/ Identify \/ SaveReady
                                        \/ Register \/ RecordFailure)
    BY <1>1, <1>6, <2>2, CheckAgainKeeps, RecheckKeeps, IdentifyKeeps, SaveReadyKeeps,
       RegisterKeeps, RecordFailureKeeps DEF Working
  <2>3. CASE Report \/ Spawn \/ Interrupt \/ Kill \/ Await
    BY <1>1, <1>6, <2>3, ReportKeeps, SpawnKeeps, SignalKeeps, AwaitKeeps DEF Working
  <2> QED BY <1>6, <2>1, <2>2, <2>3 DEF Working
<1>7. CASE Expire
  BY <1>1, <1>7, ExpireKeeps
<1>8. CASE ToolStalls
  BY <1>1, <1>8, ToolStallsKeeps
<1>9. CASE Crash
  BY <1>1, <1>9, Ended DEF Crash
<1> QED BY <1>3, <1>4, <1>5, <1>6, <1>7, <1>8, <1>9 DEF Next

LEMMA ControlAlways == Spec => []ControlInv
<1>1. ControlInv /\ [Next]_vars => ControlInv'
  BY ControlStep
<1> QED BY ControlInit, <1>1, PTL DEF Spec

-----------------------------------------------------------------------------
(* A service whose start was reported is the recorded one for as long as   *)
(* it lives, and a record that says stopped is of a process that is gone:  *)
(* start and stop of service_control.py, among any processes.              *)
THEOREM StartedStaysRecorded == Spec => []StartedIsRecorded
<1>1. ControlInv => StartedIsRecorded
  BY DEF ControlInv, StartedOK, SavedOK, Recorded, StartedIsRecorded
<1> QED BY ControlAlways, <1>1, PTL

(* stop, and the handler of a start that failed, signal only a service     *)
(* that was launched here, but for a process that appears between the last *)
(* look at the pid and the signal.                                         *)
THEOREM SignalsReachOnlyOwn == Spec => SignalsReachOwnProcess
<1> DEFINE Own == \A b \in signalled' \ signalled : life[b].kind = "service" \/ b > ctl.checked
<1>1. ASSUME ControlInv, [Next]_vars
      PROVE  Own \/ UNCHANGED vars
  <2>1. CASE Interrupt /\ ctl # None
    <3>1. ctl.step = "interrupt" /\ signalled' \subseteq signalled \cup {ctl.child}
          /\ (signalled' # signalled => Owned(ctl.rec))
      BY <2>1 DEF Interrupt
    <3>2. RecordOK(ctl.rec) /\ ctl.rec.birth = ctl.child
      BY <1>1, <2>1, <3>1 DEF ControlInv, CtlOK, StepsOK, KnownOK, Early
    <3> QED BY <3>1, <3>2 DEF Owned, RecordOK, Launched
  <2>2. CASE Kill /\ ctl # None
    <3>1. ctl.step = "kill" /\ KillOK
      BY <1>1, <2>2 DEF ControlInv, CtlOK, Kill
    <3> QED BY <2>2, <3>1 DEF Kill, KillOK
  <2>3. CASE ~((Interrupt \/ Kill) /\ ctl # None)
    <3>1. UNCHANGED signalled
      BY <1>1, <2>3 DEF Next, vars, ProcessStep, Begin, Working, Expire, ToolStalls, Crash, Spawn
    <3> QED BY <3>1
  <2> QED BY <2>1, <2>2, <2>3
<1>2. ControlInv /\ [Next]_vars => [Own]_vars
  BY <1>1
<1> QED BY ControlAlways, <1>2, PTL DEF Spec, SignalsReachOwnProcess

=============================================================================
