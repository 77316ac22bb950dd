------------------------ MODULE ModelSettingsProofs ------------------------
(***************************************************************************)
(* The safety of model connections, checks and budgets, for every number   *)
(* of models, endpoints, revisions and calls.                              *)
(***************************************************************************)
EXTENDS ModelSettings, FiniteSetTheorems, TLAPS

-----------------------------------------------------------------------------
(* The invariant.  What holds of a connection holds of it in memory and in *)
(* models.json alike, for either may be what the next service starts with. *)
Places == Destinations \cup {None}
Tuple(p, c) == <<p, c.rev, c.dest, c.cred>>

CountsOK(p, c) == sent[p] <= c.calls /\ c.calls <= MaxCalls

UsesOK(p, c) ==
  /\ c.cred \in {None, c.dest}
  /\ \A u \in used : u[1] = p =>
       u[2] <= c.rev /\ (u[2] = c.rev => u[3] = c.dest /\ u[4] = c.cred)
  /\ c.caps # {} => Tuple(p, c) \in used

FlightOK(p, c) ==
  at[p] # "idle" =>
    /\ c.auth = c.rev /\ Tuple(p, c) \in used
    /\ work[p].kind = "task" => c.grant = c.rev /\ 1 \in c.caps

ConfOK(p, c) ==
  /\ c \in Configurations
  /\ CountsOK(p, c) /\ UsesOK(p, c) /\ FlightOK(p, c)
  /\ c.check = "running" => c.auth = c.rev

Chosen(c) == c.check # "running" => c.auth = c.rev /\ 1 \in c.caps

StateOK(m) ==
  /\ m \in States
  /\ \A p \in Callers : ConfOK(p, m.profiles[p])
  /\ m.primary # None => Chosen(m.profiles[m.primary])

ThreadOK(p) ==
  /\ at[p] # "idle" => work[p] # None /\ work[p].phase = "chat"
  /\ work[p] # None =>
       /\ p \in busy
       /\ work[p].phase \in {"chat", "answered"} => Tuple(p, Conf(p)) \in used
       /\ work[p].kind = "check" => Conf(p).check = "running" /\ work[p].next # 0
       /\ work[p].kind = "task" => Conf(p).check # "running"
  /\ p \in busy => work[p] # None \/ Conf(p).check = "running"
  /\ up /\ Conf(p).check = "running" => p \in busy

ThreadsOK ==
  /\ work \in [Callers -> Works \cup {None}] /\ busy \subseteq Callers
  /\ ~up => busy = {}
  /\ sent \in [Callers -> Nat]
  /\ used \subseteq Callers \X (0..MaxRevision) \X Places \X Places
  /\ \A u, v \in used : u[1] = v[1] /\ u[2] = v[2] => u = v
  /\ \A u \in used : u[4] \in {None, u[3]}
  /\ \A p \in Callers : ThreadOK(p)

Granted(c) == c.auth = c.rev /\ c.grant = c.rev /\ 1 \in c.caps

PublishOK ==
  /\ candidate # None =>
       /\ candidate.model \in Callers
       /\ \E u \in used : u[1] = candidate.model /\ u[2] = candidate.rev /\ u[3] = candidate.dest
  /\ lock # None =>
       /\ up /\ candidate # None
       /\ Granted(Conf(candidate.model))
       /\ Conf(candidate.model).rev = candidate.rev /\ Conf(candidate.model).dest = candidate.dest

TransportOK ==
  /\ at \in [Callers -> Reached \cup Endings \cup {"idle"}]
  /\ slots \in Nat /\ abandoned \in Nat
  /\ SlotsConserved

SettingsInv ==
  StateOK(mem) /\ StateOK(disk) /\ ThreadsOK /\ PublishOK /\ TransportOK

-----------------------------------------------------------------------------
(* Transport: no step begins a call or forgets one but Chat and the end    *)
(* of the thread that made it; and slots are conserved.                    *)
LEMMA SameResolvers ==
  ASSUME TransportOK, UNCHANGED <<resolving, abandoned, slots>>,
         NEW c \in Callers, NEW place \in Reached \cup Endings \cup {"idle"},
         Goto(c, place), at[c] # "resolve", place # "resolve"
  PROVE  TransportOK'
<1>1. at' \in [Callers -> Reached \cup Endings \cup {"idle"}]
  BY DEF TransportOK, Goto
<1>2. {d \in Callers : at'[d] = "resolve"} = {d \in Callers : at[d] = "resolve"}
  BY DEF TransportOK, Goto
<1> QED BY <1>1, <1>2 DEF TransportOK, SlotsConserved

LEMMA OneResolverLess ==
  ASSUME TransportOK, NEW c \in Callers, at[c] = "resolve",
         resolving' = resolving \ {c}, abandoned' = abandoned + 1, UNCHANGED slots,
         NEW place \in (Reached \ {"resolve"}) \cup Endings, Goto(c, place)
  PROVE  TransportOK'
<1>1. at' \in [Callers -> Reached \cup Endings \cup {"idle"}]
  BY DEF TransportOK, Goto
<1>2. resolving' = {d \in Callers : at'[d] = "resolve"}
  BY DEF TransportOK, SlotsConserved, Goto, Endings
<1>3. IsFiniteSet(resolving)
  BY SlotsAssumption, FS_Subset DEF TransportOK, SlotsConserved
<1>4. c \in resolving
  BY DEF TransportOK, SlotsConserved
<1>5. Cardinality(resolving \ {c}) = Cardinality(resolving) - 1
  BY <1>3, <1>4, FS_RemoveElement
<1>6. Cardinality(resolving) \in Nat
  BY <1>3, FS_CardinalityType
<1> QED BY <1>1, <1>2, <1>5, <1>6, SlotsAssumption DEF TransportOK, SlotsConserved

LEMMA ChatKeeps ==
  ASSUME TransportOK, NEW c \in Callers, NEW d, Chat(c, d \in Loopback)
  PROVE  TransportOK' /\ at'[c] # "idle" /\ (\A b \in Callers : b # c => at'[b] = at[b])
<1>1. at[c] = "idle" /\ UNCHANGED abandoned
  BY DEF Chat
<1>2. CASE Goto(c, "prepare") /\ UNCHANGED <<resolving, slots>>
  BY <1>1, <1>2, SameResolvers DEF Reached, Goto, TransportOK
<1>3. CASE Goto(c, "broken") /\ UNCHANGED <<resolving, slots>>
  BY <1>1, <1>3, SameResolvers DEF Endings, Goto, TransportOK
<1>4. CASE slots > 0 /\ slots' = slots - 1 /\ resolving' = resolving \cup {c} /\ Goto(c, "resolve")
  <2>1. at' \in [Callers -> Reached \cup Endings \cup {"idle"}] /\ at'[c] = "resolve"
    BY <1>4 DEF TransportOK, Goto, Reached
  <2>2. resolving' = {b \in Callers : at'[b] = "resolve"}
    BY <1>4 DEF TransportOK, SlotsConserved, Goto
  <2>3. IsFiniteSet(resolving)
    BY SlotsAssumption, FS_Subset DEF TransportOK, SlotsConserved
  <2>4. Cardinality(resolving \cup {c}) = Cardinality(resolving) + 1
    BY <1>1, <2>3, FS_AddElement DEF TransportOK, SlotsConserved
  <2>5. Cardinality(resolving) \in Nat
    BY <2>3, FS_CardinalityType
  <2>6. TransportOK'
    BY <1>1, <1>4, <2>1, <2>2, <2>4, <2>5, SlotsAssumption DEF TransportOK, SlotsConserved
  <2> QED BY <1>4, <2>1, <2>6 DEF Goto, TransportOK
<1> QED BY <1>2, <1>3, <1>4 DEF Chat

Underway == \A c \in Callers : at[c] = "idle" <=> at'[c] = "idle"

LEMMA TransportStep ==
  ASSUME TransportOK, TransportNext
  PROVE  TransportOK' /\ Underway
<1>1. CASE Release
  <2>1. Cardinality(resolving) \in Nat
    BY SlotsAssumption, FS_Subset, FS_CardinalityType DEF TransportOK, SlotsConserved
  <2> QED BY <1>1, <2>1, SlotsAssumption DEF Release, TransportOK, SlotsConserved, Underway
<1>2. ASSUME NEW c \in Callers, UNCHANGED <<resolving, abandoned, slots>>, at[c] \notin {"resolve", "idle"},
             NEW place \in (Reached \ {"resolve"}) \cup Endings, Goto(c, place)
      PROVE  TransportOK' /\ Underway
  <2>1. place \in Reached \cup Endings /\ place \notin {"resolve", "idle"}
    BY DEF Reached, Endings
  <2>2. TransportOK'
    BY <1>2, <2>1, SameResolvers
  <2> QED BY <1>2, <2>1, <2>2 DEF Underway, Goto, TransportOK
<1>3. ASSUME NEW c \in Callers, at[c] = "resolve",
             resolving' = resolving \ {c}, abandoned' = abandoned + 1, UNCHANGED slots,
             NEW place \in (Reached \ {"resolve"}) \cup Endings, Goto(c, place)
      PROVE  TransportOK' /\ Underway
  BY <1>3, OneResolverLess DEF Reached, Endings, Underway, Goto, TransportOK
<1>4. ASSUME NEW c \in Callers, UNCHANGED <<at, resolving, abandoned, slots>>
      PROVE  TransportOK' /\ Underway
  BY <1>4 DEF TransportOK, SlotsConserved, Underway
<1>5. ASSUME NEW c \in Callers, CallerStep(c) \/ Resolved(c) \/ Headers(c)
      PROVE  TransportOK' /\ Underway
  <2>1. CASE Resolved(c) \/ ResolveTimeout(c)
    <3>1. PICK place \in (Reached \ {"resolve"}) \cup Endings : Goto(c, place)
      BY <2>1 DEF Resolved, ResolveTimeout, End, Reached, Endings
    <3>2. at[c] = "resolve" /\ resolving' = resolving \ {c} /\ abandoned' = abandoned + 1
          /\ UNCHANGED slots
      BY <2>1 DEF Resolved, ResolveTimeout
    <3> QED BY <1>3, <3>1, <3>2
  <2>2. CASE Prepare(c) \/ Socket(c)
    <3>1. PICK place \in (Reached \ {"resolve"}) \cup Endings : Goto(c, place)
      BY <2>2 DEF Prepare, Socket, EndHere, End, Proceed, Reached, Endings
    <3>2. at[c] \notin {"resolve", "idle"} /\ UNCHANGED <<resolving, abandoned, slots>>
      BY <2>2 DEF Prepare, Socket, EndHere, Proceed
    <3> QED BY <1>2, <3>1, <3>2
  <2>3. CASE Connect(c) \/ Handshake(c) \/ Headers(c)
    <3>1. PICK place \in (Reached \ {"resolve"}) \cup Endings : Goto(c, place)
      BY <2>3 DEF Connect, Handshake, Headers, EndHere, End, Proceed, Broken, Reached, Endings
    <3>2. at[c] \notin {"resolve", "idle"} /\ UNCHANGED <<resolving, abandoned, slots>>
      BY <2>3 DEF Connect, Handshake, Headers, EndHere, Proceed, Broken
    <3> QED BY <1>2, <3>1, <3>2
  <2>4. CASE HeadersExpired(c) \/ Body(c)
    <3>1. PICK place \in (Reached \ {"resolve"}) \cup Endings : Goto(c, place)
      BY <2>4 DEF HeadersExpired, Body, EndHere, End, Reached, Endings
    <3>2. at[c] \notin {"resolve", "idle"} /\ UNCHANGED <<resolving, abandoned, slots>>
      BY <2>4 DEF HeadersExpired, Body, EndHere
    <3> QED BY <1>2, <3>1, <3>2
  <2> QED BY <1>5, <2>1, <2>2, <2>3, <2>4 DEF CallerStep
<1>6. ASSUME NEW c \in Callers, TimerFires(c) \/ DeadlinePasses(c)
      PROVE  TransportOK' /\ Underway
  BY <1>4, <1>6 DEF TimerFires, DeadlinePasses
<1> QED BY <1>1, <1>5, <1>6 DEF TransportNext

-----------------------------------------------------------------------------
(* How the stored state is written.                                        *)
LEMMA WithIs ==
  ASSUME NEW m \in States, NEW p \in Callers, NEW c \in Configurations
  PROVE  /\ With(m, p, c) \in States
         /\ With(m, p, c).profiles = [m.profiles EXCEPT ![p] = c]
         /\ With(m, p, c).primary = m.primary
BY DEF With, States

LEMMA DemoteIs ==
  ASSUME NEW m \in States, NEW p \in Callers
  PROVE  /\ Demote(m, p) \in States
         /\ Demote(m, p).profiles = m.profiles
         /\ Demote(m, p).primary = IF m.primary = p THEN None ELSE m.primary
BY DEF Demote, States

(* What holds of a connection stays true while its calls and its thread do.*)
LEMMA ConfStays ==
  ASSUME NEW q \in Callers, NEW c, ConfOK(q, c), sent'[q] = sent[q],
         used \subseteq used', \A u \in used' \ used : u[1] # q,
         at'[q] = "idle" \/ (at[q] # "idle" /\ work'[q].kind = work[q].kind)
  PROVE  ConfOK(q, c)'
<1>1. c \in Configurations /\ (c.check = "running" => c.auth = c.rev)
  BY DEF ConfOK
<1>2. CountsOK(q, c)'
  BY DEF ConfOK, CountsOK
<1>3. UsesOK(q, c)'
  BY DEF ConfOK, UsesOK, Tuple
<1>4. FlightOK(q, c)'
  BY DEF ConfOK, FlightOK, Tuple
<1> QED BY <1>1, <1>2, <1>3, <1>4 DEF ConfOK

(* One connection changes; the file keeps the old state or gets the new.   *)
Updates(p, new) ==
  /\ mem' \in States /\ mem'.profiles = [mem.profiles EXCEPT ![p] = new]
  /\ mem'.primary \in {None, mem.primary, p} /\ (mem'.primary = p => Chosen(new))
  /\ disk' \in {disk, mem'}

LEMMA SavesUpdate ==
  ASSUME mem \in States, NEW p \in Callers, NEW new \in Configurations, NEW ok \in BOOLEAN,
         Save(With(mem, p, new), ok), mem.primary = p => Chosen(new)
  PROVE  Updates(p, new) /\ (ok => disk' = mem')
BY WithIs DEF Updates, Save

LEMMA SavesDemotion ==
  ASSUME mem \in States, NEW p \in Callers, NEW new \in Configurations, NEW ok \in BOOLEAN,
         Save(Demote(With(mem, p, new), p), ok)
  PROVE  Updates(p, new) /\ (ok => disk' = mem')
<1>1. PICK m : m = With(mem, p, new)
  OBVIOUS
<1>2. m \in States /\ m.profiles = [mem.profiles EXCEPT ![p] = new] /\ m.primary = mem.primary
  BY <1>1, WithIs
<1>3. mem' = Demote(m, p) /\ disk' \in {disk, mem'} /\ (ok => disk' = mem')
  BY <1>1 DEF Save
<1>4. mem' \in States /\ mem'.profiles = m.profiles
      /\ mem'.primary = IF m.primary = p THEN None ELSE m.primary
  BY <1>2, <1>3, DemoteIs
<1> QED BY <1>2, <1>3, <1>4, NoneAssumption DEF Updates

LEMMA OneChanges ==
  ASSUME StateOK(mem), StateOK(disk), NEW p \in Callers, NEW new, ConfOK(p, new)', Updates(p, new),
         \A q \in Callers \ {p} : \A c : ConfOK(q, c) => ConfOK(q, c)',
         disk' = mem' \/ \A c : ConfOK(p, c) => ConfOK(p, c)'
  PROVE  /\ StateOK(mem)' /\ StateOK(disk)'
         /\ mem'.profiles[p] = new
         /\ \A q \in Callers \ {p} : mem'.profiles[q] = mem.profiles[q]
<1>0. PICK d, h : d = disk /\ h = mem
  OBVIOUS
<1>1. PICK m : m = mem' /\ disk' \in {d, m}
  BY <1>0 DEF Updates
<1>2. m.profiles[p] = new /\ \A q \in Callers \ {p} : m.profiles[q] = h.profiles[q]
  BY <1>0, <1>1 DEF StateOK, States, Updates
<1>3. \A q \in Callers : ConfOK(q, m.profiles[q])'
  BY <1>0, <1>2 DEF StateOK
<1>4. m.primary # None => Chosen(m.profiles[m.primary])
  <2>1. m.primary = p => Chosen(m.profiles[m.primary])
    BY <1>1, <1>2 DEF Updates
  <2>2. m.primary # p /\ m.primary # None => m.primary = h.primary /\ h.primary \in Callers \ {p}
    BY <1>0, <1>1 DEF StateOK, States, Updates
  <2>3. h.primary # None => Chosen(h.profiles[h.primary])
    BY <1>0 DEF StateOK
  <2> QED BY <1>2, <2>1, <2>2, <2>3
<1>5. m \in States
  BY <1>1 DEF Updates
<1>6. StateOK(m)'
  BY <1>3, <1>4, <1>5 DEF StateOK, Chosen
<1>7. d # m /\ disk' = d => StateOK(d)'
  <2>1. d # m /\ disk' = d => \A q \in Callers : ConfOK(q, d.profiles[q])'
    BY <1>0, <1>1 DEF StateOK
  <2> QED BY <1>0, <2>1 DEF StateOK, Chosen
<1>8. StateOK(mem)'
  BY <1>1, <1>6 DEF StateOK
<1>9. StateOK(disk)'
  BY <1>1, <1>6, <1>7 DEF StateOK
<1> QED BY <1>0, <1>1, <1>2, <1>8, <1>9

-----------------------------------------------------------------------------
(* The operations on a connection that nobody uses: configure, credential, *)
(* authorize, project_authorization and primary.                           *)
Renews(old, new) ==
  /\ new \in Configurations /\ new.cred \in {None, new.dest} /\ new.calls = old.calls
  /\ new.check # "running"
  /\ \/ new.rev > old.rev /\ new.caps = {}
     \/ new.rev = old.rev /\ new.dest = old.dest /\ new.cred = old.cred /\ new.caps = old.caps

LEMMA QuietKeeps ==
  ASSUME SettingsInv, up, lock = None, NEW p \in Callers, p \notin busy,
         NEW new, Renews(Conf(p), new),
         Updates(p, new), SettingsOnly
  PROVE  SettingsInv'
<1>1. UNCHANGED <<busy, work, lock, candidate, up, sent, used>> /\ UNCHANGED tvars
  BY DEF SettingsOnly
<1>2. UNCHANGED at
  BY <1>1 DEF tvars
<1>3. work[p] = None /\ at[p] = "idle" /\ ThreadsOK /\ StateOK(mem) /\ StateOK(disk)
  BY DEF SettingsInv, ThreadsOK, ThreadOK
<1>4. ConfOK(p, Conf(p)) /\ Conf(p) \in Configurations /\ Conf(p).check # "running"
  BY <1>3 DEF StateOK, ConfOK, ThreadsOK, ThreadOK, Conf
<1>5. ConfOK(p, new)
  <2>1. CountsOK(p, new)
    BY <1>4 DEF ConfOK, CountsOK, Renews
  <2>2. UsesOK(p, new)
    <3>1. Conf(p).rev \in Nat /\ new.rev \in Nat /\ UsesOK(p, Conf(p))
      BY <1>4, BoundsAssumption DEF ConfOK, Renews, Configurations
    <3>2. \A u \in used : u[2] \in Nat
      BY <1>3, BoundsAssumption DEF ThreadsOK
    <3>3. CASE new.rev > Conf(p).rev /\ new.caps = {}
      BY <3>1, <3>2, <3>3 DEF UsesOK, Renews
    <3>4. CASE new.rev = Conf(p).rev /\ new.dest = Conf(p).dest /\ new.cred = Conf(p).cred
               /\ new.caps = Conf(p).caps
      BY <3>1, <3>4 DEF UsesOK, Renews, Tuple
    <3> QED BY <3>3, <3>4 DEF Renews
  <2>3. FlightOK(p, new)
    BY <1>3 DEF FlightOK
  <2> QED BY <2>1, <2>2, <2>3 DEF ConfOK, Renews
<1>6. \A q \in Callers : \A c : ConfOK(q, c) => ConfOK(q, c)'
  BY <1>1, <1>2, ConfStays
<1>7. /\ StateOK(mem)' /\ StateOK(disk)' /\ mem'.profiles[p] = new
      /\ \A q \in Callers \ {p} : mem'.profiles[q] = mem.profiles[q]
  <2>1. ConfOK(p, new)'
    BY <1>5, <1>6
  <2>2. /\ \A q \in Callers \ {p} : \A c : ConfOK(q, c) => ConfOK(q, c)'
        /\ disk' = mem' \/ \A c : ConfOK(p, c) => ConfOK(p, c)'
    BY <1>6
  <2>3. StateOK(mem) /\ StateOK(disk)
    BY <1>3
  <2> QED BY <2>1, <2>2, <2>3, OneChanges
<1>8. ThreadsOK'
  <2>1. ThreadOK(p)'
    <3>1. mem'.profiles[p].check # "running" /\ at'[p] = "idle" /\ work'[p] = None /\ p \notin busy'
      BY <1>1, <1>2, <1>3, <1>7 DEF Renews
    <3> QED BY <3>1 DEF ThreadOK, Conf
  <2>2. \A q \in Callers \ {p} : ThreadOK(q)'
    BY <1>1, <1>2, <1>3, <1>7 DEF ThreadsOK, ThreadOK, Conf, Tuple
  <2> QED BY <1>1, <1>3, <2>1, <2>2 DEF ThreadsOK
<1>9. PublishOK'
  BY <1>1 DEF SettingsInv, PublishOK
<1>10. TransportOK'
  BY <1>1 DEF SettingsInv, TransportOK, SlotsConserved, tvars
<1> QED BY <1>7, <1>8, <1>9, <1>10 DEF SettingsInv

LEMMA QuietOperations ==
  ASSUME SettingsInv, NEW p \in Callers, NEW ok \in BOOLEAN,
         \/ \E d \in Destinations : Configure(p, d, ok)
         \/ Credential(p, ok)
         \/ \E allow \in BOOLEAN : Authorize(p, allow, ok) \/ ProjectAuthorization(p, allow, ok)
         \/ Primary(p, ok)
  PROVE  SettingsInv'
<1> DEFINE old == Conf(p)
<1>0. Unconfigured \in Configurations /\ Unconfigured.caps = {} /\ Unconfigured.check = "none"
  BY BoundsAssumption DEF Unconfigured, Configurations
<1>1. StateOK(mem) /\ mem \in States /\ ConfOK(p, old) /\ old \in Configurations
      /\ old.rev \in 0..MaxRevision /\ old.rev \in Nat /\ old.cred \in {None, old.dest}
      /\ old.dest \in Places
  BY BoundsAssumption DEF SettingsInv, StateOK, Conf, ConfOK, UsesOK, Configurations, Places
<1>2. p \notin busy /\ up => old.check # "running"
  BY DEF SettingsInv, ThreadsOK, ThreadOK
<1>3. mem.primary = p /\ old.check # "running" => old.auth = old.rev /\ 1 \in old.caps
  BY <1>1, NoneAssumption DEF StateOK, Chosen, Conf
<1>4. ASSUME NEW new, Renews(old, new), up, lock = None, p \notin busy, SettingsOnly,
             \/ Save(Demote(With(mem, p, new), p), ok)
             \/ Save(With(mem, p, new), ok) /\ (mem.primary = p => Chosen(new))
      PROVE  SettingsInv'
  <2>1. new \in Configurations
    BY <1>4 DEF Renews
  <2>2. Updates(p, new)
    BY <1>1, <1>4, <2>1, SavesUpdate, SavesDemotion
  <2> QED BY <1>4, <2>2, QuietKeeps
<1>5. ASSUME NEW d \in Destinations, Configure(p, d, ok)
      PROVE  SettingsInv'
  <2> DEFINE new == [Unconfigured EXCEPT !.rev = old.rev + 1, !.dest = d,
                       !.cred = IF old.dest = d THEN old.cred ELSE None, !.calls = old.calls]
  <2>1. old.rev < MaxRevision /\ up /\ lock = None /\ p \notin busy /\ SettingsOnly
        /\ Save(Demote(With(mem, p, new), p), ok)
    BY <1>5 DEF Configure
  <2>2. old.calls \in Nat /\ old.rev + 1 \in 0..MaxRevision /\ old.rev + 1 > old.rev
    BY <1>1, <2>1, BoundsAssumption DEF Configurations
  <2>3. Renews(old, new)
    <3> HIDE DEF old
    <3> QED BY <1>0, <1>1, <2>1, <2>2 DEF Renews, Configurations, Places
  <2> HIDE DEF new
  <2> QED BY <1>4, <2>1, <2>3
<1>6. CASE Credential(p, ok)
  <2> DEFINE new == [Unconfigured EXCEPT !.rev = old.rev + 1, !.dest = old.dest,
                       !.cred = old.dest, !.calls = old.calls]
  <2>1. old.rev < MaxRevision /\ up /\ lock = None /\ p \notin busy /\ SettingsOnly
        /\ Save(Demote(With(mem, p, new), p), ok)
    BY <1>6 DEF Credential, Idle
  <2>2. old.calls \in Nat /\ old.rev + 1 \in 0..MaxRevision /\ old.rev + 1 > old.rev
    BY <1>1, <2>1, BoundsAssumption DEF Configurations
  <2>3. Renews(old, new)
    <3> HIDE DEF old
    <3> QED BY <1>0, <1>1, <2>1, <2>2 DEF Renews, Configurations, Places
  <2> HIDE DEF new
  <2> QED BY <1>4, <2>1, <2>3
<1>7. ASSUME NEW allow \in BOOLEAN, Authorize(p, allow, ok)
      PROVE  SettingsInv'
  <2> DEFINE new == [old EXCEPT !.auth = IF allow THEN old.rev ELSE 0]
  <2>1. up /\ lock = None /\ p \notin busy /\ SettingsOnly
        /\ Save(IF allow THEN With(mem, p, new) ELSE Demote(With(mem, p, new), p), ok)
    BY <1>7 DEF Authorize, Idle
  <2>2. Renews(old, new)
    BY <1>1, <1>2, <2>1, BoundsAssumption DEF Renews, Configurations
  <2>3. allow => (mem.primary = p => Chosen(new))
    BY <1>1, <1>2, <1>3, <2>1 DEF Chosen, Configurations
  <2> HIDE DEF new
  <2>4. CASE allow
    BY <1>4, <2>1, <2>2, <2>3, <2>4
  <2>5. CASE ~allow
    BY <1>4, <2>1, <2>2, <2>5
  <2> QED BY <2>4, <2>5
<1>8. ASSUME NEW allow \in BOOLEAN, ProjectAuthorization(p, allow, ok)
      PROVE  SettingsInv'
  <2> DEFINE new == [old EXCEPT !.grant = IF allow THEN old.rev ELSE 0]
  <2>1. up /\ lock = None /\ p \notin busy /\ SettingsOnly
        /\ Save(With(mem, p, new), ok)
    BY <1>8 DEF ProjectAuthorization, Idle
  <2>2. Renews(old, new)
    BY <1>1, <1>2, <2>1, BoundsAssumption DEF Renews, Configurations
  <2>3. mem.primary = p => Chosen(new)
    BY <1>1, <1>2, <1>3, <2>1 DEF Chosen, Configurations
  <2> HIDE DEF new
  <2> QED BY <1>4, <2>1, <2>2, <2>3
<1>9. CASE Primary(p, ok)
  <2>1. up /\ lock = None /\ p \notin busy /\ SettingsOnly
        /\ old.auth = old.rev /\ 1 \in old.caps /\ Save([mem EXCEPT !.primary = p], ok)
    BY <1>9 DEF Primary, Idle, Preflight
  <2>2. Renews(old, old)
    BY <1>1, <1>2, <2>1 DEF Renews
  <2>3. mem' = [mem EXCEPT !.primary = p] /\ disk' \in {disk, mem'}
    BY <2>1 DEF Save
  <2>4. Chosen(old) /\ old = mem.profiles[p]
    BY <2>1 DEF Chosen, Conf
  <2>5. Updates(p, old)
    BY <1>1, <2>3, <2>4 DEF Updates, States
  <2> QED BY <2>1, <2>2, <2>5, QuietKeeps
<1> QED BY <1>5, <1>6, <1>7, <1>8, <1>9

-----------------------------------------------------------------------------
(* The steps of checks and tasks.  Only the thread of p and its connection *)
(* change.                                                                 *)
Others(p) ==
  \A q \in Callers \ {p} :
    /\ mem'.profiles[q] = mem.profiles[q] /\ work'[q] = work[q] /\ at'[q] = at[q]
    /\ q \in busy' <=> q \in busy

UsedOK ==
  /\ used \subseteq Callers \X (0..MaxRevision) \X Places \X Places
  /\ \A u, v \in used : u[1] = v[1] /\ u[2] = v[2] => u = v
  /\ \A u \in used : u[4] \in {None, u[3]}

LEMMA ThreadKeeps ==
  ASSUME SettingsInv, up, UNCHANGED up, lock = None, UNCHANGED lock, NEW p \in Callers,
         StateOK(mem)', StateOK(disk)', Others(p), busy' \subseteq Callers,
         work' \in [Callers -> Works \cup {None}], sent' \in [Callers -> Nat],
         used \subseteq used', UsedOK', ThreadOK(p)', PublishOK', TransportOK'
  PROVE  SettingsInv'
<1>1. \A q \in Callers \ {p} : ThreadOK(q)'
  BY DEF SettingsInv, ThreadsOK, ThreadOK, Others, Conf, Tuple
<1>2. ThreadsOK'
  BY <1>1 DEF ThreadsOK, UsedOK
<1> QED BY <1>2 DEF SettingsInv

LEMMA PublishStays ==
  ASSUME PublishOK, UNCHANGED <<lock, candidate>>, lock = None, used \subseteq used'
  PROVE  PublishOK'
BY DEF PublishOK

LEMMA TransportStays ==
  ASSUME TransportOK, UNCHANGED tvars
  PROVE  TransportOK'
BY DEF TransportOK, SlotsConserved, tvars

(* What is known while a thread may run.                                   *)
LEMMA Known ==
  ASSUME SettingsInv, NEW p \in Callers
  PROVE  /\ StateOK(mem) /\ StateOK(disk) /\ mem \in States /\ TransportOK /\ PublishOK
         /\ ConfOK(p, Conf(p)) /\ Conf(p) \in Configurations /\ Conf(p) = mem.profiles[p]
         /\ mem.primary = p => Chosen(Conf(p))
         /\ work \in [Callers -> Works \cup {None}] /\ busy \subseteq Callers
         /\ sent \in [Callers -> Nat] /\ UsedOK /\ ThreadOK(p)
         /\ at \in [Callers -> Reached \cup Endings \cup {"idle"}]
BY NoneAssumption
   DEF SettingsInv, StateOK, ConfOK, Conf, ThreadsOK, UsedOK, TransportOK

LEMMA BeginCheckKeeps ==
  ASSUME SettingsInv, NEW p \in Callers, NEW ok \in BOOLEAN, BeginCheck(p, ok)
  PROVE  SettingsInv'
<1>0. PICK new : new = [Conf(p) EXCEPT !.caps = {}, !.check = "running"]
  OBVIOUS
<1> DEFINE w == [kind |-> "check", phase |-> "probe", next |-> 1]
<1>1. /\ up /\ lock = None /\ p \notin busy /\ Preflight(p) /\ busy' = busy \cup {p}
      /\ UNCHANGED <<lock, candidate, up, sent, used, at>> /\ UNCHANGED tvars
      /\ work' = (IF ok THEN [work EXCEPT ![p] = w] ELSE work) /\ Save(With(mem, p, new), ok)
      /\ Conf(p).rev # 0
  BY <1>0 DEF BeginCheck, Idle, tvars
<1>2. work[p] = None /\ at[p] = "idle"
  BY <1>1, Known DEF ThreadOK
<1>3. new \in Configurations /\ new.caps = {} /\ new.check = "running" /\ new.auth = new.rev
      /\ new.calls = Conf(p).calls /\ new.cred = Conf(p).cred /\ new.dest = Conf(p).dest
      /\ new.rev = Conf(p).rev
  BY <1>0, <1>1, Known DEF Preflight, Configurations
<1>4. ConfOK(p, new)
  BY <1>2, <1>3, Known DEF ConfOK, CountsOK, UsesOK, FlightOK
<1>5. \A q \in Callers \ {p} : work'[q] = work[q]
  BY <1>1, Known
<1>6. \A q \in Callers : \A c : ConfOK(q, c) => ConfOK(q, c)'
  BY <1>1, <1>2, <1>5, ConfStays
<1>7. ConfOK(p, new)'
  BY <1>4, <1>6
<1>9. Updates(p, new)
  BY <1>1, <1>3, Known, SavesUpdate DEF Chosen
<1>10. /\ \A q \in Callers \ {p} : \A c : ConfOK(q, c) => ConfOK(q, c)'
       /\ disk' = mem' \/ \A c : ConfOK(p, c) => ConfOK(p, c)'
  BY <1>6
<1>11. StateOK(mem) /\ StateOK(disk)
  BY Known
<1>12. /\ StateOK(mem)' /\ StateOK(disk)' /\ mem'.profiles[p] = new
       /\ \A q \in Callers \ {p} : mem'.profiles[q] = mem.profiles[q]
  BY <1>7, <1>9, <1>10, <1>11, OneChanges
<1>13. w \in Works /\ w # None
  BY BoundsAssumption, NoneAssumption DEF Works
<1>14. work' \in [Callers -> Works \cup {None}] /\ work'[p] = IF ok THEN w ELSE None
  BY <1>1, <1>2, <1>13, Known
<1>15. ThreadOK(p)'
  BY <1>1, <1>2, <1>3, <1>12, <1>13, <1>14 DEF ThreadOK, Conf
<1>16. Others(p)
  BY <1>1, <1>5, <1>12 DEF Others
<1>17. UsedOK' /\ sent' \in [Callers -> Nat] /\ used \subseteq used' /\ busy' \subseteq Callers
  BY <1>1, Known DEF UsedOK
<1>18. PublishOK' /\ TransportOK'
  BY <1>1, Known, PublishStays, TransportStays
<1> QED BY <1>1, <1>12, <1>14, <1>15, <1>16, <1>17, <1>18, ThreadKeeps

(* A request is counted, then sent.                                        *)
LEMMA DispatchKeeps ==
  ASSUME SettingsInv, NEW p \in Callers, NEW ok \in BOOLEAN, Dispatch(p, ok),
         at[p] = "idle", Preflight(p), Affordable(p),
         \A q \in Callers \ {p} : work'[q] = work[q],
         work'[p].kind = "task" => Conf(p).grant = Conf(p).rev /\ 1 \in Conf(p).caps
  PROVE  /\ StateOK(mem)' /\ StateOK(disk)' /\ TransportOK' /\ UsedOK'
         /\ sent' \in [Callers -> Nat] /\ used \subseteq used'
         /\ mem'.profiles[p] = Counted(p)
         /\ \A q \in Callers \ {p} : mem'.profiles[q] = mem.profiles[q] /\ at'[q] = at[q]
         /\ ok => Tuple(p, Conf(p)) \in used'
         /\ ~ok => at'[p] = "idle"
<1>0. PICK new : new = Counted(p)
  OBVIOUS
<1>1. Conf(p).calls < MaxCalls /\ Conf(p).calls \in Nat /\ Conf(p).auth = Conf(p).rev
  BY Known DEF Affordable, Preflight, Configurations
<1>2. /\ new \in Configurations /\ new.calls = Conf(p).calls + 1
      /\ new.rev = Conf(p).rev /\ new.dest = Conf(p).dest /\ new.cred = Conf(p).cred
      /\ new.caps = Conf(p).caps /\ new.auth = Conf(p).auth /\ new.grant = Conf(p).grant
      /\ new.check = Conf(p).check
  BY <1>0, <1>1, Known DEF Counted, Configurations
<1>3. Save(With(mem, p, new), ok)
  BY <1>0 DEF Dispatch
<1>4. UsesOK(p, Conf(p)) /\ CountsOK(p, Conf(p)) /\ UsedOK
  BY Known DEF ConfOK
<1>5. Tuple(p, Conf(p)) \in Callers \X (0..MaxRevision) \X Places \X Places
  BY Known DEF Tuple, Configurations, Places
<1>6. /\ TransportOK' /\ \A q \in Callers \ {p} : at'[q] = at[q]
      /\ ok => sent' = [sent EXCEPT ![p] = @ + 1] /\ used' = used \cup {Tuple(p, Conf(p))}
      /\ ~ok => UNCHANGED <<sent, used, at>>
  <2>1. CASE ok
    <3>1. Chat(p, Conf(p).dest \in Loopback)
      BY <2>1 DEF Dispatch
    <3>2. TransportOK' /\ \A q \in Callers : q # p => at'[q] = at[q]
      BY <3>1, Known, ChatKeeps
    <3> QED BY <2>1, <3>2 DEF Dispatch, Tuple
  <2>2. CASE ~ok
    BY <2>2, Known, TransportStays DEF Dispatch, tvars
  <2> QED BY <2>1, <2>2
<1>7. used \subseteq used' /\ used' \subseteq used \cup {Tuple(p, Conf(p))}
  BY <1>6
<1>8. UsedOK'
  <2> DEFINE t == Tuple(p, Conf(p))
  <2>1. t[1] = p /\ t[2] = Conf(p).rev /\ t[3] = Conf(p).dest /\ t[4] = Conf(p).cred
    BY DEF Tuple
  <2>2. used' \subseteq Callers \X (0..MaxRevision) \X Places \X Places
    BY <1>4, <1>5, <1>7 DEF UsedOK
  <2>3. \A u \in used : u[1] = p /\ u[2] = Conf(p).rev => u = t
    <3> SUFFICES ASSUME NEW u \in used, u[1] = p, u[2] = Conf(p).rev
                 PROVE  u = t
      OBVIOUS
    <3>1. u[3] = Conf(p).dest /\ u[4] = Conf(p).cred
      BY <1>4 DEF UsesOK
    <3>2. u = <<u[1], u[2], u[3], u[4]>>
      BY <1>4 DEF UsedOK
    <3> QED BY <3>1, <3>2 DEF Tuple
  <2>4. t[4] \in {None, t[3]}
    BY <1>4, <2>1 DEF UsesOK
  <2> HIDE DEF t
  <2>5. \A u, v \in used' : u[1] = v[1] /\ u[2] = v[2] => u = v
    BY <1>4, <1>7, <2>1, <2>3 DEF UsedOK, t
  <2>6. \A u \in used' : u[4] \in {None, u[3]}
    BY <1>4, <1>7, <2>4 DEF UsedOK, t
  <2> QED BY <2>2, <2>5, <2>6 DEF UsedOK
<1>9. sent' \in [Callers -> Nat] /\ sent'[p] \in {sent[p], sent[p] + 1}
      /\ \A q \in Callers \ {p} : sent'[q] = sent[q]
  BY <1>6, Known
<1>10. \A q \in Callers \ {p} : \A c : ConfOK(q, c) => ConfOK(q, c)'
  BY <1>6, <1>7, <1>9, ConfStays DEF Tuple
<1>11. ConfOK(p, new)'
  <2>1. CountsOK(p, new)'
    BY <1>1, <1>2, <1>4, <1>9, Known, BoundsAssumption DEF CountsOK
  <2>2. UsesOK(p, new)'
    BY <1>2, <1>4, <1>6, <1>7, Known, BoundsAssumption DEF UsesOK, Tuple, Configurations
  <2>3. FlightOK(p, new)'
    <3>1. CASE ok
      BY <1>1, <1>2, <1>6, <3>1 DEF FlightOK, Tuple
    <3>2. CASE ~ok
      BY <1>6, <3>2 DEF FlightOK
    <3> QED BY <3>1, <3>2
  <2> QED BY <1>1, <1>2, <2>1, <2>2, <2>3 DEF ConfOK
<1>12. Updates(p, new) /\ (ok => disk' = mem')
  BY <1>2, <1>3, Known, SavesUpdate DEF Chosen
<1>13. disk' = mem' \/ \A c : ConfOK(p, c) => ConfOK(p, c)'
  <2> SUFFICES ASSUME ~ok, NEW c, ConfOK(p, c)
               PROVE  ConfOK(p, c)'
    BY <1>12
  <2> QED BY <1>6, ConfStays
<1>14. StateOK(mem) /\ StateOK(disk)
  BY Known
<1>16. /\ StateOK(mem)' /\ StateOK(disk)' /\ mem'.profiles[p] = new
       /\ \A q \in Callers \ {p} : mem'.profiles[q] = mem.profiles[q]
  BY <1>10, <1>11, <1>12, <1>13, <1>14, OneChanges
<1>17. mem'.profiles[p] = Counted(p)
  BY <1>0, <1>16
<1>18. (ok => Tuple(p, Conf(p)) \in used') /\ (~ok => at'[p] = "idle")
  BY <1>6
<1> QED BY <1>6, <1>7, <1>8, <1>9, <1>16, <1>17, <1>18

(* The end of a step that leaves the requests alone.                       *)
LEMMA SettledKeeps ==
  ASSUME SettingsInv, up, lock = None, UNCHANGED <<up, lock, sent, used>>, NEW p \in Callers,
         NEW new, ConfOK(p, new), Updates(p, new), at[p] = "idle" \/ work'[p].kind = work[p].kind,
         UNCHANGED at \/ at' = [at EXCEPT ![p] = "idle"],
         NEW w \in Works \cup {None}, work' = [work EXCEPT ![p] = w],
         busy' \in {busy, busy \ {p}}, mem'.profiles[p] = new => ThreadOK(p)',
         PublishOK', TransportOK'
  PROVE  SettingsInv'
<1>1. \A q \in Callers \ {p} : work'[q] = work[q] /\ at'[q] = at[q] /\ (q \in busy' <=> q \in busy)
  BY Known
<1>2. \A q \in Callers \ {p} : \A c : ConfOK(q, c) => ConfOK(q, c)'
  BY <1>1, ConfStays
<1>3. \A c : ConfOK(p, c) => ConfOK(p, c)'
  BY Known, ConfStays
<1>4. ConfOK(p, new)'
  BY <1>3
<1>5. disk' = mem' \/ \A c : ConfOK(p, c) => ConfOK(p, c)'
  BY <1>3
<1>6. StateOK(mem) /\ StateOK(disk)
  BY Known
<1>7. /\ StateOK(mem)' /\ StateOK(disk)' /\ mem'.profiles[p] = new
      /\ \A q \in Callers \ {p} : mem'.profiles[q] = mem.profiles[q]
  BY <1>2, <1>4, <1>5, <1>6, OneChanges
<1>8. Others(p)
  BY <1>1, <1>7 DEF Others
<1>9. UsedOK' /\ sent' \in [Callers -> Nat] /\ used \subseteq used' /\ busy' \subseteq Callers
      /\ work' \in [Callers -> Works \cup {None}]
  BY Known DEF UsedOK
<1> QED BY <1>7, <1>8, <1>9, ThreadKeeps

LEMMA SavesSame ==
  ASSUME SettingsInv, NEW p \in Callers, NEW ok \in BOOLEAN,
         Save(mem, ok) \/ UNCHANGED <<mem, disk>>
  PROVE  Updates(p, Conf(p)) /\ UNCHANGED mem
<1>1. mem' = mem /\ disk' \in {disk, mem'}
  BY DEF Save
<1>2. mem.profiles = [mem.profiles EXCEPT ![p] = Conf(p)]
  BY Known DEF Conf, States
<1> QED BY <1>1, <1>2, Known DEF Updates

LEMMA WorksOn ==
  ASSUME SettingsInv, NEW p \in Callers, work[p] # None
  PROVE  work[p] \in Works /\ p \in busy /\ (work[p].phase # "chat" => at[p] = "idle")
BY Known DEF ThreadOK

LEMMA ChatEndsKeeps ==
  ASSUME SettingsInv, NEW p \in Callers, NEW ok \in BOOLEAN, ChatEnds(p, ok)
  PROVE  SettingsInv'
<1>1. /\ up /\ lock = None /\ work[p] # None /\ work[p].phase = "chat" /\ at[p] \in Endings
      /\ at' = [at EXCEPT ![p] = "idle"]
      /\ UNCHANGED <<busy, lock, candidate, up, sent, used, resolving, abandoned, slots>>
      /\ Save(mem, ok) \/ UNCHANGED <<mem, disk>>
  BY DEF ChatEnds, Endings
<1>2. PICK x \in {"answered", "failed", "last", "finish"} : ToPhase(p, x)
  <2>1. CASE at[p] = "answered"
    BY <2>1 DEF ChatEnds
  <2>2. CASE at[p] # "answered"
    <3>1. ToPhase(p, IF at[p] = "other" THEN "failed" ELSE "last")
      BY <2>2 DEF ChatEnds
    <3> QED BY <3>1
  <2> QED BY <2>1, <2>2
<1>3. PICK w : w = [work[p] EXCEPT !.phase = x]
  OBVIOUS
<1>4. w \in Works /\ w # None /\ w.kind = work[p].kind /\ w.phase = x /\ w.next = work[p].next
      /\ work' = [work EXCEPT ![p] = w] /\ work'[p] = w
  <2>1. work[p] \in Works
    BY <1>1, Known
  <2>2. w \in Works /\ w.kind = work[p].kind /\ w.phase = x /\ w.next = work[p].next
    BY <1>3, <2>1 DEF Works
  <2>3. work' = [work EXCEPT ![p] = w]
    BY <1>2, <1>3 DEF ToPhase
  <2> QED BY <2>2, <2>3, Known, NoneAssumption
<1>5. Updates(p, Conf(p)) /\ UNCHANGED mem
  BY <1>1, SavesSame
<1>6. at'[p] = "idle" /\ TransportOK'
  <2>1. Goto(p, "idle")
    BY <1>1 DEF Goto
  <2> QED BY <1>1, <2>1, Known, SameResolvers DEF Endings
<1>7. PICK new : new = Conf(p)
  OBVIOUS
<1>8. ThreadOK(p)'
  BY <1>1, <1>4, <1>5, <1>6, Known DEF ThreadOK, Conf, Tuple
<1>9. PublishOK'
  BY <1>1, Known, PublishStays
<1>10. ConfOK(p, new) /\ Updates(p, new)
  BY <1>5, <1>7, Known
<1> QED BY <1>1, <1>4, <1>6, <1>8, <1>9, <1>10, SettledKeeps

LEMMA RecordProbeKeeps ==
  ASSUME SettingsInv, NEW p \in Callers, NEW ok \in BOOLEAN, RecordProbe(p, ok)
  PROVE  SettingsInv'
<1> DEFINE i == work[p].next
           over == ~ok \/ work[p].phase = "last" \/ i = Capabilities
<1>1. /\ up /\ lock = None /\ work[p] # None /\ work[p].kind = "check"
      /\ work[p].phase \in {"answered", "failed", "last"}
      /\ UNCHANGED <<busy, lock, candidate, up, sent, used>> /\ UNCHANGED tvars /\ UNCHANGED at
  BY DEF RecordProbe, tvars
<1>2. PICK passed \in {FALSE, work[p].phase = "answered"} :
        Save(With(mem, p, [Conf(p) EXCEPT !.caps = IF passed THEN @ \cup {i} ELSE @ \ {i}]), ok)
  BY DEF RecordProbe
<1>3. work[p] \in Works /\ p \in busy /\ at[p] = "idle" /\ i \in 1..Capabilities
      /\ Conf(p).check = "running"
  BY <1>1, WorksOn, Known, BoundsAssumption DEF Works, ThreadOK
<1>4. PICK w : w = IF over THEN [work[p] EXCEPT !.phase = "finish"]
                   ELSE [work[p] EXCEPT !.phase = "probe", !.next = i + 1]
  OBVIOUS
<1>5. /\ w \in Works /\ w.phase \in {"finish", "probe"} /\ w.kind = "check" /\ w.next # 0
      /\ work' = [work EXCEPT ![p] = w]
  <2>1. CASE over
    <3>1. w = [work[p] EXCEPT !.phase = "finish"]
      BY <1>4, <2>1
    <3>2. w \in Works /\ w.phase = "finish" /\ w.kind = "check" /\ w.next = i
      BY <1>1, <1>3, <3>1 DEF Works
    <3>3. work' = [work EXCEPT ![p] = w]
      BY <2>1, <3>1 DEF RecordProbe
    <3> QED BY <1>3, <3>2, <3>3
  <2>2. CASE ~over
    <3>1. w = [work[p] EXCEPT !.phase = "probe", !.next = i + 1]
      BY <1>4, <2>2
    <3>2. i + 1 \in 0..Capabilities /\ i + 1 # 0
      BY <1>3, <2>2, BoundsAssumption
    <3>3. w \in Works /\ w.phase = "probe" /\ w.kind = "check" /\ w.next = i + 1
      BY <1>1, <1>3, <3>1, <3>2 DEF Works
    <3>4. work' = [work EXCEPT ![p] = w]
      BY <2>2, <3>1 DEF RecordProbe
    <3> QED BY <3>2, <3>3, <3>4
  <2> QED BY <2>1, <2>2
<1>6. PICK new : new = [Conf(p) EXCEPT !.caps = IF passed THEN @ \cup {i} ELSE @ \ {i}]
  OBVIOUS
<1>7. /\ new \in Configurations /\ new.rev = Conf(p).rev /\ new.dest = Conf(p).dest
      /\ new.cred = Conf(p).cred /\ new.calls = Conf(p).calls /\ new.check = "running"
      /\ new.auth = Conf(p).auth /\ new.caps \in {Conf(p).caps \cup {i}, Conf(p).caps \ {i}}
      /\ (~passed => new.caps \subseteq Conf(p).caps)
  BY <1>3, <1>6, Known DEF Configurations
<1>8. new.caps # {} => Tuple(p, Conf(p)) \in used
  <2>1. CASE work[p].phase = "answered"
    BY <1>1, <2>1, Known DEF ThreadOK
  <2>2. CASE work[p].phase # "answered"
    BY <1>2, <1>7, <2>2, Known DEF ConfOK, UsesOK
  <2> QED BY <2>1, <2>2
<1>9. ConfOK(p, new)
  BY <1>3, <1>7, <1>8, Known DEF ConfOK, CountsOK, UsesOK, FlightOK, Tuple
<1>10. Updates(p, new)
  BY <1>2, <1>6, <1>7, Known, SavesUpdate DEF Chosen
<1>11. work'[p] = w
  BY <1>5, Known
<1>12. mem'.profiles[p] = new => ThreadOK(p)'
  BY <1>1, <1>3, <1>5, <1>7, <1>11, NoneAssumption DEF ThreadOK, Conf
<1>13. PublishOK' /\ TransportOK'
  BY <1>1, Known, PublishStays, TransportStays
<1> QED BY <1>1, <1>3, <1>5, <1>9, <1>10, <1>12, <1>13, SettledKeeps

LEMMA FinishCheckKeeps ==
  ASSUME SettingsInv, NEW p \in Callers, NEW ok \in BOOLEAN, FinishCheck(p, ok)
  PROVE  SettingsInv'
<1>1. /\ up /\ lock = None /\ work[p] # None /\ work[p].kind = "check" /\ work[p].phase = "finish"
      /\ busy' = busy \ {p} /\ work' = [work EXCEPT ![p] = None]
      /\ UNCHANGED <<lock, candidate, up, sent, used, at>> /\ UNCHANGED tvars
  BY DEF FinishCheck, Working, tvars
<1>2. at[p] = "idle" /\ Conf(p).check = "running" /\ Conf(p).auth = Conf(p).rev
  BY <1>1, WorksOn, Known DEF ThreadOK, ConfOK
<1>3. PICK new : new = [Conf(p) EXCEPT !.check = "done"]
  OBVIOUS
<1>4. /\ new \in Configurations /\ new.rev = Conf(p).rev /\ new.dest = Conf(p).dest
      /\ new.cred = Conf(p).cred /\ new.calls = Conf(p).calls /\ new.check = "done"
      /\ new.auth = Conf(p).auth /\ new.caps = Conf(p).caps
  BY <1>3, Known DEF Configurations
<1>5. ConfOK(p, new)
  BY <1>2, <1>4, Known DEF ConfOK, CountsOK, UsesOK, FlightOK, Tuple
<1>6. Updates(p, new)
  <2>1. CASE 1 \in Conf(p).caps
    <3>1. Save(With(mem, p, new), ok)
      BY <1>3, <2>1 DEF FinishCheck
    <3> QED BY <1>2, <1>4, <2>1, <3>1, Known, SavesUpdate DEF Chosen
  <2>2. CASE 1 \notin Conf(p).caps
    <3>1. Save(Demote(With(mem, p, new), p), ok)
      BY <1>3, <2>2 DEF FinishCheck
    <3> QED BY <1>4, <3>1, Known, SavesDemotion
  <2> QED BY <2>1, <2>2
<1>7. mem'.profiles[p] = new => ThreadOK(p)'
  BY <1>1, <1>2, <1>4, Known DEF ThreadOK, Conf
<1>8. PublishOK' /\ TransportOK'
  BY <1>1, Known, PublishStays, TransportStays
<1> QED BY <1>1, <1>2, <1>5, <1>6, <1>7, <1>8, SettledKeeps

LEMMA FinishTaskKeeps ==
  ASSUME SettingsInv, NEW p \in Callers, NEW ok \in BOOLEAN, FinishTask(p, ok)
  PROVE  SettingsInv'
<1>1. /\ up /\ lock = None /\ work[p] # None /\ work[p].kind = "task" /\ work[p].phase # "chat"
      /\ busy' = busy \ {p} /\ work' = [work EXCEPT ![p] = None] /\ Save(mem, ok)
      /\ UNCHANGED <<lock, up, sent, used, at>> /\ UNCHANGED tvars
  BY DEF FinishTask, tvars
<1>2. at[p] = "idle" /\ Conf(p).check # "running"
  BY <1>1, WorksOn, Known DEF ThreadOK
<1>3. Updates(p, Conf(p)) /\ UNCHANGED mem
  BY <1>1, SavesSame
<1>4. ThreadOK(p)'
  BY <1>1, <1>2, <1>3, Known DEF ThreadOK, Conf
<1>5. PublishOK'
  <2>1. CASE UNCHANGED candidate
    BY <1>1, <2>1, Known, PublishStays
  <2>2. CASE work[p].phase = "answered"
             /\ candidate' = [model |-> p, rev |-> Conf(p).rev, dest |-> Conf(p).dest]
    <3>1. Tuple(p, Conf(p)) \in used
      BY <1>1, <2>2, Known DEF ThreadOK
    <3> QED BY <1>1, <2>2, <3>1 DEF PublishOK, Tuple
  <2> QED BY <2>1, <2>2 DEF FinishTask
<1>6. TransportOK'
  BY <1>1, Known, TransportStays
<1>7. PICK new : new = Conf(p)
  OBVIOUS
<1>8. ConfOK(p, new) /\ Updates(p, new)
  BY <1>3, <1>7, Known
<1> QED BY <1>1, <1>2, <1>4, <1>5, <1>6, <1>8, SettledKeeps

LEMMA CountedIs ==
  ASSUME SettingsInv, NEW p \in Callers
  PROVE  /\ Tuple(p, Counted(p)) = Tuple(p, Conf(p)) /\ Counted(p).check = Conf(p).check
         /\ Counted(p).caps = Conf(p).caps
BY Known DEF Counted, Tuple, Configurations

(* A probe that is sent, or a task, leaves its thread waiting for the call. *)
LEMMA SentKeeps ==
  ASSUME SettingsInv, NEW p \in Callers, NEW ok \in BOOLEAN, Dispatch(p, ok), up, lock = None,
         UNCHANGED <<up, lock, candidate>>, at[p] = "idle", Preflight(p), Affordable(p),
         NEW w \in Works \cup {None}, work' = [work EXCEPT ![p] = w],
         w = None => work[p] = None /\ ~ok /\ UNCHANGED busy,
         w # None => /\ p \in busy' /\ (ok => w.phase = "chat") /\ (~ok => w.phase \in {"failed", "finish"})
                     /\ w.kind = "check" => Conf(p).check = "running" /\ w.next # 0
                     /\ w.kind = "task" => Conf(p).check # "running",
         w.kind = "task" => Conf(p).grant = Conf(p).rev /\ 1 \in Conf(p).caps,
         busy' \in {busy, busy \cup {p}}
  PROVE  SettingsInv'
<1>1. work'[p] = w /\ \A q \in Callers \ {p} : work'[q] = work[q]
  BY Known
<1>2. work'[p].kind = "task" => Conf(p).grant = Conf(p).rev /\ 1 \in Conf(p).caps
  BY <1>1
<1>3. /\ StateOK(mem)' /\ StateOK(disk)' /\ TransportOK' /\ UsedOK'
      /\ sent' \in [Callers -> Nat] /\ used \subseteq used'
      /\ mem'.profiles[p] = Counted(p)
      /\ \A q \in Callers \ {p} : mem'.profiles[q] = mem.profiles[q] /\ at'[q] = at[q]
      /\ ok => Tuple(p, Conf(p)) \in used'
      /\ ~ok => at'[p] = "idle"
  BY <1>1, <1>2, DispatchKeeps
<1>4. PICK new : new = Counted(p)
  OBVIOUS
<1>5. mem'.profiles[p] = new /\ new.check = Conf(p).check /\ (ok => Tuple(p, new) \in used')
  BY <1>3, <1>4, CountedIs
<1>6. ThreadOK(p)'
  <2>1. CASE w = None
    BY <1>1, <1>3, <1>5, <2>1, Known DEF ThreadOK, Conf
  <2>2. CASE w # None
    BY <1>1, <1>3, <1>5, <2>2 DEF ThreadOK, Conf, Tuple
  <2> QED BY <2>1, <2>2
<1>7. Others(p)
  BY <1>1, <1>3 DEF Others
<1>8. work' \in [Callers -> Works \cup {None}] /\ busy' \subseteq Callers /\ PublishOK'
  BY <1>3, Known, PublishStays
<1> QED BY <1>3, <1>6, <1>7, <1>8, ThreadKeeps

LEMMA ProbeKeeps ==
  ASSUME SettingsInv, NEW p \in Callers, NEW ok \in BOOLEAN, Probe(p, ok)
  PROVE  SettingsInv'
<1>1. /\ up /\ lock = None /\ work[p] # None /\ work[p].kind = "check" /\ work[p].phase = "probe"
      /\ UNCHANGED <<busy, lock, candidate, up>>
  BY DEF Probe, Working
<1>2. /\ at[p] = "idle" /\ work[p] \in Works /\ p \in busy /\ work[p].next # 0
      /\ Conf(p).check = "running"
  BY <1>1, WorksOn, Known DEF ThreadOK
<1>3. ASSUME NEW x \in {"chat", "failed", "last", "finish"}, ToPhase(p, x)
      PROVE  /\ [work[p] EXCEPT !.phase = x] \in Works
             /\ [work[p] EXCEPT !.phase = x].kind = "check"
             /\ [work[p] EXCEPT !.phase = x].next # 0
             /\ [work[p] EXCEPT !.phase = x].phase = x
             /\ work' = [work EXCEPT ![p] = [work[p] EXCEPT !.phase = x]]
  BY <1>1, <1>2, <1>3 DEF Works, ToPhase
<1>4. CASE /\ Preflight(p) /\ Affordable(p) /\ Dispatch(p, ok)
           /\ \E next \in IF ok THEN {"chat"} ELSE {"failed", "finish"} : ToPhase(p, next)
  <2>1. PICK x \in {"chat", "failed", "last", "finish"} :
          ToPhase(p, x) /\ (ok => x = "chat") /\ (~ok => x \in {"failed", "finish"})
    BY <1>4
  <2>2. PICK w : w = [work[p] EXCEPT !.phase = x]
    OBVIOUS
  <2>3. /\ w \in Works /\ w # None /\ w.kind = "check" /\ w.next # 0 /\ w.phase = x
        /\ work' = [work EXCEPT ![p] = w]
    BY <1>3, <2>1, <2>2, NoneAssumption
  <2> QED BY <1>1, <1>2, <1>4, <2>1, <2>3, SentKeeps
<1>5. ASSUME NEW x \in {"chat", "failed", "last", "finish"}, x # "chat", ToPhase(p, x),
             UNCHANGED <<mem, disk, sent, used>>, UNCHANGED tvars
      PROVE  SettingsInv'
  <2>1. PICK w : w = [work[p] EXCEPT !.phase = x]
    OBVIOUS
  <2>2. /\ w \in Works /\ w # None /\ w.kind = "check" /\ w.next # 0 /\ w.phase = x
        /\ work' = [work EXCEPT ![p] = w]
    BY <1>3, <1>5, <2>1, NoneAssumption
  <2>3. UNCHANGED at
    BY <1>5 DEF tvars
  <2>4. Updates(p, Conf(p)) /\ UNCHANGED mem
    BY <1>5, SavesSame
  <2>5. work'[p] = w
    BY <2>2, Known
  <2>6. ThreadOK(p)'
    BY <1>1, <1>2, <1>5, <2>2, <2>3, <2>4, <2>5 DEF ThreadOK, Conf
  <2>7. PublishOK' /\ TransportOK'
    BY <1>1, <1>5, Known, PublishStays, TransportStays
  <2>8. PICK new : new = Conf(p)
    OBVIOUS
  <2>9. ConfOK(p, new) /\ Updates(p, new)
    BY <2>4, <2>8, Known
  <2> QED BY <1>1, <1>2, <1>5, <2>2, <2>3, <2>6, <2>7, <2>9, SettledKeeps
<1>6. CASE /\ \E next \in {"failed", "last", "finish"} : ToPhase(p, next)
           /\ UNCHANGED <<mem, disk, sent, used>> /\ UNCHANGED tvars
  BY <1>5, <1>6
<1> QED BY <1>4, <1>6 DEF Probe

LEMMA BeginTaskKeeps ==
  ASSUME SettingsInv, NEW p \in Callers, NEW ok \in BOOLEAN, BeginTask(p, ok)
  PROVE  SettingsInv'
<1>1. /\ up /\ lock = None /\ p \notin busy /\ TaskPreflight(p) /\ Affordable(p) /\ Dispatch(p, ok)
      /\ UNCHANGED <<lock, candidate, up>>
      /\ busy' = IF ok THEN busy \cup {p} ELSE busy
  BY DEF BeginTask, Idle
<1>2. work[p] = None /\ at[p] = "idle" /\ Conf(p).check # "running"
  BY <1>1, Known DEF ThreadOK
<1> DEFINE task == [kind |-> "task", phase |-> "chat", next |-> 0]
<1>3. PICK w : w = IF ok THEN task ELSE None
  OBVIOUS
<1>4. task \in Works /\ task # None
  BY BoundsAssumption, NoneAssumption DEF Works
<1>5. w \in Works \cup {None} /\ work' = [work EXCEPT ![p] = w]
  BY <1>2, <1>3, <1>4, Known DEF BeginTask
<1>6. w = None => work[p] = None /\ ~ok /\ UNCHANGED busy
  BY <1>1, <1>2, <1>3, <1>4
<1>7. w # None => /\ p \in busy' /\ (ok => w.phase = "chat") /\ (~ok => w.phase \in {"failed", "finish"})
                  /\ w.kind = "check" => Conf(p).check = "running" /\ w.next # 0
                  /\ w.kind = "task" => Conf(p).check # "running"
  BY <1>1, <1>2, <1>3, <1>4
<1>8. w.kind = "task" => Conf(p).grant = Conf(p).rev /\ 1 \in Conf(p).caps
  BY <1>1 DEF TaskPreflight
<1>9. Preflight(p) /\ busy' \in {busy, busy \cup {p}}
  BY <1>1 DEF TaskPreflight
<1> QED BY <1>1, <1>2, <1>5, <1>6, <1>7, <1>8, <1>9, SentKeeps

-----------------------------------------------------------------------------
(* The steps that leave every connection as it is, and the restart.        *)
LEMMA SameConnections ==
  ASSUME SettingsInv, UNCHANGED <<mem, disk, sent, used>>,
         \A q \in Callers : at'[q] = "idle" \/ (at[q] # "idle" /\ UNCHANGED work)
  PROVE  StateOK(mem)' /\ StateOK(disk)'
<1>1. \A q \in Callers : \A c : ConfOK(q, c) => ConfOK(q, c)'
  BY ConfStays
<1>2. PICK m, d : m = mem /\ d = disk
  OBVIOUS
<1>3. /\ \A q \in Callers : ConfOK(q, m.profiles[q])'
      /\ \A q \in Callers : ConfOK(q, d.profiles[q])'
  BY <1>1, <1>2 DEF SettingsInv, StateOK
<1>4. StateOK(m)' /\ StateOK(d)'
  BY <1>2, <1>3 DEF SettingsInv, StateOK, Chosen
<1> QED BY <1>2, <1>4

LEMMA PublishingKeeps ==
  ASSUME SettingsInv, BeginPublish \/ TakeVault \/ EndPublish \/ BeginImport \/ EndImport
                      \/ \E d \in Loopback : LocalityChanges(d)
  PROVE  SettingsInv'
<1>1. UNCHANGED <<mem, disk, sent, used, work, busy, up, at>> /\ UNCHANGED tvars
  BY DEF BeginPublish, TakeVault, EndPublish, BeginImport, EndImport, LocalityChanges, tvars
<1>2. StateOK(mem)' /\ StateOK(disk)'
  BY <1>1, SameConnections
<1>3. ThreadsOK'
  BY <1>1 DEF SettingsInv, ThreadsOK, ThreadOK, Conf, Tuple
<1>4. TransportOK'
  BY <1>1, TransportStays DEF SettingsInv
<1>5. PublishOK'
  <2>1. CASE UNCHANGED <<lock, candidate>>
    BY <1>1, <2>1 DEF SettingsInv, PublishOK, Conf, Granted
  <2>2. CASE EndPublish
    BY <2>2 DEF EndPublish, PublishOK
  <2>3. CASE BeginPublish
    <3>1. /\ up /\ candidate # None /\ Validated(candidate) /\ UNCHANGED <<candidate, mem, used, up>>
      BY <2>3 DEF BeginPublish
    <3>2. PICK u \in used : /\ u[1] = candidate.model /\ u[2] = candidate.rev
                            /\ u[3] = candidate.dest
      BY <3>1 DEF SettingsInv, PublishOK
    <3>3. candidate.model \in Callers
      BY <3>1 DEF SettingsInv, PublishOK
    <3>4. UsesOK(candidate.model, Conf(candidate.model))
      BY <3>3, Known DEF ConfOK
    <3>5. /\ Conf(candidate.model).rev = candidate.rev
          /\ Conf(candidate.model).dest = candidate.dest
      BY <3>1, <3>2, <3>4 DEF Validated, UsesOK
    <3>6. Granted(Conf(candidate.model))
      BY <3>1 DEF Validated, TaskPreflight, Preflight, Granted
    <3> QED BY <3>1, <3>2, <3>3, <3>5, <3>6 DEF PublishOK, Conf, Granted
  <2> QED BY <2>1, <2>2, <2>3 DEF TakeVault, BeginImport, EndImport, LocalityChanges
<1> QED BY <1>2, <1>3, <1>4, <1>5 DEF SettingsInv

LEMMA RequestsKeep ==
  ASSUME SettingsInv, TransportNext, UNCHANGED mvars
  PROVE  SettingsInv'
<1>1. UNCHANGED <<mem, disk, sent, used, work, busy, up, lock, candidate>>
  BY DEF mvars
<1>2. TransportOK' /\ Underway
  BY TransportStep DEF SettingsInv
<1>3. StateOK(mem)' /\ StateOK(disk)'
  BY <1>1, <1>2, SameConnections DEF Underway
<1>4. ThreadsOK'
  BY <1>1, <1>2 DEF SettingsInv, ThreadsOK, ThreadOK, Conf, Tuple, Underway
<1>5. PublishOK'
  BY <1>1 DEF SettingsInv, PublishOK, Conf, Granted
<1> QED BY <1>2, <1>3, <1>4, <1>5 DEF SettingsInv

LEMMA CrashKeeps ==
  ASSUME SettingsInv, Crash
  PROVE  SettingsInv'
<1>1. /\ UNCHANGED <<mem, disk, sent, used, candidate>> /\ up' = FALSE /\ busy' = {} /\ lock' = None
      /\ work' = [p \in Callers |-> None] /\ at' = [c \in Callers |-> "idle"]
      /\ resolving' = {} /\ abandoned' = 0 /\ slots' = Slots
  BY DEF Crash
<1>2. StateOK(mem)' /\ StateOK(disk)'
  BY <1>1, SameConnections
<1>3. ThreadsOK'
  BY <1>1 DEF SettingsInv, ThreadsOK, ThreadOK
<1>4. PublishOK'
  BY <1>1 DEF SettingsInv, PublishOK
<1>5. TransportOK'
  BY <1>1, FS_EmptySet, SlotsAssumption DEF TransportOK, SlotsConserved
<1> QED BY <1>2, <1>3, <1>4, <1>5 DEF SettingsInv

(* A check cut short has proved nothing, and is no longer running.         *)
LEMMA RepairedIs ==
  ASSUME StateOK(disk), \A p \in Callers : at[p] = "idle"
  PROVE  StateOK(Repaired) /\ \A p \in Callers : Repaired.profiles[p].check # "running"
<1> DEFINE fixed(p) == [disk.profiles[p] EXCEPT !.check = "done", !.caps = {}]
<1>1. ASSUME NEW p \in Callers
      PROVE  /\ disk.profiles[p] \in Configurations /\ ConfOK(p, disk.profiles[p])
             /\ fixed(p) \in Configurations /\ fixed(p).check = "done" /\ fixed(p).caps = {}
             /\ fixed(p).rev = disk.profiles[p].rev /\ fixed(p).dest = disk.profiles[p].dest
             /\ fixed(p).cred = disk.profiles[p].cred /\ fixed(p).calls = disk.profiles[p].calls
             /\ fixed(p).auth = disk.profiles[p].auth /\ fixed(p).grant = disk.profiles[p].grant
  BY DEF StateOK, ConfOK, Configurations
<1>2. \A p \in Callers : Repaired.profiles[p] = IF p \in Interrupted THEN fixed(p) ELSE disk.profiles[p]
  BY DEF Repaired
<1>3. Repaired.primary = IF disk.primary \in Interrupted THEN None ELSE disk.primary
  BY DEF Repaired
<1>4. Repaired \in States
  BY <1>1 DEF Repaired, States, StateOK
<1>5. \A p \in Callers : ConfOK(p, Repaired.profiles[p]) /\ Repaired.profiles[p].check # "running"
  <2> SUFFICES ASSUME NEW p \in Callers
               PROVE  ConfOK(p, Repaired.profiles[p]) /\ Repaired.profiles[p].check # "running"
    OBVIOUS
  <2>1. CASE p \in Interrupted
    <3>1. PICK b : b = disk.profiles[p]
      OBVIOUS
    <3>2. ConfOK(p, b) /\ b \in Configurations
      BY <1>1, <3>1
    <3>3. PICK c : c = Repaired.profiles[p]
      OBVIOUS
    <3>4. c = [b EXCEPT !.check = "done", !.caps = {}]
      BY <1>2, <2>1, <3>1, <3>3
    <3>5. /\ c \in Configurations /\ c.check = "done" /\ c.caps = {} /\ c.rev = b.rev
          /\ c.dest = b.dest /\ c.cred = b.cred /\ c.calls = b.calls
      BY <3>2, <3>4 DEF Configurations
    <3>6. ConfOK(p, c)
      BY <3>2, <3>5 DEF ConfOK, CountsOK, UsesOK, FlightOK
    <3> QED BY <3>3, <3>5, <3>6
  <2>2. CASE p \notin Interrupted
    BY <1>1, <1>2, <2>2 DEF Interrupted
  <2> QED BY <2>1, <2>2
<1>6. ASSUME Repaired.primary # None
      PROVE  Chosen(Repaired.profiles[Repaired.primary])
  <2>1. /\ Repaired.primary = disk.primary /\ disk.primary \in Callers
        /\ disk.primary \notin Interrupted
    BY <1>3, <1>6 DEF StateOK, States
  <2>2. Chosen(disk.profiles[disk.primary])
    BY <1>6, <2>1 DEF StateOK
  <2>3. Repaired.profiles[disk.primary] = disk.profiles[disk.primary]
    BY <1>2, <2>1
  <2> QED BY <2>1, <2>2, <2>3
<1> QED BY <1>4, <1>5, <1>6 DEF StateOK

LEMMA RestartKeeps ==
  ASSUME SettingsInv, NEW ok \in BOOLEAN, Restart(ok)
  PROVE  SettingsInv'
<1>1. /\ ~up /\ up' = ok /\ mem' = Repaired /\ disk' \in {disk, Repaired}
      /\ UNCHANGED <<busy, work, lock, candidate, sent, used, at>> /\ UNCHANGED tvars
  BY DEF Restart, Save, tvars
<1>2. busy = {} /\ lock = None /\ \A p \in Callers : work[p] = None /\ at[p] = "idle"
  BY <1>1 DEF SettingsInv, ThreadsOK, ThreadOK, PublishOK
<1>3. StateOK(Repaired) /\ \A p \in Callers : Repaired.profiles[p].check # "running"
  BY <1>2, RepairedIs DEF SettingsInv
<1>4. \A q \in Callers : \A c : ConfOK(q, c) => ConfOK(q, c)'
  BY <1>1, <1>2, ConfStays
<1>5. PICK r, d : r = Repaired /\ d = disk
  OBVIOUS
<1>6. /\ \A q \in Callers : ConfOK(q, r.profiles[q])'
      /\ \A q \in Callers : ConfOK(q, d.profiles[q])'
  BY <1>3, <1>4, <1>5 DEF SettingsInv, StateOK
<1>7. StateOK(r)' /\ StateOK(d)'
  BY <1>3, <1>5, <1>6 DEF SettingsInv, StateOK, Chosen
<1>8. StateOK(mem)' /\ StateOK(disk)'
  BY <1>1, <1>5, <1>7
<1>9. ThreadsOK'
  <2>1. \A p \in Callers : mem'.profiles[p].check # "running"
    BY <1>1, <1>3
  <2>2. \A p \in Callers : ThreadOK(p)'
    BY <1>1, <1>2, <2>1 DEF ThreadOK, Conf
  <2> QED BY <1>1, <1>2, <2>2 DEF SettingsInv, ThreadsOK
<1>10. PublishOK'
  BY <1>1, <1>2 DEF SettingsInv, PublishOK
<1>11. TransportOK'
  BY <1>1, TransportStays DEF SettingsInv
<1> QED BY <1>8, <1>9, <1>10, <1>11 DEF SettingsInv

LEMMA InitialInv == SettingsInit => SettingsInv
<1> SUFFICES ASSUME SettingsInit
             PROVE  SettingsInv
  OBVIOUS
<1>1. /\ mem = [profiles |-> [p \in Callers |-> Unconfigured], primary |-> None] /\ disk = mem
      /\ busy = {} /\ work = [p \in Callers |-> None] /\ lock = None /\ candidate = None /\ up = TRUE
      /\ sent = [p \in Callers |-> 0] /\ used = {}
      /\ at = [c \in Callers |-> "idle"] /\ resolving = {} /\ abandoned = 0 /\ slots = Slots
  BY DEF SettingsInit, TransportInit
<1>2. Unconfigured \in Configurations /\ Unconfigured.caps = {} /\ Unconfigured.check = "none"
      /\ Unconfigured.cred = None /\ Unconfigured.calls = 0
  BY BoundsAssumption DEF Unconfigured, Configurations
<1>3. \A p \in Callers : ConfOK(p, Unconfigured)
  BY <1>1, <1>2, BoundsAssumption DEF ConfOK, CountsOK, UsesOK, FlightOK
<1>4. StateOK(mem) /\ StateOK(disk)
  BY <1>1, <1>2, <1>3 DEF StateOK, States
<1>5. ThreadsOK
  BY <1>1, <1>2 DEF ThreadsOK, ThreadOK, Conf
<1>6. PublishOK
  BY <1>1 DEF PublishOK
<1>7. TransportOK
  BY <1>1, FS_EmptySet, SlotsAssumption DEF TransportOK, SlotsConserved
<1> QED BY <1>4, <1>5, <1>6, <1>7 DEF SettingsInv

LEMMA StutterKeeps ==
  ASSUME SettingsInv, UNCHANGED allvars
  PROVE  SettingsInv'
<1>1. UNCHANGED <<mem, disk, sent, used, work, busy, up, lock, candidate, at>> /\ UNCHANGED tvars
  BY DEF allvars, mvars, tvars
<1>2. StateOK(mem)' /\ StateOK(disk)'
  BY <1>1, SameConnections
<1>3. ThreadsOK' /\ PublishOK' /\ TransportOK'
  BY <1>1, TransportStays
     DEF SettingsInv, ThreadsOK, ThreadOK, PublishOK, Conf, Tuple, Granted
<1> QED BY <1>2, <1>3 DEF SettingsInv

LEMMA SettingsStep ==
  ASSUME SettingsInv, [SettingsNext]_allvars
  PROVE  SettingsInv'
<1>1. CASE UNCHANGED allvars
  BY <1>1, StutterKeeps
<1>2. ASSUME NEW ok \in BOOLEAN, Operation(ok)
      PROVE  SettingsInv'
  BY <1>2, QuietOperations, BeginCheckKeeps, BeginTaskKeeps DEF Operation
<1>3. ASSUME NEW ok \in BOOLEAN, NEW p \in Callers, WorkStep(p, ok)
      PROVE  SettingsInv'
  BY <1>3, ProbeKeeps, ChatEndsKeeps, RecordProbeKeeps, FinishCheckKeeps, FinishTaskKeeps DEF WorkStep
<1>4. ASSUME NEW ok \in BOOLEAN, Restart(ok)
      PROVE  SettingsInv'
  BY <1>4, RestartKeeps
<1>5. CASE BeginPublish \/ TakeVault \/ EndPublish \/ BeginImport \/ EndImport
           \/ \E d \in Loopback : LocalityChanges(d)
  BY <1>5, PublishingKeeps
<1>6. CASE Crash
  BY <1>6, CrashKeeps
<1>7. CASE TransportNext /\ UNCHANGED mvars
  BY <1>7, RequestsKeep
<1> QED BY <1>1, <1>2, <1>3, <1>4, <1>5, <1>6, <1>7 DEF SettingsNext

LEMMA SettingsAlways == SettingsSpec => []SettingsInv
<1>1. SettingsInv /\ [SettingsNext]_allvars => SettingsInv'
  BY SettingsStep
<1> QED BY InitialInv, <1>1, PTL DEF SettingsSpec

-----------------------------------------------------------------------------
(* Whatever fails or crashes, a request that may have left is counted in   *)
(* models.json, and no more than the budget ever leave: reserve.           *)
THEOREM BudgetAlwaysHolds == SettingsSpec => []BudgetHolds
<1>1. SettingsInv => BudgetHolds
  BY DEF SettingsInv, StateOK, ConfOK, CountsOK, BudgetHolds
<1> QED BY SettingsAlways, <1>1, PTL

(* A call in flight keeps the configuration and the authorization it was   *)
(* sent under, in memory and in models.json: check, generate and the       *)
(* operations that a busy model refuses.                                   *)
THEOREM FlightStaysAuthorized == SettingsSpec => []FlightIsAuthorized
<1>1. SettingsInv => FlightIsAuthorized
  <2> SUFFICES ASSUME SettingsInv, NEW p \in Callers, at[p] # "idle", NEW m \in {mem, disk}
               PROVE  LET c == m.profiles[p] IN
                      /\ c.auth = c.rev /\ <<p, c.rev, c.dest, c.cred>> \in used
                      /\ work[p].kind = "task" => c.grant = c.rev /\ 1 \in c.caps
    BY DEF FlightIsAuthorized
  <2>1. FlightOK(p, m.profiles[p])
    BY DEF SettingsInv, StateOK, ConfOK
  <2> QED BY <2>1 DEF FlightOK, Tuple
<1> QED BY SettingsAlways, <1>1, PTL

(* A revision that was ever sent names one endpoint and one key, and a key *)
(* is only sent where it was entered for: configure, credential and chat.  *)
THEOREM RevisionsNameOne == SettingsSpec => []RevisionsNameOneModel
<1>1. SettingsInv => RevisionsNameOneModel
  BY DEF SettingsInv, ThreadsOK, RevisionsNameOneModel
<1> QED BY SettingsAlways, <1>1, PTL

(* A capability counts only for the configuration a request was sent       *)
(* under: check.                                                           *)
THEOREM CapabilitiesAreProbed == SettingsSpec => []CapabilitiesWereProbed
<1>1. SettingsInv => CapabilitiesWereProbed
  <2> SUFFICES ASSUME SettingsInv, NEW p \in Callers, NEW m \in {mem, disk}
               PROVE  LET c == m.profiles[p] IN
                      c.caps # {} => <<p, c.rev, c.dest, c.cred>> \in used
    BY DEF CapabilitiesWereProbed
  <2>1. UsesOK(p, m.profiles[p])
    BY DEF SettingsInv, StateOK, ConfOK
  <2> QED BY <2>1 DEF UsesOK, Tuple
<1> QED BY SettingsAlways, <1>1, PTL

(* The primary model is authorized and has passed its text probe, for the  *)
(* service that runs and for the one that a restart would find.            *)
THEOREM PrimaryStaysUsable == SettingsSpec => []PrimaryUsable
<1>1. SettingsInv => PrimaryUsable
  <2> SUFFICES ASSUME SettingsInv
               PROVE  PrimaryUsable
    OBVIOUS
  <2>1. ASSUME up, mem.primary \notin busy, mem.primary # None
        PROVE  Usable(mem)
    <3>1. mem.primary \in Callers /\ Chosen(Conf(mem.primary)) /\ ThreadOK(mem.primary)
      BY <2>1 DEF SettingsInv, StateOK, States, Conf, ThreadsOK
    <3> QED BY <2>1, <3>1 DEF ThreadOK, Chosen, Conf, Usable
  <2>2. Usable(Repaired)
    <3> SUFFICES ASSUME Repaired.primary # None
                 PROVE  LET c == Repaired.profiles[Repaired.primary] IN
                        c.auth = c.rev /\ 1 \in c.caps
      BY DEF Usable
    <3>1. Repaired.primary = disk.primary /\ disk.primary \notin Interrupted
          /\ disk.primary \in Callers
      BY DEF Repaired, SettingsInv, StateOK, States
    <3>2. Repaired.profiles[disk.primary] = disk.profiles[disk.primary]
      BY <3>1 DEF Repaired
    <3>3. disk.profiles[disk.primary].check # "running"
      BY <3>1 DEF Interrupted
    <3>4. Chosen(disk.profiles[disk.primary])
      BY <3>1 DEF SettingsInv, StateOK
    <3> QED BY <3>1, <3>2, <3>3, <3>4 DEF Chosen
  <2> QED BY <2>1, <2>2 DEF PrimaryUsable, Usable
<1> QED BY SettingsAlways, <1>1, PTL

(* A model is busy only while a thread works for it, or since a check      *)
(* whose first save was refused: check and generate.                       *)
THEOREM BusyAlwaysHasReason == SettingsSpec => []BusyHasReason
<1>1. SettingsInv => BusyHasReason
  BY DEF SettingsInv, ThreadsOK, ThreadOK, BusyHasReason
<1> QED BY SettingsAlways, <1>1, PTL

(* What is being published was produced by the model that is configured,   *)
(* authorized and granted at that moment: validate_task.                   *)
THEOREM PublishedOnlyUnderGrant == SettingsSpec => []PublishedUnderGrant
<1>1. SettingsInv => PublishedUnderGrant
  BY NoneAssumption DEF SettingsInv, PublishOK, Granted, PublishedUnderGrant
<1> QED BY SettingsAlways, <1>1, PTL

(* No DNS slot is lost and none is made up, whichever of a caller and its  *)
(* resolver gives up first: _resolve.                                      *)
THEOREM SlotsAlwaysConserved == SettingsSpec => []SlotsConserved
<1>1. SettingsInv => SlotsConserved
  BY DEF SettingsInv, TransportOK
<1> QED BY SettingsAlways, <1>1, PTL

(* Every variable has its type, a thread is at work for a busy model only, *)
(* and each request has a thread that waits for it.                        *)
THEOREM SettingsTyped == SettingsSpec => []SettingsTypeOK
<1>1. SettingsInv => SettingsTypeOK
  BY DEF SettingsInv, StateOK, ThreadsOK, ThreadOK, SettingsTypeOK
<1> QED BY SettingsAlways, <1>1, PTL

=============================================================================
