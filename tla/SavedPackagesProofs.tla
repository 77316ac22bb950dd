------------------------ MODULE SavedPackagesProofs ------------------------
(***************************************************************************)
(* Theorems about SavedPackages, for every set of sources, texts, jobs,    *)
(* queries and saves, and any number of releases.                          *)
(***************************************************************************)
EXTENDS CorrectionProofs, MCPackages, CsvProofs

allvars == <<vars, pvars>>

-----------------------------------------------------------------------------
(* Packages never write the ledger or the knowledge: what is proved of     *)
(* these holds with packages, too.                                         *)
LEMMA PackagesLeaveVault == ASSUME [PackageNext]_allvars PROVE [Next]_vars
<1>1. CASE PackageStep
  BY <1>1 DEF PackageStep, PreviewContext, PreviewEvidence, SaveContext, SaveEvidence,
     DamageContext, DamageEvidence, Upgrade
<1>2. CASE UNCHANGED allvars
  BY <1>2 DEF allvars
<1> QED BY <1>1, <1>2 DEF PackageNext

LEMMA VaultInvariants == PackageSpec => [](TypeOK /\ LedgerInv)
<1>1. PackageInit => TypeOK /\ LedgerInv
  BY InitType, InitLedger DEF PackageInit
<1>2. TypeOK /\ LedgerInv /\ [PackageNext]_allvars => (TypeOK /\ LedgerInv)'
  BY PackagesLeaveVault, NextType, NextLedger
<1> QED BY <1>1, <1>2, PTL DEF PackageSpec, allvars

(* Versions are only ever appended.                                        *)
LEMMA VersionsGrow ==
  ASSUME TypeOK, [Next]_vars
  PROVE  /\ Len(versions) \in Nat /\ Len(versions') \in Nat /\ Len(versions) <= Len(versions')
         /\ \A n \in 1..Len(versions) : versions'[n] = versions[n]
<1>1. versions \in Seq(VersionRecords) /\ Len(versions) \in Nat
  BY DEF TypeOK, StoreTypeOK
<1>2. CASE CommitVersion
  BY <1>1, <1>2 DEF CommitVersion
<1>3. ASSUME UNCHANGED versions
      PROVE  /\ Len(versions') \in Nat /\ Len(versions) <= Len(versions')
             /\ \A n \in 1..Len(versions) : versions'[n] = versions[n]
  BY <1>1, <1>3
<1>4. ASSUME NEW a, Refuse(a) PROVE UNCHANGED versions
  BY <1>4 DEF Refuse, durable
<1>5. ASSUME NEW s, NEW o, Begin(s, o) PROVE UNCHANGED versions
  BY <1>5 DEF Begin, durable
<1>6. ASSUME NEW rec, SubmitRecord(rec) PROVE UNCHANGED versions
  BY <1>4, <1>5, <1>6 DEF SubmitRecord, Reimport
<1>7. CASE Fault \/ UNCHANGED vars
  BY <1>5, <1>7 DEF Fault, Fail, Crash, Restart, Serve, Recover, durable, vars
<1>8. CASE Operation /\ ~CommitVersion
  <2>1. ASSUME NEW rid, NEW e, NEW x, NEW t, Submit(rid, e, x, t) PROVE UNCHANGED versions
    BY <1>6, <2>1 DEF Submit
  <2>2. ASSUME NEW e, NEW n, NEW a, NEW t, Correct(e, n, a, t) PROVE UNCHANGED versions
    BY <1>4, <1>6, <2>2 DEF Correct
  <2>3. ASSUME NEW j, NEW snap, NEW entries, Publish(j, snap, entries) PROVE UNCHANGED versions
    BY <1>4, <1>5, <2>3 DEF Publish, Commit
  <2>4. ASSUME NEW e, NEW n, NEW x, Restore(e, n, x) PROVE UNCHANGED versions
    BY <1>4, <1>5, <2>4 DEF Restore, Commit
  <2>5. CASE \/ Reindex \/ WithdrawReview \/ WithdrawEntry \/ CommitRecord \/ Index
             \/ Ensure \/ ActivateReview \/ ActivateEntry
    BY <1>5, <2>5 DEF Reindex, WithdrawReview, WithdrawEntry, CommitRecord, Index, Ensure,
       ActivateReview, ActivateEntry
  <2> QED BY <1>8, <2>1, <2>2, <2>3, <2>4, <2>5 DEF Operation
<1> QED BY <1>1, <1>2, <1>3, <1>7, <1>8 DEF Next

-----------------------------------------------------------------------------
(* A snapshot's results are what its version and its query determine; that *)
(* version is never rewritten, so they remain so when the snapshot is      *)
(* stale, and when the sources come back to what it was made from.         *)
ContextSound(s) ==
  /\ s = [query |-> s.query, sig |-> s.sig, version |-> s.version, status |-> s.status,
          results |-> s.results]
  /\ s.results = ResultsAt(s.version, s.status, s.query)
  /\ s.status = "current" => s.version \in 1..Len(versions)

IsStore(store) ==
  store = [e \in PackageEvents |-> [snapshot |-> store[e].snapshot, sealed |-> store[e].sealed]]

ContextInv ==
  /\ IsStore(contexts)
  /\ \A e \in Saved(contexts) : ContextSound(contexts[e].sealed)

LEMMA InitContext == PackageInit => ContextInv
  BY DEF PackageInit, ContextInv, IsStore, NoPackage, Saved

(* An edit of a package leaves its digest.                                 *)
LEMMA EditedIs ==
  ASSUME NEW store, IsStore(store), NEW e \in Saved(store), NEW s,
         NEW new, new = [store EXCEPT ![e].snapshot = s]
  PROVE  /\ IsStore(new)
         /\ \A d \in Saved(new) : new[d].sealed = store[d].sealed
         /\ Saved(new) \subseteq Saved(store)
<1>1. \A d \in PackageEvents : new[d] = IF d = e THEN [snapshot |-> s, sealed |-> store[d].sealed]
                                        ELSE store[d]
  BY DEF IsStore, Saved
<1>2. IsStore(new)
  BY <1>1 DEF IsStore, Saved
<1> QED BY <1>1, <1>2 DEF Saved

LEMMA SoundStays ==
  ASSUME Len(versions) \in Nat, Len(versions') \in Nat, Len(versions) <= Len(versions'),
         \A n \in 1..Len(versions) : versions'[n] = versions[n],
         NEW s, ContextSound(s)
  PROVE  ContextSound(s)'
<1>1. CASE s.status = "current"
  <2>1. s.version \in 1..Len(versions') /\ versions'[s.version] = versions[s.version]
    BY <1>1 DEF ContextSound
  <2> QED BY <2>1 DEF ContextSound, ResultsAt
<1>2. CASE s.status # "current"
  BY <1>2 DEF ContextSound, ResultsAt
<1> QED BY <1>1, <1>2

LEMMA SealsKeep ==
  ASSUME IsStore(contexts'), Len(versions) \in Nat, Len(versions') \in Nat,
         Len(versions) <= Len(versions'),
         \A n \in 1..Len(versions) : versions'[n] = versions[n],
         \A e \in Saved(contexts') : ContextSound(contexts'[e].sealed)
  PROVE  ContextInv'
<1>1. ASSUME NEW e \in Saved(contexts') PROVE ContextSound(contexts[e].sealed)'
  <2>1. PICK s : s = contexts'[e].sealed
    OBVIOUS
  <2>2. ContextSound(s)'
    BY <2>1, SoundStays
  <2> QED BY <2>1, <2>2 DEF ContextSound
<1> QED BY <1>1 DEF ContextInv, IsStore, Saved

LEMMA PreviewSound ==
  ASSUME TypeOK, NEW s, s = ContextPreview(s.query)
  PROVE  ContextSound(s)
<1>1. Len(versions) \in Nat /\ versions \in Seq(VersionRecords)
  BY DEF TypeOK, StoreTypeOK
<1>2. KnowledgeStatus = "current" => Len(versions) \in 1..Len(versions)
  BY <1>1 DEF KnowledgeStatus
<1> QED BY <1>2 DEF ContextPreview, ContextSound

LEMMA NextContext == ASSUME TypeOK, ContextInv, [PackageNext]_allvars PROVE ContextInv'
<1>1. /\ Len(versions) \in Nat /\ Len(versions') \in Nat /\ Len(versions) <= Len(versions')
      /\ \A n \in 1..Len(versions) : versions'[n] = versions[n]
  BY PackagesLeaveVault, VersionsGrow
<1>2. CASE UNCHANGED contexts
  BY <1>1, <1>2, SealsKeep DEF ContextInv
<1>3. ASSUME NEW e \in PackageEvents, NEW s, SaveContext(e, s) PROVE ContextInv'
  <2>1. ContextSound(s) /\ UNCHANGED versions
    BY <1>3, PreviewSound DEF SaveContext, vars
  <2>0. IsStore(contexts) /\ contexts' = [contexts EXCEPT ![e] = [snapshot |-> s, sealed |-> s]]
    BY <1>3 DEF SaveContext, Package, ContextInv
  <2>2. /\ IsStore(contexts')
        /\ contexts'[e].sealed = s
        /\ \A d \in Saved(contexts') \ {e} : contexts'[d].sealed = contexts[d].sealed
        /\ Saved(contexts') \subseteq Saved(contexts) \cup {e}
    BY <2>0 DEF IsStore, Saved, NoPackage
  <2>3. \A d \in Saved(contexts') : ContextSound(contexts'[d].sealed)
    BY <2>1, <2>2 DEF ContextInv
  <2> QED BY <1>1, <2>2, <2>3, SealsKeep
<1>4. ASSUME NEW e, DamageContext(e) PROVE ContextInv'
  <2>1. contexts' = [contexts EXCEPT ![e].snapshot = [contexts[e].snapshot EXCEPT !.results = {}]]
    BY <1>4 DEF DamageContext
  <2>2. /\ IsStore(contexts')
        /\ \A d \in Saved(contexts') : contexts'[d].sealed = contexts[d].sealed
        /\ Saved(contexts') \subseteq Saved(contexts)
    BY <1>4, <2>1, EditedIs DEF DamageContext, ContextInv
  <2>3. \A d \in Saved(contexts') : ContextSound(contexts'[d].sealed)
    BY <2>2 DEF ContextInv
  <2> QED BY <1>1, <2>2, <2>3, SealsKeep
<1> QED BY <1>2, <1>3, <1>4 DEF PackageNext, PackageStep, PreviewContext, PreviewEvidence,
           SaveEvidence, DamageEvidence, Upgrade, pvars, allvars

(* A context that is reported as not stale is what a preview would show    *)
(* now: Context._stale_reasons compares enough.                            *)
THEOREM FreshContextsAreCurrent == PackageSpec => []FreshContextIsCurrent
<1>1. TypeOK /\ ContextInv /\ [PackageNext]_allvars => ContextInv'
  BY NextContext
<1>2. ContextInv => FreshContextIsCurrent
  <2> SUFFICES ASSUME ContextInv, NEW e \in Saved(contexts),
                      Intact(contexts[e]), ~ContextStale(contexts[e].snapshot)
               PROVE  ContextPreview(contexts[e].snapshot.query) = contexts[e].snapshot
    BY DEF FreshContextIsCurrent
  <2>1. PICK s : s = contexts[e].snapshot
    OBVIOUS
  <2>2. ContextSound(s) /\ ~ContextStale(s)
    BY <2>1 DEF ContextInv, Intact
  <2>3. ContextPreview(s.query) = s
    BY <2>2 DEF ContextSound, ContextStale, ContextPreview
  <2> QED BY <2>1, <2>3
<1> QED BY InitContext, <1>1, <1>2, VaultInvariants, PTL DEF PackageSpec, allvars

-----------------------------------------------------------------------------
(* The version in a scope is the greatest one of its source.               *)
LEMMA ScopeIsLatest ==
  ASSUME TypeOK, LedgerInv, NEW s \in Scope
  PROVE  CurrentVersion(s.rid) = s.version
<1>1. PICK r \in Latest(ledger) : s = Source(r)
  BY DEF Scope
<1>2. r \in ledger /\ r.rid \in Rids /\ s.rid = r.rid /\ s.version = r.version
  BY <1>1 DEF Latest, Source, TypeOK, StoreTypeOK, Records
<1>3. PICK k \in Nat : Versions(r.rid) = 1..k
  BY <1>2 DEF LedgerInv
<1>4. r.version \in 1..k /\ k \in 1..k
  BY <1>2, <1>3 DEF Versions
<1>5. PICK t \in ledger : t.rid = r.rid /\ t.version = k
  BY <1>3, <1>4 DEF Versions
<1>6. k <= r.version
  BY <1>5 DEF Latest
<1> QED BY <1>2, <1>3, <1>4, <1>6, CurrentVersionIs

(* Evidence of a superseded version is never called usable: CsvEvidence    *)
(* compares the whole scope, versions included.                            *)
THEOREM SupersededEvidenceStaysStale == PackageSpec => []SupersededEvidenceIsStale
<1>1. TypeOK /\ LedgerInv => SupersededEvidenceIsStale
  <2> SUFFICES ASSUME TypeOK, LedgerInv, NEW e \in Saved(evidence),
                      NEW s \in evidence[e].sealed.scope, Verify(evidence[e]) = "usable"
               PROVE  CurrentVersion(s.rid) = s.version
    BY DEF SupersededEvidenceIsStale
  <2>1. Intact(evidence[e]) /\ ~EvidenceStale(evidence[e].snapshot)
    BY DEF Verify
  <2>2. s \in Scope
    BY <2>1 DEF Intact, EvidenceStale
  <2> QED BY <2>2, ScopeIsLatest
<1> QED BY <1>1, VaultInvariants, PTL

-----------------------------------------------------------------------------
(* What is saved was shown before: previews only accumulate, and an edit   *)
(* of a package leaves the digest under which it was saved.                *)
ShownInv ==
  /\ PackagesTypeOK
  /\ IsStore(contexts) /\ IsStore(evidence)
  /\ previews = [context |-> previews.context, evidence |-> previews.evidence]

LEMMA NextShown == ASSUME ShownInv, [PackageNext]_allvars PROVE ShownInv'
<1>1. CASE UNCHANGED pvars
  BY <1>1 DEF pvars, ShownInv, PackagesTypeOK, IsStore, Saved
<1>2. ASSUME NEW q, PreviewContext(q) \/ PreviewEvidence(q) PROVE ShownInv'
  <2>1. /\ previews' = [context |-> previews'.context, evidence |-> previews'.evidence]
        /\ previews.context \subseteq previews'.context
        /\ previews.evidence \subseteq previews'.evidence
        /\ UNCHANGED <<release, contexts, evidence>>
    BY <1>2 DEF PreviewContext, PreviewEvidence, ShownInv
  <2> QED BY <2>1 DEF ShownInv, PackagesTypeOK, IsStore, Saved
<1>3. ASSUME NEW e \in PackageEvents, NEW s \in previews.context, SaveContext(e, s) PROVE ShownInv'
  <2>0. IsStore(contexts) /\ contexts' = [contexts EXCEPT ![e] = [snapshot |-> s, sealed |-> s]]
    BY <1>3 DEF SaveContext, Package, ShownInv
  <2>1. /\ IsStore(contexts')
        /\ contexts'[e].sealed = s
        /\ \A d \in Saved(contexts') \ {e} : contexts'[d].sealed = contexts[d].sealed
        /\ Saved(contexts') \subseteq Saved(contexts) \cup {e}
    BY <2>0 DEF IsStore, Saved, NoPackage
  <2> QED BY <1>3, <2>1 DEF SaveContext, ShownInv, PackagesTypeOK, IsStore, Saved
<1>4. ASSUME NEW e \in PackageEvents, NEW s \in previews.evidence, SaveEvidence(e, s) PROVE ShownInv'
  <2>0. IsStore(evidence) /\ evidence' = [evidence EXCEPT ![e] = [snapshot |-> s, sealed |-> s]]
    BY <1>4 DEF SaveEvidence, Package, ShownInv
  <2>1. /\ IsStore(evidence')
        /\ evidence'[e].sealed = s
        /\ \A d \in Saved(evidence') \ {e} : evidence'[d].sealed = evidence[d].sealed
        /\ Saved(evidence') \subseteq Saved(evidence) \cup {e}
    BY <2>0 DEF IsStore, Saved, NoPackage
  <2> QED BY <1>4, <2>1 DEF SaveEvidence, ShownInv, PackagesTypeOK, IsStore, Saved
<1>5. ASSUME NEW e, DamageContext(e) PROVE ShownInv'
  <2>1. contexts' = [contexts EXCEPT ![e].snapshot = [contexts[e].snapshot EXCEPT !.results = {}]]
    BY <1>5 DEF DamageContext
  <2>2. /\ IsStore(contexts')
        /\ \A d \in Saved(contexts') : contexts'[d].sealed = contexts[d].sealed
        /\ Saved(contexts') \subseteq Saved(contexts)
    BY <1>5, <2>1, EditedIs DEF DamageContext, ShownInv
  <2> QED BY <1>5, <2>2 DEF DamageContext, ShownInv, PackagesTypeOK, IsStore, Saved
<1>6. ASSUME NEW e, DamageEvidence(e) PROVE ShownInv'
  <2>1. evidence' = [evidence EXCEPT ![e].snapshot = [evidence[e].snapshot EXCEPT !.rows = {}]]
    BY <1>6 DEF DamageEvidence
  <2>2. /\ IsStore(evidence')
        /\ \A d \in Saved(evidence') : evidence'[d].sealed = evidence[d].sealed
        /\ Saved(evidence') \subseteq Saved(evidence)
    BY <1>6, <2>1, EditedIs DEF DamageEvidence, ShownInv
  <2> QED BY <1>6, <2>2 DEF DamageEvidence, ShownInv, PackagesTypeOK, IsStore, Saved
<1>7. CASE Upgrade
  <2>1. release' \in 1..Releases
    BY <1>7, ReleasesAssumption DEF Upgrade, ShownInv, PackagesTypeOK
  <2> QED BY <1>7, <2>1 DEF Upgrade, ShownInv, PackagesTypeOK, IsStore, Saved
<1> QED BY <1>1, <1>2, <1>3, <1>4, <1>5, <1>6, <1>7 DEF PackageNext, PackageStep, pvars, allvars

(* Nothing is saved that was not shown, word for word: the digest that     *)
(* save compares is the digest of what it writes.                          *)
THEOREM SavedWasShown == PackageSpec => []PackagesTypeOK
<1>1. PackageInit => ShownInv
  BY ReleasesAssumption DEF PackageInit, ShownInv, PackagesTypeOK, IsStore, Saved, NoPackage
<1>2. ShownInv /\ [PackageNext]_allvars => ShownInv'
  BY NextShown
<1>3. ShownInv => PackagesTypeOK
  BY DEF ShownInv
<1> QED BY <1>1, <1>2, <1>3, PTL DEF PackageSpec, allvars

-----------------------------------------------------------------------------
(* What fits is part of what there is, finite or not.                      *)
LEMMA SubsetOfSize ==
  ASSUME NEW S, NEW n \in Nat, IsFiniteSet(S) => n <= Cardinality(S)
  PROVE  \E X \in SUBSET S : IsFiniteSet(X) /\ Cardinality(X) = n
<1> DEFINE Has(k) == \E X \in SUBSET S : IsFiniteSet(X) /\ Cardinality(X) = k
           T == {k \in 0..n : ~Has(k)}
<1>1. T = {}
  <2> SUFFICES ASSUME T # {} PROVE FALSE
    OBVIOUS
  <2>1. T \in SUBSET Nat
    OBVIOUS
  <2>2. PICK m \in T : \A k \in T : m <= k
    <3> HIDE DEF T
    <3> QED BY <2>1, LeastOf
  <2>3. Has(0)
    BY FS_EmptySet
  <2>4. m - 1 \in 0..n /\ ~(m <= m - 1) /\ m \in Nat /\ m <= n /\ ~Has(m)
    <3> HIDE DEF Has
    <3> QED BY <2>2, <2>3
  <2>5. PICK X \in SUBSET S : IsFiniteSet(X) /\ Cardinality(X) = m - 1
    <3>1. Has(m - 1)
      <4> HIDE DEF Has
      <4> QED BY <2>2, <2>4
    <3> QED BY <3>1
  <2>6. PICK x \in S : x \notin X
    <3>1. S # X
      BY <2>4, <2>5
    <3> QED BY <3>1
  <2>7. X \cup {x} \in SUBSET S /\ IsFiniteSet(X \cup {x}) /\ Cardinality(X \cup {x}) = m
    BY <2>4, <2>5, <2>6, FS_AddElement
  <2> QED BY <2>4, <2>7
<1>2. n \in 0..n
  OBVIOUS
<1>3. Has(n)
  <2> HIDE DEF Has
  <2> QED BY <1>1, <1>2
<1> QED BY <1>3

LEMMA PickIsPart == ASSUME NEW S PROVE Pick(S) \subseteq S
<1>1. CASE Cardinality(S) <= PickLimit
  BY <1>1 DEF Pick
<1>2. CASE ~(Cardinality(S) <= PickLimit)
  <2>1. IsFiniteSet(S) => Cardinality(S) \in Nat
    BY FS_CardinalityType
  <2>2. \E X \in SUBSET S : Cardinality(X) = PickLimit
    BY <1>2, <2>1, PicksAssumption, SubsetOfSize
  <2> QED BY <1>2, <2>2 DEF Pick
<1> QED BY <1>1, <1>2

-----------------------------------------------------------------------------
(* The originals, and with them their citations, are only added to.        *)
LEMMA LedgerGrows == ASSUME [PackageNext]_allvars PROVE ledger \subseteq ledger'
<1>1. CommitRecord \/ UNCHANGED ledger
  BY PackagesLeaveVault, OnlyImportsCommit
<1> QED BY <1>1 DEF CommitRecord

(* A snapshot of evidence is what its query, its sources and the parser of *)
(* its release determine, and its sources are originals for ever.          *)
MatchingAt(rel, s, q) ==
  LET t == ParseCsv(s.text, rel).records
  IN {Row(s, k, t[k]) : k \in {n \in 2..Len(t) : \E c \in DOMAIN t[n].cells :
                                                   Occurs(q, t[n].cells[c])}}

StatusAt(rel, scope) ==
  IF {s \in scope : ~ParseCsv(s.text, rel).parsed} # {} THEN "partial" ELSE "complete"

EvidenceSound(s) ==
  /\ s = [query |-> s.query, release |-> s.release, scope |-> s.scope, status |-> s.status,
          rows |-> s.rows]
  /\ s.release \in 1..Releases
  /\ s.status = StatusAt(s.release, s.scope)
  /\ s.rows = Pick(UNION {MatchingAt(s.release, x, s.query) : x \in s.scope})
  /\ \A x \in s.scope : \E r \in ledger : x = Source(r)

EvidenceInv ==
  /\ release \in 1..Releases
  /\ IsStore(evidence)
  /\ \A e \in Saved(evidence) :
       /\ EvidenceSound(evidence[e].sealed)
       /\ \/ evidence[e].snapshot = evidence[e].sealed
          \/ evidence[e].snapshot = [evidence[e].sealed EXCEPT !.rows = {}]

LEMMA EvidencePreviewSound ==
  ASSUME EvidenceInv, NEW s, s = EvidencePreview(s.query), s.status # "blocked"
  PROVE  EvidenceSound(s)
<1>1. s.status \in {"partial", "complete"} /\ ~(Cardinality(Scope) > ScopeLimit)
  <2>1. Cardinality(Scope) > ScopeLimit => s.status = "blocked"
    BY DEF EvidencePreview
  <2> QED BY <2>1 DEF EvidencePreview
<1>2. s = [query |-> s.query, release |-> release, scope |-> Scope,
           status |-> IF Unparsed(Scope) # {} THEN "partial" ELSE "complete",
           rows |-> Pick(UNION {Matching(x, s.query) : x \in Scope})]
  BY <1>1 DEF EvidencePreview
<1>3. \A x : Matching(x, s.query) = MatchingAt(release, x, s.query)
  BY DEF Matching, MatchingAt
<1>4. s.status = StatusAt(release, Scope)
  BY <1>2 DEF StatusAt, Unparsed
<1>5. \A x \in Scope : \E r \in ledger : x = Source(r)
  BY DEF Scope, Latest
<1>6. /\ s.release = release /\ s.scope = Scope
      /\ s.rows = Pick(UNION {Matching(x, s.query) : x \in Scope})
      /\ s = [query |-> s.query, release |-> s.release, scope |-> s.scope, status |-> s.status,
              rows |-> s.rows]
  BY <1>2
<1>7. {Matching(x, s.query) : x \in Scope} = {MatchingAt(release, x, s.query) : x \in Scope}
  BY <1>3
<1> QED BY <1>4, <1>5, <1>6, <1>7 DEF EvidenceSound, EvidenceInv

LEMMA InitEvidence == PackageInit => EvidenceInv
  BY ReleasesAssumption DEF PackageInit, EvidenceInv, IsStore, NoPackage, Saved

LEMMA EvidenceSoundStays ==
  ASSUME ledger \subseteq ledger', NEW s, EvidenceSound(s)
  PROVE  EvidenceSound(s)'
  BY DEF EvidenceSound

LEMMA NextEvidence == ASSUME EvidenceInv, [PackageNext]_allvars PROVE EvidenceInv'
<1>0. ledger \subseteq ledger'
  BY LedgerGrows
<1>1. CASE UNCHANGED evidence
  <2>1. release' \in 1..Releases
    <3>1. CASE Upgrade
      BY <3>1, ReleasesAssumption DEF Upgrade, EvidenceInv
    <3>2. CASE UNCHANGED release
      BY <3>2 DEF EvidenceInv
    <3> QED BY <3>1, <3>2 DEF PackageNext, PackageStep, PreviewContext, PreviewEvidence,
               SaveContext, SaveEvidence, DamageContext, DamageEvidence, pvars, allvars
  <2>2. ASSUME NEW e \in Saved(evidence) PROVE EvidenceSound(evidence[e].sealed)'
    <3>1. PICK s : s = evidence[e].sealed
      OBVIOUS
    <3>2. EvidenceSound(s)'
      BY <1>0, <2>2, <3>1, EvidenceSoundStays DEF EvidenceInv
    <3> QED BY <1>1, <3>1, <3>2 DEF EvidenceSound
  <2> QED BY <1>1, <2>1, <2>2 DEF EvidenceInv, IsStore, Saved
<1>2. ASSUME NEW e \in PackageEvents, NEW s, SaveEvidence(e, s) PROVE EvidenceInv'
  <2>1. EvidenceSound(s)
    BY <1>2, EvidencePreviewSound DEF SaveEvidence
  <2>0. IsStore(evidence) /\ evidence' = [evidence EXCEPT ![e] = [snapshot |-> s, sealed |-> s]]
    BY <1>2 DEF SaveEvidence, Package, EvidenceInv
  <2>2. /\ IsStore(evidence')
        /\ evidence'[e].sealed = s /\ evidence'[e].snapshot = s
        /\ \A d \in Saved(evidence') \ {e} : evidence'[d] = evidence[d]
        /\ Saved(evidence') \subseteq Saved(evidence) \cup {e}
    BY <2>0 DEF IsStore, Saved, NoPackage
  <2>3. ASSUME NEW d \in Saved(evidence') PROVE EvidenceSound(evidence[d].sealed)'
    <3>1. PICK x : x = evidence'[d].sealed
      OBVIOUS
    <3>2. EvidenceSound(x)
      BY <2>1, <2>2, <3>1 DEF EvidenceInv
    <3>3. EvidenceSound(x)'
      BY <1>0, <3>2, EvidenceSoundStays
    <3> QED BY <3>1, <3>3 DEF EvidenceSound
  <2>4. \A d \in Saved(evidence') :
          \/ evidence'[d].snapshot = evidence'[d].sealed
          \/ evidence'[d].snapshot = [evidence'[d].sealed EXCEPT !.rows = {}]
    BY <2>2 DEF EvidenceInv
  <2>5. release' \in 1..Releases
    BY <1>2 DEF SaveEvidence, EvidenceInv
  <2> QED BY <2>2, <2>3, <2>4, <2>5 DEF EvidenceInv, IsStore, Saved
<1>3. ASSUME NEW e, DamageEvidence(e) PROVE EvidenceInv'
  <2>0. IsStore(evidence) /\ e \in Saved(evidence) /\ e \in PackageEvents
    BY <1>3 DEF DamageEvidence, EvidenceInv, Saved
  <2>7. PICK old : old = evidence[e].sealed
    OBVIOUS
  <2>8. EvidenceSound(old)
    BY <2>0, <2>7 DEF EvidenceInv
  <2>9. evidence[e].snapshot = old \/ evidence[e].snapshot = [old EXCEPT !.rows = {}]
    BY <2>0, <2>7 DEF EvidenceInv
  <2>6. [evidence[e].snapshot EXCEPT !.rows = {}] = [old EXCEPT !.rows = {}]
    BY <2>8, <2>9 DEF EvidenceSound
  <2>10. PICK new : new = [old EXCEPT !.rows = {}]
    OBVIOUS
  <2>1. evidence' = [evidence EXCEPT ![e].snapshot = new]
    BY <1>3, <2>6, <2>10 DEF DamageEvidence
  <2>2. /\ IsStore(evidence')
        /\ \A d \in Saved(evidence') : evidence'[d].sealed = evidence[d].sealed
        /\ Saved(evidence') \subseteq Saved(evidence)
    <3>1. \A d \in PackageEvents :
            evidence'[d] = IF d = e THEN [snapshot |-> new, sealed |-> evidence[d].sealed]
                           ELSE evidence[d]
      BY <2>0, <2>1 DEF IsStore
    <3>2. IsStore(evidence')
      BY <2>0, <2>1, <3>1 DEF IsStore
    <3>3. ASSUME NEW d \in PackageEvents PROVE evidence'[d].sealed = evidence[d].sealed
      <4>1. CASE d = e
        <5>1. evidence'[d] = [snapshot |-> new, sealed |-> evidence[d].sealed]
          BY <3>1, <4>1
        <5> QED BY <5>1
      <4>2. CASE d # e
        BY <3>1, <4>2
      <4> QED BY <4>1, <4>2
    <3>4. Saved(evidence') \subseteq Saved(evidence)
      BY <2>0, <3>1 DEF Saved
    <3> QED BY <3>2, <3>3, <3>4 DEF Saved
  <2>3. ASSUME NEW d \in Saved(evidence') PROVE EvidenceSound(evidence[d].sealed)'
    <3>1. PICK x : x = evidence'[d].sealed
      OBVIOUS
    <3>2. EvidenceSound(x)
      BY <2>2, <3>1 DEF EvidenceInv
    <3>3. EvidenceSound(x)'
      BY <1>0, <3>2, EvidenceSoundStays
    <3> QED BY <3>1, <3>3 DEF EvidenceSound
  <2>4. ASSUME NEW d \in Saved(evidence')
        PROVE  \/ evidence'[d].snapshot = evidence'[d].sealed
               \/ evidence'[d].snapshot = [evidence'[d].sealed EXCEPT !.rows = {}]
    <3>1. CASE d = e
      <4>1. evidence'[e].snapshot = new /\ evidence'[e].sealed = old
        BY <2>0, <2>1, <2>7 DEF IsStore, Saved
      <4> QED BY <2>10, <3>1, <4>1
    <3>2. CASE d # e
      <4>1. evidence'[d] = evidence[d] /\ d \in Saved(evidence)
        BY <2>0, <2>1, <2>2, <3>2 DEF Saved, IsStore
      <4> QED BY <4>1 DEF EvidenceInv
    <3> QED BY <3>1, <3>2
  <2>5. release' \in 1..Releases
    BY <1>3 DEF DamageEvidence, EvidenceInv
  <2> QED BY <2>2, <2>3, <2>4, <2>5 DEF EvidenceInv, IsStore, Saved
<1> QED BY <1>1, <1>2, <1>3 DEF PackageNext, PackageStep, PreviewContext, PreviewEvidence,
           SaveContext, DamageContext, Upgrade, pvars, allvars

-----------------------------------------------------------------------------
(* Evidence that verify() calls usable is what a search finds now, and     *)
(* evidence is called damaged exactly if somebody edited it: verify()      *)
(* reads every row again from the originals, and no original is rewritten. *)
THEOREM VerifiedStaysCurrent == PackageSpec => []VerifiedEvidenceIsCurrent
<1>1. TypeOK /\ EvidenceInv => VerifiedEvidenceIsCurrent
  <2> SUFFICES ASSUME TypeOK, EvidenceInv, NEW e \in Saved(evidence)
               PROVE  LET s == evidence[e].snapshot IN
                      /\ Verify(evidence[e]) = "usable" => EvidencePreview(s.query) = s
                      /\ Verify(evidence[e]) = "fault" <=> ~Intact(evidence[e])
    BY DEF VerifiedEvidenceIsCurrent
  <2>1. PICK p, s : p = evidence[e] /\ s = p.snapshot
    OBVIOUS
  <2>2. ~Intact(p) => Verify(p) = "fault"
    BY DEF Verify
  <2>3. Intact(p) => EvidenceSound(s)
    BY <2>1 DEF EvidenceInv, Intact
  <2>4. ASSUME Intact(p), Verify(p) \in {"usable", "fault"}
        PROVE  /\ ~(Cardinality(Scope) > ScopeLimit) /\ s.scope = Scope /\ s.release = release
               /\ Verify(p) = IF \A row \in s.rows : RowHolds(row) THEN "usable" ELSE "fault"
    BY <2>1, <2>4 DEF Verify, EvidenceStale
  <2>5. ASSUME Intact(p), Verify(p) = "usable" PROVE EvidencePreview(s.query) = s
    <3>1. /\ EvidenceSound(s) /\ ~(Cardinality(Scope) > ScopeLimit)
          /\ s.scope = Scope /\ s.release = release
      BY <2>3, <2>4, <2>5
    <3>2. {Matching(x, s.query) : x \in Scope} = {MatchingAt(release, x, s.query) : x \in Scope}
      BY DEF Matching, MatchingAt
    <3>3. s.status = IF Unparsed(Scope) # {} THEN "partial" ELSE "complete"
      BY <3>1 DEF EvidenceSound, StatusAt, Unparsed
    <3>4. s.rows = Pick(UNION {Matching(x, s.query) : x \in Scope})
      BY <3>1, <3>2 DEF EvidenceSound
    <3>5. s = [query |-> s.query, release |-> s.release, scope |-> s.scope, status |-> s.status,
               rows |-> s.rows]
      BY <3>1 DEF EvidenceSound
    <3>6. EvidencePreview(s.query) =
            [query |-> s.query, release |-> release, scope |-> Scope,
             status |-> IF Unparsed(Scope) # {} THEN "partial" ELSE "complete",
             rows |-> Pick(UNION {Matching(x, s.query) : x \in Scope})]
      BY <3>1 DEF EvidencePreview
    <3> QED BY <3>1, <3>3, <3>4, <3>5, <3>6
  <2>6. ASSUME Intact(p), Verify(p) = "fault" PROVE FALSE
    <3>1. EvidenceSound(s) /\ s.scope = Scope /\ s.release = release
      BY <2>3, <2>4, <2>6
    <3>2. PICK row \in s.rows : ~RowHolds(row)
      BY <2>4, <2>6
    <3>3. PICK x \in Scope : row \in MatchingAt(release, x, s.query)
      <4>1. s.rows \subseteq UNION {MatchingAt(release, y, s.query) : y \in Scope}
        BY <3>1, PickIsPart DEF EvidenceSound
      <4> QED BY <3>2, <4>1
    <3>4. PICK t : t = ParseCsv(x.text, release)
      OBVIOUS
    <3>5. PICK k \in 2..Len(t.records) : row = Row(x, k, t.records[k])
      BY <3>3, <3>4 DEF MatchingAt
    <3>6. \E C : x.text \in Seq(C)
      <4>1. PICK r \in ledger : x = Source(r)
        BY DEF Scope, Latest
      <4>2. r.text \in Texts /\ x.text = r.text
        BY <4>1 DEF TypeOK, StoreTypeOK, Records, Source
      <4> QED BY <4>2, TextsAssumption
    <3>7. release \in DOMAIN CellLimit
      BY ReleasesAssumption DEF EvidenceInv
    <3>8. t.parsed \in BOOLEAN /\ (~t.parsed => t.records = <<>>) /\ \E D : t.records \in Tables(D)
      BY <3>4, <3>6, <3>7, ParsedIs
    <3>9. k \in DOMAIN t.records /\ t.records # <<>>
      BY <3>5, <3>8 DEF Tables
    <3>10. row.rid = x.rid /\ row.version = x.version /\ row.number = k
      BY <3>5 DEF Row
    <3> QED BY <3>2, <3>4, <3>5, <3>8, <3>9, <3>10 DEF RowHolds
  <2> QED BY <2>1, <2>2, <2>5, <2>6
<1>2. EvidenceInv /\ [PackageNext]_allvars => EvidenceInv'
  BY NextEvidence
<1> QED BY <1>1, <1>2, InitEvidence, VaultInvariants, PTL DEF PackageSpec, allvars

-----------------------------------------------------------------------------
(* An edit takes results away; it never adds any.                          *)
KeptInv ==
  \A e \in Saved(contexts) :
    \/ contexts[e].snapshot = contexts[e].sealed
    \/ contexts[e].snapshot = [contexts[e].sealed EXCEPT !.results = {}]

LEMMA NextKept == ASSUME ContextInv, KeptInv, [PackageNext]_allvars PROVE KeptInv'
<1>1. CASE UNCHANGED contexts
  BY <1>1 DEF KeptInv, Saved
<1>2. ASSUME NEW e \in PackageEvents, NEW s, SaveContext(e, s) PROVE KeptInv'
  <2>1. /\ contexts' = [contexts EXCEPT ![e] = [snapshot |-> s, sealed |-> s]]
        /\ contexts = [d \in PackageEvents |-> contexts[d]]
    BY <1>2 DEF SaveContext, Package, ContextInv, IsStore
  <2>2. /\ contexts'[e].snapshot = contexts'[e].sealed
        /\ \A d \in PackageEvents \ {e} : contexts'[d] = contexts[d]
    BY <2>1
  <2> QED BY <2>2 DEF KeptInv, Saved
<1>3. ASSUME NEW e, DamageContext(e) PROVE KeptInv'
  <2>1. IsStore(contexts) /\ e \in Saved(contexts) /\ e \in PackageEvents
    BY <1>3 DEF DamageContext, ContextInv, Saved
  <2>2. PICK old : old = contexts[e].sealed
    OBVIOUS
  <2>3. /\ ContextSound(old)
        /\ contexts[e].snapshot = old \/ contexts[e].snapshot = [old EXCEPT !.results = {}]
    BY <2>1, <2>2 DEF ContextInv, KeptInv
  <2>4. [contexts[e].snapshot EXCEPT !.results = {}] = [old EXCEPT !.results = {}]
    BY <2>3 DEF ContextSound
  <2>5. PICK new : new = [old EXCEPT !.results = {}]
    OBVIOUS
  <2>6. contexts' = [contexts EXCEPT ![e].snapshot = new]
    BY <1>3, <2>4, <2>5 DEF DamageContext
  <2>7. contexts'[e].snapshot = new /\ contexts'[e].sealed = old
    BY <2>1, <2>2, <2>6 DEF IsStore
  <2>8. \A d \in PackageEvents \ {e} : contexts'[d] = contexts[d]
    BY <2>1, <2>6 DEF IsStore
  <2> QED BY <2>5, <2>7, <2>8 DEF KeptInv, Saved
<1> QED BY <1>1, <1>2, <1>3 DEF PackageNext, PackageStep, PreviewContext, PreviewEvidence,
           SaveEvidence, DamageEvidence, Upgrade, pvars, allvars

(* What a saved package quotes are words of a committed original at the    *)
(* place it names, also when it is long stale: versions quote originals,   *)
(* rows are read from originals, and both are kept for ever.               *)
THEOREM QuotesStayOriginal == PackageSpec => []QuotesAreOriginal
<1>1. TypeOK /\ ContextInv /\ KeptInv /\ EvidenceInv => QuotesAreOriginal
  <2> SUFFICES ASSUME TypeOK, ContextInv, KeptInv, EvidenceInv PROVE QuotesAreOriginal
    OBVIOUS
  <2>1. ASSUME NEW e \in Saved(contexts), NEW a \in contexts[e].snapshot.results
        PROVE  \E r \in ledger : a \in AnchorsOf(r)
    <3>1. PICK s : s = contexts[e].sealed
      OBVIOUS
    <3>2. ContextSound(s)
      BY <3>1 DEF ContextInv
    <3>3. a \in s.results
      <4>1. [s EXCEPT !.results = {}].results = {}
        BY <3>2 DEF ContextSound
      <4> QED BY <2>1, <3>1, <4>1 DEF KeptInv
    <3>4. s.status = "current" /\ s.version \in 1..Len(versions)
      BY <3>2, <3>3 DEF ContextSound, ResultsAt
    <3>5. a \in versions[s.version].entries
      <4>1. s.results = Pick({b \in versions[s.version].entries : Occurs(s.query, b.quote)})
        BY <3>2, <3>4 DEF ContextSound, ResultsAt
      <4> QED BY <3>3, <4>1, PickIsPart
    <3>6. versions[s.version] \in VersionRecords
      BY <3>4 DEF TypeOK, StoreTypeOK
    <3> QED BY <3>5, <3>6 DEF VersionRecords, Cited
  <2>2. ASSUME NEW e \in Saved(evidence), NEW row \in evidence[e].snapshot.rows
        PROVE  \E r \in ledger : /\ r.rid = row.rid /\ r.version = row.version
                                 /\ row.rawExcerpt = Excerpt(r.text, row.lineStart, row.lineEnd)
    <3>1. PICK s : s = evidence[e].sealed
      OBVIOUS
    <3>2. EvidenceSound(s)
      BY <3>1 DEF EvidenceInv
    <3>3. row \in s.rows
      <4>1. [s EXCEPT !.rows = {}].rows = {}
        BY <3>2 DEF EvidenceSound
      <4> QED BY <2>2, <3>1, <4>1 DEF EvidenceInv
    <3>4. PICK x \in s.scope : row \in MatchingAt(s.release, x, s.query)
      <4>1. s.rows \subseteq UNION {MatchingAt(s.release, y, s.query) : y \in s.scope}
        BY <3>2, PickIsPart DEF EvidenceSound
      <4> QED BY <3>3, <4>1
    <3>5. PICK r \in ledger : x = Source(r)
      BY <3>2 DEF EvidenceSound
    <3>6. PICK k, record : row = Row(x, k, record)
      BY <3>4 DEF MatchingAt
    <3>7. /\ row.rid = x.rid /\ row.version = x.version
          /\ row.rawExcerpt = Excerpt(x.text, row.lineStart, row.lineEnd)
      BY <3>6 DEF Row
    <3> QED BY <3>5, <3>7 DEF Source
  <2> QED BY <2>1, <2>2 DEF QuotesAreOriginal
<1>2. PackageInit => KeptInv
  BY DEF PackageInit, KeptInv, NoPackage, Saved
<1>3. TypeOK /\ ContextInv /\ [PackageNext]_allvars => ContextInv'
  BY NextContext
<1>4. ContextInv /\ KeptInv /\ [PackageNext]_allvars => KeptInv'
  BY NextKept
<1>5. EvidenceInv /\ [PackageNext]_allvars => EvidenceInv'
  BY NextEvidence
<1> QED BY <1>1, <1>2, <1>3, <1>4, <1>5, InitContext, InitEvidence, VaultInvariants, PTL
        DEF PackageSpec, allvars

-----------------------------------------------------------------------------
(* The texts the two properties speak of are sequences.                    *)
LEMMA InputsTyped == ASSUME NEW t \in Inputs PROVE \E C : t \in Seq(C)
<1>1. ASSUME NEW n \in Nat, NEW C, t \in [1..n -> C] PROVE t \in Seq(C)
  BY <1>1
<1>2. t \in UNION {[1..n -> Alphabet] : n \in 0..5}
         \/ t \in UNION {[1..n -> {"a", LF}] : n \in 6..8}
  BY Zenon DEF Inputs
<1>3. CASE t \in UNION {[1..n -> Alphabet] : n \in 0..5}
  <2>1. PICK n \in 0..5 : t \in [1..n -> Alphabet]
    BY <1>3, Zenon
  <2>2. n \in Nat
    OBVIOUS
  <2> QED BY <1>1, <2>1, <2>2
<1>4. CASE t \in UNION {[1..n -> {"a", LF}] : n \in 6..8}
  <2>1. PICK n \in 6..8 : t \in [1..n -> {"a", LF}]
    BY <1>4, Zenon
  <2>2. n \in Nat
    OBVIOUS
  <2> QED BY <1>1, <2>1, <2>2
<1> QED BY <1>2, <1>3, <1>4

(* No line is lost or quoted twice, in whatever state the vault is.        *)
THEOREM ExcerptsAlwaysTile == PackageSpec => []ExcerptsTile
<1>1. ExcerptsTile
  <2>1. 1 \in DOMAIN CellLimit
    BY ReleasesAssumption
  <2>2. \A t \in Inputs : Tiled(t, 1)
    BY <2>1, InputsTyped, ExcerptsAreWhole
  <2> QED BY <2>2 DEF ExcerptsTile, Untiled
<1> QED BY <1>1, PTL

(* On every text the automaton accepts what the reference accepts, and     *)
(* reads the same cells at the same lines, under every release.            *)
THEOREM ParserAlwaysAgrees == PackageSpec => []ParserAgrees
<1>1. ParserAgrees
  <2>1. \A r \in 1..Releases : r \in DOMAIN CellLimit
    BY ReleasesAssumption
  <2>2. ASSUME NEW t \in Inputs, NEW r \in 1..Releases
        PROVE  ParseCsv(t, r) = Reference(t, r)
    <3>1. PICK C : t \in Seq(C)
      BY InputsTyped
    <3> QED BY <2>1, <3>1, ParserIsReference
  <2> QED BY <2>2 DEF ParserAgrees, Disagreements
<1> QED BY <1>1, PTL
=============================================================================
