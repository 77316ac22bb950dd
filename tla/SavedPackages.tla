--------------------------- MODULE SavedPackages ---------------------------
(***************************************************************************)
(* Task contexts (context.py) and CSV evidence packages (csv_evidence.py   *)
(* and csv_evidence_verify.py): a preview is shown, saved under an event   *)
(* id while it still holds, and read, listed and verified long after its   *)
(* sources, the knowledge and the parser have moved on.                    *)
(*                                                                         *)
(* Every operation runs under Vault.lock, hence between the operations of  *)
(* Knowledge, and a package appears by one rename: a crash before it       *)
(* leaves only a directory in .staging.  A refused save, and the retry of  *)
(* a done one, change nothing and are not steps.                           *)
(***************************************************************************)
EXTENDS Knowledge, CsvView

CONSTANTS
  CsvTexts,       \* the contents stored under a .csv name
  Queries,        \* search terms: single lines or characters
  PackageEvents,  \* event ids of saves
  ScopeLimit,     \* LIMITS.sourceCount
  PickLimit,      \* how much fits: returnedRecords and maxBytes
  Releases        \* releases of the service, each with its parser

ASSUME ReleasesAssumption == Releases \in Nat \ {0} /\ DOMAIN CellLimit = 1..Releases
ASSUME CsvAssumption == CsvTexts \subseteq Unsupported
ASSUME PicksAssumption == PickLimit \in Nat

VARIABLES
  release,   \* PARSER_VERSION of the installed program
  previews,  \* the previews that browsers show
  contexts,  \* knowledge/contexts: event -> package
  evidence   \* knowledge/source-evidence: event -> package

pvars == <<release, previews, contexts, evidence>>

Occurs(q, s) == \E i \in DOMAIN s : s[i] = q

(* A fixed choice of what fits; the code goes by score or by position.     *)
Pick(S) ==
  IF Cardinality(S) <= PickLimit THEN S
  ELSE CHOOSE T \in SUBSET S : Cardinality(T) = PickLimit

-----------------------------------------------------------------------------
(* Context.preview.                                                        *)
KnowledgeStatus ==
  IF versions = <<>> THEN "empty" ELSE IF IsCurrent THEN "current" ELSE "pending-review"

ResultsAt(n, status, q) ==
  IF status # "current" THEN {}
  ELSE Pick({a \in versions[n].entries : Occurs(q, a.quote)})

ContextPreview(q) ==
  [query |-> q, sig |-> Sig, version |-> Len(versions), status |-> KnowledgeStatus,
   results |-> ResultsAt(Len(versions), KnowledgeStatus, q)]

ContextStaleBySources(s) == s.sig # Sig \/ s.status # KnowledgeStatus
ContextStale(s) ==
  s.sig # Sig \/ s.version # Len(versions) \/ s.status # KnowledgeStatus

-----------------------------------------------------------------------------
(* CsvEvidence.search and preview.  A digest is the text it digests.       *)
(* ScopeByContent, a plausible slip, tells sources by content alone.       *)
Source(r) == [rid |-> r.rid, version |-> r.version, text |-> r.text]
ScopeByContent ==
  {[Source(r) EXCEPT !.version = 1] : r \in {l \in Latest(ledger) : l.text \in CsvTexts}}
Scope == {Source(r) : r \in {l \in Latest(ledger) : l.text \in CsvTexts}}

(* A plausible slip: the header's lines are not counted.                   *)
RowFromHeader(s, k, row) ==
  [rid |-> s.rid, version |-> s.version, number |-> k,
   lineStart |-> row.lineStart, lineEnd |-> row.lineEnd, cells |-> row.cells,
   rawExcerpt |-> Excerpt(s.text, row.lineStart - 1, row.lineEnd - 1)]

Row(s, k, row) ==
  [rid |-> s.rid, version |-> s.version, number |-> k,
   lineStart |-> row.lineStart, lineEnd |-> row.lineEnd, cells |-> row.cells,
   rawExcerpt |-> Excerpt(s.text, row.lineStart, row.lineEnd)]

Matching(s, q) ==
  LET t == ParseCsv(s.text, release).records
  IN {Row(s, k, t[k]) : k \in {n \in 2..Len(t) : \E c \in DOMAIN t[n].cells :
                                                   Occurs(q, t[n].cells[c])}}

Unparsed(scope) == {s \in scope : ~ParseCsv(s.text, release).parsed}

EvidencePreview(q) ==
  LET blocked == Cardinality(Scope) > ScopeLimit IN
  [query |-> q, release |-> release, scope |-> Scope,
   status |-> IF blocked THEN "blocked"
              ELSE IF Unparsed(Scope) # {} THEN "partial" ELSE "complete",
   rows |-> IF blocked THEN {} ELSE Pick(UNION {Matching(s, q) : s \in Scope})]

EvidenceStaleByScope(s) == s.scope # Scope
EvidenceStale(s) == s.scope # Scope \/ s.release # release

-----------------------------------------------------------------------------
(* _scan and _package: the digest of a package was taken when it was saved.*)
NoPackage == [snapshot |-> None, sealed |-> None]
Saved(store) == {e \in PackageEvents : store[e] # NoPackage}
Intact(p) == p.snapshot = p.sealed
AllIntact(store) == \A e \in Saved(store) : Intact(store[e])
Package(s) == [snapshot |-> s, sealed |-> s]

(* verify() of a package; "fault" is EVIDENCE_INTEGRITY.                   *)
RowHolds(row) ==
  \E s \in Scope :
    LET t == ParseCsv(s.text, release) IN
    /\ s.rid = row.rid /\ s.version = row.version
    /\ t.parsed /\ row.number \in DOMAIN t.records
    /\ row = Row(s, row.number, t.records[row.number])

Verify(p) ==
  CASE ~Intact(p) -> "fault"
    [] Intact(p) /\ Cardinality(Scope) > ScopeLimit -> "blocked"
    [] OTHER -> IF EvidenceStale(p.snapshot) THEN "stale"
                ELSE IF \A row \in p.snapshot.rows : RowHolds(row)
                THEN "usable" ELSE "fault"

-----------------------------------------------------------------------------
PackageInit ==
  /\ Init
  /\ release = 1
  /\ previews = [context |-> {}, evidence |-> {}]
  /\ contexts = [e \in PackageEvents |-> NoPackage]
  /\ evidence = [e \in PackageEvents |-> NoPackage]

PreviewContext(q) ==
  /\ Free
  /\ previews' = [previews EXCEPT !.context = @ \cup {ContextPreview(q)}]
  /\ UNCHANGED <<vars, release, contexts, evidence>>

PreviewEvidence(q) ==
  /\ Free
  /\ previews' = [previews EXCEPT !.evidence = @ \cup {EvidencePreview(q)}]
  /\ UNCHANGED <<vars, release, contexts, evidence>>

(* The preview is made again, and its digest compared with the one the     *)
(* browser sends (CONTEXT_STALE, EVIDENCE_STALE).                          *)
SaveContextAfresh(e, s) ==
  /\ Free /\ AllIntact(contexts) /\ e \notin Saved(contexts)
  /\ contexts' = [contexts EXCEPT ![e] = Package(ContextPreview(s.query))]
  /\ UNCHANGED <<vars, release, previews, evidence>>

SaveContext(e, s) ==
  /\ Free /\ AllIntact(contexts) /\ e \notin Saved(contexts)
  /\ s = ContextPreview(s.query)
  /\ contexts' = [contexts EXCEPT ![e] = Package(s)]
  /\ UNCHANGED <<vars, release, previews, evidence>>

SaveEvidence(e, s) ==
  /\ Free /\ AllIntact(evidence) /\ e \notin Saved(evidence)
  /\ s.status # "blocked"
  /\ s = EvidencePreview(s.query)
  /\ evidence' = [evidence EXCEPT ![e] = Package(s)]
  /\ UNCHANGED <<vars, release, previews, contexts>>

(* Somebody edits the files of a package.                                  *)
DamageContext(e) ==
  /\ e \in Saved(contexts)
  /\ contexts' = [contexts EXCEPT ![e].snapshot.results = {}]
  /\ UNCHANGED <<vars, release, previews, evidence>>

DamageEvidence(e) ==
  /\ e \in Saved(evidence)
  /\ evidence' = [evidence EXCEPT ![e].snapshot.rows = {}]
  /\ UNCHANGED <<vars, release, previews, contexts>>

(* Another release is installed while the service is down.                 *)
Upgrade ==
  /\ phase = "down" /\ release < Releases
  /\ release' = release + 1
  /\ UNCHANGED <<vars, previews, contexts, evidence>>

PackageStep ==
  \/ \E q \in Queries : PreviewContext(q) \/ PreviewEvidence(q)
  \/ \E e \in PackageEvents :
       \/ \E s \in previews.context : SaveContext(e, s)
       \/ \E s \in previews.evidence : SaveEvidence(e, s)
       \/ DamageContext(e)
       \/ DamageEvidence(e)
  \/ Upgrade

PackageNext == PackageStep \/ (Next /\ UNCHANGED pvars)

PackageSpec == PackageInit /\ [][PackageNext]_<<vars, pvars>>

-----------------------------------------------------------------------------
(* The type invariant; it also says that what is saved was shown before,   *)
(* word for word, to whoever asked for it to be saved.                     *)
PackagesTypeOK ==
  /\ release \in 1..Releases
  /\ \A e \in Saved(contexts) : contexts[e].sealed \in previews.context
  /\ \A e \in Saved(evidence) : evidence[e].sealed \in previews.evidence

(* A context that list and save report as not stale is what a preview of   *)
(* the same query would show now, whatever was imported, published,        *)
(* restored or interrupted since it was saved.                             *)
FreshContextIsCurrent ==
  \A e \in Saved(contexts) :
    LET s == contexts[e].snapshot IN
    Intact(contexts[e]) /\ ~ContextStale(s) => ContextPreview(s.query) = s

(* Evidence that verify() calls usable is what a search would find now     *)
(* with the installed parser, and exactly the packages that somebody        *)
(* edited are called damaged, however old they are.                        *)
VerifiedEvidenceIsCurrent ==
  \A e \in Saved(evidence) :
    LET s == evidence[e].snapshot IN
    /\ Verify(evidence[e]) = "usable" => EvidencePreview(s.query) = s
    /\ Verify(evidence[e]) = "fault" <=> ~Intact(evidence[e])

(* What a saved package quotes are words of a committed original at the    *)
(* place it names, also when the package is long stale.                    *)
QuotesAreOriginal ==
  /\ \A e \in Saved(contexts) : \A a \in contexts[e].snapshot.results :
       \E r \in ledger : a \in AnchorsOf(r)
  /\ \A e \in Saved(evidence) : \A row \in evidence[e].snapshot.rows :
       \E r \in ledger : /\ r.rid = row.rid /\ r.version = row.version
                         /\ row.rawExcerpt = Excerpt(r.text, row.lineStart, row.lineEnd)

(* Evidence of a source that has a newer version is never usable again,    *)
(* not even when the older text, or the same one, is imported again; it may *)
(* come back only when all its sources are the latest ones.                *)
SupersededEvidenceIsStale ==
  \A e \in Saved(evidence) : \A s \in evidence[e].sealed.scope :
    CurrentVersion(s.rid) # s.version => Verify(evidence[e]) # "usable"

=============================================================================
