----------------------------- MODULE CsvProofs -----------------------------
(***************************************************************************)
(* Theorems about CsvView, for every text, every release and all limits:   *)
(* what the automaton holds at every position, hence what a table and its  *)
(* excerpts are, and that the automaton parses as the reference does.      *)
(***************************************************************************)
EXTENDS CsvReference, FiniteSetTheorems, SequenceTheorems, TLAPS

(* A set of naturals that is not empty has a least element.                *)
LEMMA LeastOf ==
  ASSUME NEW T \in SUBSET Nat, T # {}
  PROVE  \E m \in T : \A n \in T : m <= n
<1> DEFINE below == {0..n : n \in T}
           less == StrictSubsetOrdering(Nat)
<1>1. below \subseteq FiniteSubsetsOf(Nat) /\ below # {}
  <2>1. ASSUME NEW n \in T PROVE 0..n \in FiniteSubsetsOf(Nat)
    <3>1. n \in Int /\ 0 \in Int /\ 0..n \in SUBSET Nat
      OBVIOUS
    <3>2. IsFiniteSet(0..n)
      BY <3>1, FS_Interval
    <3> QED BY <3>1, <3>2 DEF FiniteSubsetsOf
  <2> QED BY <2>1
<1>2. PICK s \in below : \A t \in below : ~(<<t, s>> \in less)
  <2> HIDE DEF below, less
  <2>1. IsWellFoundedOn(less, FiniteSubsetsOf(Nat))
    BY FS_StrictSubsetOrderingWellFounded DEF less
  <2> QED BY <1>1, <2>1, WFMin
<1>3. PICK m \in T : s = 0..m
  OBVIOUS
<1>4. ASSUME NEW n \in T, n < m PROVE FALSE
  <2>1. 0..n \in below /\ 0..n \subseteq 0..m /\ m \in 0..m /\ m \notin 0..n
    BY <1>4
  <2>2. <<0..n, 0..m>> \in less
    BY <2>1 DEF StrictSubsetOrdering
  <2> QED BY <1>2, <1>3, <2>1, <2>2
<1> QED BY <1>4

Reading(text, N, start) ==
  CHOOSE f : f = [i \in 0..N |-> IF i = 0 THEN start ELSE Read(f[i - 1], text, i)]

LEMMA ReadingIs ==
  ASSUME NEW text, NEW N \in Nat, NEW start
  PROVE  LET f == Reading(text, N, start)
         IN f = [i \in 0..N |-> IF i = 0 THEN start ELSE Read(f[i - 1], text, i)]
<1> DEFINE Has(n) == \E f : f = [i \in 0..n |-> IF i = 0 THEN start ELSE Read(f[i - 1], text, i)]
           T == {n \in Nat : ~Has(n)}
<1>1. T = {}
  <2> SUFFICES ASSUME T # {} PROVE FALSE
    OBVIOUS
  <2>1. PICK m \in T : \A n \in T : m <= n
    BY LeastOf
  <2>2. CASE m = 0
    <3>1. DEFINE g == [i \in 0..0 |-> start]
    <3>2. g = [i \in 0..0 |-> IF i = 0 THEN start ELSE Read(g[i - 1], text, i)]
      OBVIOUS
    <3> QED BY <2>1, <2>2, <3>2
  <2>3. CASE m # 0
    <3>0. m - 1 \in Nat /\ ~(m <= m - 1)
      BY <2>3
    <3>1. Has(m - 1)
      BY <2>1, <3>0
    <3>2. PICK f : f = [i \in 0..(m - 1) |-> IF i = 0 THEN start ELSE Read(f[i - 1], text, i)]
      BY <3>1
    <3> DEFINE g == [i \in 0..m |-> IF i = m THEN Read(f[m - 1], text, m) ELSE f[i]]
    <3>3. ASSUME NEW i \in 0..m PROVE g[i] = IF i = 0 THEN start ELSE Read(g[i - 1], text, i)
      <4>1. CASE i = m
        <5>1. m - 1 \in 0..m /\ m - 1 # m
          BY <2>3
        <5>2. g[m - 1] = f[m - 1]
          BY <5>1
        <5> QED BY <2>3, <4>1, <5>2
      <4>2. CASE i # m
        <5>1. i \in 0..(m - 1)
          BY <4>2
        <5>2. f[i] = IF i = 0 THEN start ELSE Read(f[i - 1], text, i)
          BY <3>2, <5>1
        <5>3. i # 0 => i - 1 \in 0..m /\ i - 1 # m
          BY <5>1
        <5>4. i # 0 => g[i - 1] = f[i - 1]
          BY <5>3
        <5> QED BY <4>2, <5>2, <5>4
      <4> QED BY <4>1, <4>2
    <3>4. g = [i \in 0..m |-> IF i = 0 THEN start ELSE Read(g[i - 1], text, i)]
      BY <3>3
    <3> QED BY <2>1, <3>4
  <2> QED BY <2>2, <2>3
<1>2. Has(N)
  BY <1>1
<1> QED BY <1>2 DEF Reading

Accepted(raw, end) ==
  LET last == IF end.active THEN EndRecord(end) ELSE end
  IN IF /\ Decoded(raw) # <<>> /\ Len(raw) <= SourceBytes
        /\ \A i \in DOMAIN raw : raw[i] # Undecodable
        /\ end.mode # "quoted" /\ last.ok
     THEN [parsed |-> TRUE, records |-> last.records]
     ELSE Failed

LEMMA ParseCsvIs ==
  ASSUME NEW raw, NEW release
  PROVE  LET text == Decoded(raw)
             end == Reading(text, Len(text), Start(CellLimit[release]))[Len(text)]
         IN ParseCsv(raw, release) = Accepted(raw, end)
  BY DEF ParseCsv, Reading, Accepted

-----------------------------------------------------------------------------
(* What the automaton holds while it reads a text whose characters are in  *)
(* C.                                                                      *)
Modes == {"start", "unquoted", "quoted", "closed"}
Tables(C) == Seq([lineStart : Nat, lineEnd : Nat, cells : Seq(Seq(C))])
Parsers(C) ==
  [mode : Modes, records : Tables(C), cells : Seq(Seq(C)), field : Seq(C),
   line : Nat, first : Nat, active : BOOLEAN, ok : BOOLEAN, limit : Nat]

LEMMA StartTyped == ASSUME NEW C, NEW limit \in Nat PROVE Start(limit) \in Parsers(C)
  BY DEF Start, Parsers, Modes, Tables

LEMMA PutTyped ==
  ASSUME NEW C, NEW p \in Parsers(C), NEW s \in Seq(C), NEW mode \in Modes
  PROVE  Put(p, s, mode) \in Parsers(C)
<1>1. p.field \o s \in Seq(C) /\ Len(p.field) \in Nat /\ Len(s) \in Nat
  BY DEF Parsers
<1>2. (p.ok /\ Len(p.field) + Len(s) <= p.limit) \in BOOLEAN
  BY <1>1 DEF Parsers
<1> QED BY <1>1, <1>2 DEF Put, Parsers

LEMMA EndCellTyped ==
  ASSUME NEW C, NEW p \in Parsers(C)
  PROVE  EndCell(p) \in Parsers(C)
<1>1. Append(p.cells, p.field) \in Seq(Seq(C)) /\ <<>> \in Seq(C) /\ Len(p.cells) \in Nat
  BY DEF Parsers
<1>2. (p.ok /\ Len(p.cells) < ColumnLimit) \in BOOLEAN
  BY <1>1, CsvLimitsAssumption DEF Parsers
<1> QED BY <1>1, <1>2 DEF EndCell, Parsers, Modes

LEMMA EndRecordTyped ==
  ASSUME NEW C, NEW p \in Parsers(C)
  PROVE  EndRecord(p) \in Parsers(C)
<1> DEFINE c == EndCell(p)
           record == [lineStart |-> p.first, lineEnd |-> p.line, cells |-> c.cells]
           fits == /\ c.ok /\ p.active /\ Len(p.records) < RowLimit
                   /\ p.records # <<>> => Len(c.cells) = Len(p.records[1].cells)
<1>1. c \in Parsers(C)
  BY EndCellTyped
<1>2. c.records = p.records
  BY DEF EndCell, Parsers
<1> HIDE DEF c
<1>3. Append(p.records, record) \in Tables(C)
  <2>1. record \in [lineStart : Nat, lineEnd : Nat, cells : Seq(Seq(C))]
    BY <1>1 DEF Parsers
  <2> QED BY <2>1 DEF Parsers, Tables
<1>4. fits \in BOOLEAN
  OBVIOUS
<1>5. EndRecord(p) = [c EXCEPT !.records = Append(p.records, record), !.cells = <<>>,
                               !.active = FALSE, !.ok = fits]
  BY <1>2 DEF EndRecord, c
<1>6. ASSUME NEW q \in Parsers(C), NEW t \in Tables(C), NEW b \in BOOLEAN
      PROVE  [q EXCEPT !.records = t, !.cells = <<>>, !.active = FALSE, !.ok = b] \in Parsers(C)
  <2>1. <<>> \in Seq(Seq(C))
    OBVIOUS
  <2> QED BY <2>1 DEF Parsers
<1>7. PICK t \in Tables(C), b \in BOOLEAN : t = Append(p.records, record) /\ b = fits
  BY <1>3, <1>4
<1>8. EndRecord(p) = [c EXCEPT !.records = t, !.cells = <<>>, !.active = FALSE, !.ok = b]
  BY <1>5, <1>7
<1>9. [c EXCEPT !.records = t, !.cells = <<>>, !.active = FALSE, !.ok = b] \in Parsers(C)
  BY <1>1, <1>6, Zenon
<1> QED BY <1>8, <1>9, Zenon

LEMMA NewlineTyped ==
  ASSUME NEW C, NEW p \in Parsers(C), NEW s \in Seq(C)
  PROVE  Newline(p, s) \in Parsers(C)
<1>1. /\ Put(p, s, "quoted") \in Parsers(C) /\ EndRecord(p) \in Parsers(C)
      /\ p.line \in Nat
  BY PutTyped, EndRecordTyped DEF Modes, Parsers
<1>2. ASSUME NEW q \in Parsers(C) PROVE [q EXCEPT !.line = @ + 1] \in Parsers(C)
  <2>1. q.line + 1 \in Nat
    BY DEF Parsers
  <2> QED BY <2>1 DEF Parsers
<1>3. ASSUME NEW q \in Parsers(C)
      PROVE  [q EXCEPT !.line = @ + 1, !.first = p.line + 1] \in Parsers(C)
  <2>1. q.line + 1 \in Nat /\ p.line + 1 \in Nat
    BY DEF Parsers
  <2> QED BY <2>1 DEF Parsers
<1> QED BY <1>1, <1>2, <1>3 DEF Newline

LEMMA CharacterTyped ==
  ASSUME NEW C, Quote \in C, NEW p \in Parsers(C), NEW c \in C
  PROVE  Character(p, c) \in Parsers(C)
<1> DEFINE q == [p EXCEPT !.active = TRUE]
<1>1. q \in Parsers(C)
  BY DEF Parsers
<1>2. /\ [q EXCEPT !.mode = "closed"] \in Parsers(C)
      /\ [q EXCEPT !.mode = "quoted"] \in Parsers(C)
      /\ Reject(q) \in Parsers(C)
  BY <1>1 DEF Parsers, Reject, Modes
<1>3. EndCell(q) \in Parsers(C)
  BY <1>1, EndCellTyped
<1>4. Put(q, <<c>>, "quoted") \in Parsers(C) /\ Put(q, <<c>>, "unquoted") \in Parsers(C)
  <2>1. <<c>> \in Seq(C) /\ "quoted" \in Modes /\ "unquoted" \in Modes
    BY DEF Modes
  <2> HIDE DEF q
  <2> QED BY <1>1, <2>1, PutTyped
<1>5. \/ Character(p, c) \in {Put(q, <<c>>, "quoted"), Put(q, <<c>>, "unquoted"), Reject(q), EndCell(q)}
      \/ Character(p, c) \in {[q EXCEPT !.mode = "closed"], [q EXCEPT !.mode = "quoted"]}
  BY DEF Character
<1> QED BY <1>2, <1>3, <1>4, <1>5 DEF Modes

LEMMA ReadTyped ==
  ASSUME NEW C, {Quote, LF, CR} \subseteq C, NEW p \in Parsers(C),
         NEW text \in Seq(C), NEW i \in 1..Len(text)
  PROVE  Read(p, text, i) \in Parsers(C)
<1>1. text[i] \in C /\ <<CR, LF>> \in Seq(C) /\ <<LF>> \in Seq(C)
  OBVIOUS
<1>2. Reject(p) \in Parsers(C)
  BY DEF Reject, Parsers
<1>3. /\ Newline(p, <<CR, LF>>) \in Parsers(C) /\ Newline(p, <<LF>>) \in Parsers(C)
      /\ Character(p, text[i]) \in Parsers(C)
  BY <1>1, NewlineTyped, CharacterTyped
<1> QED BY <1>2, <1>3 DEF Read

-----------------------------------------------------------------------------
(* What each operation of the automaton leaves.                            *)
LEMMA PutIs ==
  ASSUME NEW C, NEW p \in Parsers(C), NEW s, NEW mode, NEW o, o = Put(p, s, mode)
  PROVE  /\ o.records = p.records /\ o.cells = p.cells /\ o.field = p.field \o s
         /\ o.line = p.line /\ o.first = p.first /\ o.active = p.active
         /\ o.mode = mode /\ o.limit = p.limit
         /\ o.ok <=> p.ok /\ Len(p.field) + Len(s) <= p.limit
  BY DEF Put, Parsers

LEMMA EndCellIs ==
  ASSUME NEW C, NEW p \in Parsers(C), NEW o, o = EndCell(p)
  PROVE  /\ o.records = p.records /\ o.cells = Append(p.cells, p.field) /\ o.field = <<>>
         /\ o.line = p.line /\ o.first = p.first /\ o.active = p.active
         /\ o.mode = "start" /\ o.limit = p.limit
         /\ o.ok <=> p.ok /\ Len(p.cells) < ColumnLimit
  BY DEF EndCell, Parsers

RecordOf(p) ==
  [lineStart |-> p.first, lineEnd |-> p.line, cells |-> Append(p.cells, p.field)]

LEMMA EndRecordIs ==
  ASSUME NEW C, NEW p \in Parsers(C), NEW o, o = EndRecord(p)
  PROVE  /\ o.records = Append(p.records, RecordOf(p)) /\ o.cells = <<>> /\ o.field = <<>>
         /\ o.line = p.line /\ o.first = p.first /\ ~o.active
         /\ o.mode = "start" /\ o.limit = p.limit
         /\ o.ok <=> /\ p.ok /\ p.active
                     /\ Len(p.cells) < ColumnLimit /\ Len(p.records) < RowLimit
                     /\ p.records # <<>> =>
                          Len(RecordOf(p).cells) = Len(p.records[1].cells)
<1> DEFINE c == EndCell(p)
           fits == /\ c.ok /\ p.active /\ Len(p.records) < RowLimit
                   /\ p.records # <<>> => Len(c.cells) = Len(p.records[1].cells)
<1>1. c \in Parsers(C)
  BY EndCellTyped
<1>2. /\ c.records = p.records /\ c.cells = Append(p.cells, p.field) /\ c.field = <<>>
      /\ c.line = p.line /\ c.first = p.first
      /\ c.mode = "start" /\ c.limit = p.limit
      /\ c.ok <=> p.ok /\ Len(p.cells) < ColumnLimit
  BY EndCellIs
<1> HIDE DEF c
<1>3. o = [c EXCEPT !.records = Append(p.records, RecordOf(p)), !.cells = <<>>,
                    !.active = FALSE, !.ok = fits]
  BY <1>2 DEF EndRecord, RecordOf, c
<1>4. fits <=> /\ p.ok /\ p.active
               /\ Len(p.cells) < ColumnLimit /\ Len(p.records) < RowLimit
               /\ p.records # <<>> => Len(RecordOf(p).cells) = Len(p.records[1].cells)
  BY <1>2 DEF RecordOf
<1> HIDE DEF fits
<1> QED BY <1>1, <1>2, <1>3, <1>4 DEF Parsers

LEMMA NewlineIs ==
  ASSUME NEW C, NEW p \in Parsers(C), NEW s \in Seq(C), NEW o, o = Newline(p, s)
  PROVE  /\ o.line = p.line + 1 /\ o.limit = p.limit
         /\ p.mode = "quoted" =>
              /\ o.records = p.records /\ o.cells = p.cells /\ o.field = p.field \o s
              /\ o.first = p.first /\ o.active = p.active /\ o.mode = "quoted"
              /\ o.ok <=> p.ok /\ Len(p.field) + Len(s) <= p.limit
         /\ p.mode # "quoted" =>
              /\ o.records = Append(p.records, RecordOf(p)) /\ o.cells = <<>> /\ o.field = <<>>
              /\ o.first = p.line + 1 /\ ~o.active /\ o.mode = "start"
              /\ o.ok <=> EndRecord(p).ok
<1>1. CASE p.mode = "quoted"
  <2> DEFINE q == Put(p, s, "quoted")
  <2>1. o = [q EXCEPT !.line = @ + 1] /\ q \in Parsers(C)
    BY <1>1, PutTyped DEF Newline, Modes
  <2>2. /\ q.records = p.records /\ q.cells = p.cells /\ q.field = p.field \o s
        /\ q.line = p.line /\ q.first = p.first /\ q.active = p.active
        /\ q.mode = "quoted" /\ q.limit = p.limit
        /\ q.ok <=> p.ok /\ Len(p.field) + Len(s) <= p.limit
    BY PutIs
  <2> HIDE DEF q
  <2> QED BY <1>1, <2>1, <2>2 DEF Parsers
<1>2. CASE p.mode # "quoted"
  <2> DEFINE q == EndRecord(p)
  <2>1. o = [q EXCEPT !.line = @ + 1, !.first = p.line + 1] /\ q \in Parsers(C)
    BY <1>2, EndRecordTyped DEF Newline
  <2>2. /\ q.records = Append(p.records, RecordOf(p)) /\ q.cells = <<>> /\ q.field = <<>>
        /\ q.line = p.line /\ q.first = p.first /\ ~q.active
        /\ q.mode = "start" /\ q.limit = p.limit
    BY EndRecordIs
  <2>3. o.ok = q.ok /\ o.active = q.active
    BY <2>1 DEF Parsers
  <2> HIDE DEF q
  <2> QED BY <1>2, <2>1, <2>2, <2>3 DEF Parsers, q
<1> QED BY <1>1, <1>2

-----------------------------------------------------------------------------
(* While no limit is exceeded, what was read fits all limits and every     *)
(* record has as many cells as the header.                                 *)
Fits(p) ==
  p.ok =>
    /\ Len(p.field) <= p.limit
    /\ p.cells # <<>> => Small(p.cells, p.limit)
    /\ Rectangular(p.records, p.limit)

(* The records follow each other line by line, and p.first is the line     *)
(* after the last of them.                                                 *)
FirstOf(records, k) == IF k = 1 THEN 1 ELSE records[k - 1].lineEnd + 1

Adjacent(records) ==
  \A k \in 1..Len(records) :
    records[k].lineStart = FirstOf(records, k) /\ records[k].lineStart <= records[k].lineEnd

Placed(p) ==
  /\ Adjacent(p.records)
  /\ p.first = FirstOf(p.records, Len(p.records) + 1)
  /\ p.first <= p.line
  /\ p.mode = "quoted" => p.active
  /\ ~p.active => p.first = p.line

LEMMA StartFits ==
  ASSUME NEW limit \in Nat PROVE Fits(Start(limit)) /\ Placed(Start(limit))
  BY CsvLimitsAssumption DEF Start, Fits, Placed, Rectangular, Adjacent, FirstOf

LEMMA ExtendedFits ==
  ASSUME NEW C, NEW p \in Parsers(C), Fits(p), Placed(p), NEW o \in Parsers(C), o.limit = p.limit,
         o.records = Append(p.records, RecordOf(p)),
         o.cells = <<>>, o.field = <<>>, ~o.active, o.mode = "start",
         o.ok => /\ p.ok /\ p.active
                 /\ Len(p.cells) < ColumnLimit /\ Len(p.records) < RowLimit
                 /\ p.records # <<>> => Len(RecordOf(p).cells) = Len(p.records[1].cells)
  PROVE  Fits(o) /\ Adjacent(o.records)
         /\ FirstOf(o.records, Len(o.records) + 1) = p.line + 1
<1> DEFINE r == RecordOf(p)
           all == o.records
<1>1. /\ p.records \in Tables(C) /\ p.cells \in Seq(Seq(C)) /\ p.field \in Seq(C)
      /\ p.line \in Nat /\ p.first \in Nat /\ p.limit \in Nat
  BY DEF Parsers
<1>2. /\ r \in [lineStart : Nat, lineEnd : Nat, cells : Seq(Seq(C))]
      /\ r.lineStart = p.first /\ r.lineEnd = p.line /\ r.cells = Append(p.cells, p.field)
  BY <1>1 DEF RecordOf
<1>8. /\ all = Append(p.records, r)
      /\ p.records \in Seq([lineStart : Nat, lineEnd : Nat, cells : Seq(Seq(C))])
  BY <1>1 DEF Tables
<1> HIDE DEF r, all
<1>3. /\ Len(all) = Len(p.records) + 1 /\ Len(p.records) \in Nat /\ DOMAIN all = 1..Len(all)
      /\ all[Len(all)] = r
      /\ \A k \in 1..Len(p.records) : all[k] = p.records[k]
  BY <1>2, <1>8
<1>4. Adjacent(all)
  <2> SUFFICES ASSUME NEW k \in 1..Len(all)
               PROVE  all[k].lineStart = FirstOf(all, k) /\ all[k].lineStart <= all[k].lineEnd
    BY DEF Adjacent
  <2>1. CASE k = Len(all)
    <3>1. FirstOf(all, k) = FirstOf(p.records, k)
      BY <1>3, <2>1 DEF FirstOf
    <3> QED BY <1>2, <1>3, <2>1, <3>1 DEF Placed
  <2>2. CASE k # Len(all)
    <3>1. k \in 1..Len(p.records) /\ (k # 1 => k - 1 \in 1..Len(p.records))
      BY <1>3, <2>2
    <3>2. FirstOf(all, k) = FirstOf(p.records, k)
      BY <1>3, <3>1 DEF FirstOf
    <3> QED BY <1>3, <3>1, <3>2 DEF Placed, Adjacent
  <2> QED BY <2>1, <2>2
<1>5. FirstOf(all, Len(all) + 1) = p.line + 1
  BY <1>2, <1>3 DEF FirstOf
<1>6. ASSUME o.ok PROVE Rectangular(all, o.limit)
  <2>1. p.ok /\ Len(p.cells) < ColumnLimit /\ Len(p.records) < RowLimit
        /\ (p.records # <<>> => Len(r.cells) = Len(p.records[1].cells))
    BY <1>6 DEF r
  <2>2. Small(r.cells, o.limit)
    <3>1. /\ Len(r.cells) = Len(p.cells) + 1 /\ Len(p.cells) \in Nat
          /\ r.cells[Len(r.cells)] = p.field /\ DOMAIN r.cells = 1..Len(r.cells)
          /\ \A n \in 1..Len(p.cells) : r.cells[n] = p.cells[n]
      BY <1>1, <1>2
    <3>2. ASSUME NEW n \in DOMAIN r.cells PROVE Len(r.cells[n]) <= o.limit
      <4>1. CASE n = Len(r.cells)
        BY <2>1, <3>1, <4>1 DEF Fits
      <4>2. CASE n # Len(r.cells)
        <5>1. n \in 1..Len(p.cells) /\ p.cells # <<>> /\ DOMAIN p.cells = 1..Len(p.cells)
          BY <1>1, <3>1, <4>2
        <5>2. Small(p.cells, p.limit)
          BY <2>1, <5>1 DEF Fits
        <5>3. Len(p.cells[n]) <= p.limit
          BY <5>1, <5>2 DEF Small
        <5> QED BY <3>1, <5>1, <5>3
      <4> QED BY <4>1, <4>2
    <3> QED BY <2>1, <3>1, <3>2, CsvLimitsAssumption DEF Small
  <2>3. ASSUME NEW k \in 1..Len(all)
        PROVE  Small(all[k].cells, o.limit) /\ Len(all[k].cells) = Len(all[1].cells)
    <3>1. CASE Len(p.records) = 0
      BY <1>3, <2>2, <3>1
    <3>2. CASE Len(p.records) # 0
      <4>1. /\ p.records # <<>> /\ 1 \in 1..Len(p.records) /\ all[1] = p.records[1]
            /\ DOMAIN p.records = 1..Len(p.records)
        BY <1>3, <1>8, <3>2
      <4>2. CASE k = Len(all)
        BY <1>3, <2>1, <2>2, <4>1, <4>2
      <4>3. CASE k # Len(all)
        <5>1. k \in 1..Len(p.records) /\ all[k] = p.records[k]
          BY <1>3, <4>3
        <5> QED BY <2>1, <4>1, <5>1 DEF Fits, Rectangular
      <4> QED BY <4>2, <4>3
    <3> QED BY <3>1, <3>2
  <2>4. Len(all) <= RowLimit
    BY <1>3, <2>1, CsvLimitsAssumption
  <2> QED BY <1>3, <2>3, <2>4 DEF Rectangular
<1>7. Fits(o)
  BY <1>1, <1>6 DEF Fits, all
<1> QED BY <1>4, <1>5, <1>7 DEF all

LEMMA NewlineFits ==
  ASSUME NEW C, NEW p \in Parsers(C), Fits(p), Placed(p), NEW s \in Seq(C)
  PROVE  Fits(Newline(p, s)) /\ Placed(Newline(p, s))
<1>1. PICK o : o = Newline(p, s)
  OBVIOUS
<1>2. o \in Parsers(C)
  BY <1>1, NewlineTyped
<1>3. /\ o.line = p.line + 1 /\ o.limit = p.limit
      /\ p.line \in Nat /\ p.first \in Nat /\ p.limit \in Nat
      /\ p.field \in Seq(C) /\ p.records \in Tables(C)
  BY <1>1, NewlineIs DEF Parsers
<1>4. CASE p.mode = "quoted"
  <2>1. /\ o.records = p.records /\ o.cells = p.cells /\ o.field = p.field \o s
        /\ o.first = p.first /\ o.active = p.active /\ o.mode = "quoted"
        /\ o.ok => p.ok /\ Len(p.field) + Len(s) <= p.limit
    BY <1>1, <1>4, NewlineIs
  <2>2. Len(p.field \o s) = Len(p.field) + Len(s)
    BY <1>3
  <2>3. Fits(o)
    BY <1>3, <2>1, <2>2 DEF Fits
  <2>4. Placed(o)
    BY <1>3, <1>4, <2>1 DEF Placed
  <2> QED BY <1>1, <2>3, <2>4
<1>5. CASE p.mode # "quoted"
  <2>1. /\ o.records = Append(p.records, RecordOf(p)) /\ o.cells = <<>> /\ o.field = <<>>
        /\ o.first = p.line + 1 /\ ~o.active /\ o.mode = "start"
        /\ o.ok => EndRecord(p).ok
    BY <1>1, <1>5, NewlineIs
  <2>2. o.ok => /\ p.ok /\ p.active
                /\ Len(p.cells) < ColumnLimit /\ Len(p.records) < RowLimit
                /\ p.records # <<>> => Len(RecordOf(p).cells) = Len(p.records[1].cells)
    BY <2>1, EndRecordIs
  <2>3. Fits(o) /\ Adjacent(o.records) /\ FirstOf(o.records, Len(o.records) + 1) = p.line + 1
    BY <1>2, <1>3, <2>1, <2>2, ExtendedFits
  <2>4. Placed(o)
    BY <1>3, <2>1, <2>3 DEF Placed
  <2> QED BY <1>1, <2>3, <2>4
<1> QED BY <1>4, <1>5

(* A character other than a line end: it makes the record active.          *)
LEMMA CharacterFits ==
  ASSUME NEW C, Quote \in C, NEW p \in Parsers(C), Fits(p), Placed(p), NEW c \in C
  PROVE  /\ Fits(Character(p, c)) /\ Placed(Character(p, c))
         /\ Character(p, c).active
         /\ Character(p, c).line = p.line /\ Character(p, c).limit = p.limit
<1>0. PICK q : q = [p EXCEPT !.active = TRUE]
  OBVIOUS
<1>1. /\ q \in Parsers(C)
      /\ q.records = p.records /\ q.cells = p.cells /\ q.field = p.field /\ q.line = p.line
      /\ q.first = p.first /\ q.limit = p.limit /\ q.ok = p.ok /\ q.mode = p.mode /\ q.active
  BY <1>0 DEF Parsers
<1>2. /\ q.line \in Nat /\ q.limit \in Nat /\ q.field \in Seq(C) /\ q.cells \in Seq(Seq(C))
      /\ <<c>> \in Seq(C)
  BY <1>1 DEF Parsers
<1>3. PICK o : o = Character(p, c)
  OBVIOUS
<1>4. \/ o = Put(q, <<c>>, "quoted") \/ o = Put(q, <<c>>, "unquoted")
      \/ o = Reject(q) \/ o = EndCell(q)
      \/ o = [q EXCEPT !.mode = "closed"] \/ o = [q EXCEPT !.mode = "quoted"]
  BY <1>0, <1>3 DEF Character
<1>5. /\ o.records = p.records /\ o.line = p.line /\ o.first = p.first /\ o.active
      /\ o.limit = p.limit
  <2>1. CASE o = Put(q, <<c>>, "quoted") \/ o = Put(q, <<c>>, "unquoted")
    BY <1>1, <2>1, PutIs
  <2>2. CASE o = EndCell(q)
    BY <1>1, <2>2, EndCellIs
  <2>3. CASE o = Reject(q) \/ o = [q EXCEPT !.mode = "closed"] \/ o = [q EXCEPT !.mode = "quoted"]
    BY <1>1, <2>3 DEF Reject, Parsers
  <2> QED BY <1>4, <2>1, <2>2, <2>3
<1>6. ASSUME o.ok
      PROVE  /\ p.ok /\ Len(o.field) <= p.limit
             /\ o.cells # <<>> => Small(o.cells, p.limit)
  <2>1. CASE o = Put(q, <<c>>, "quoted") \/ o = Put(q, <<c>>, "unquoted")
    <3>1. PICK s \in Seq(C) : \E mode : s = <<c>> /\ o = Put(q, s, mode)
      BY <1>2, <2>1
    <3>4. PICK mode : o = Put(q, s, mode)
      BY <3>1
    <3>2. /\ o.field = q.field \o s /\ o.cells = q.cells
          /\ q.ok /\ Len(q.field) + Len(s) <= q.limit
      <4>1. q \in Parsers(C)
        BY <1>1
      <4> QED BY <1>6, <3>4, <4>1, PutIs
    <3>3. Len(q.field \o s) = Len(q.field) + Len(s)
      BY <1>2
    <3> QED BY <1>1, <3>2, <3>3 DEF Fits
  <2>2. CASE o = EndCell(q)
    <3>1. /\ o.cells = Append(q.cells, q.field) /\ o.field = <<>>
          /\ q.ok /\ Len(q.cells) < ColumnLimit
      BY <1>1, <1>6, <2>2, EndCellIs
    <3>2. /\ Len(o.cells) = Len(q.cells) + 1 /\ Len(q.cells) \in Nat
          /\ o.cells[Len(o.cells)] = q.field /\ DOMAIN o.cells = 1..Len(o.cells)
          /\ \A n \in 1..Len(q.cells) : o.cells[n] = q.cells[n]
      BY <1>2, <3>1
    <3>3. ASSUME NEW n \in 1..Len(o.cells) PROVE Len(o.cells[n]) <= p.limit
      <4>1. CASE n = Len(o.cells)
        BY <1>1, <3>1, <3>2, <4>1 DEF Fits
      <4>2. CASE n # Len(o.cells)
        <5>1. n \in 1..Len(q.cells) /\ p.cells # <<>> /\ DOMAIN p.cells = 1..Len(q.cells)
          BY <1>1, <1>2, <3>2, <4>2
        <5>2. Small(p.cells, p.limit)
          BY <1>1, <3>1, <5>1 DEF Fits
        <5>3. Len(p.cells[n]) <= p.limit
          BY <5>1, <5>2 DEF Small
        <5> QED BY <1>1, <3>2, <5>1, <5>3
      <4> QED BY <4>1, <4>2
    <3>4. Len(o.cells) \in 1..ColumnLimit
      BY <3>1, <3>2, CsvLimitsAssumption
    <3>5. Small(o.cells, p.limit)
      BY <3>2, <3>3, <3>4 DEF Small
    <3>6. p.ok /\ Len(o.field) <= p.limit
      BY <1>1, <1>2, <3>1
    <3> QED BY <3>5, <3>6
  <2>3. CASE o = [q EXCEPT !.mode = "closed"] \/ o = [q EXCEPT !.mode = "quoted"]
    <3>1. o.ok = q.ok /\ o.field = q.field /\ o.cells = q.cells
      BY <1>1, <2>3 DEF Parsers
    <3> QED BY <1>1, <1>6, <3>1 DEF Fits
  <2>4. CASE o = Reject(q)
    <3>1. ~o.ok
      BY <1>1, <2>4 DEF Reject, Parsers
    <3> QED BY <1>6, <3>1
  <2> QED BY <1>4, <2>1, <2>2, <2>3, <2>4
<1>7. Fits(o)
  BY <1>5, <1>6 DEF Fits
<1>8. Placed(o)
  BY <1>5 DEF Placed
<1> QED BY <1>3, <1>5, <1>7, <1>8

-----------------------------------------------------------------------------
(* Lines are numbered from 1 and every LF begins another one.              *)
LEMMA LineOfNext ==
  ASSUME NEW text, NEW i \in Nat, i # 0
  PROVE  /\ LineOf(text, i) \in Nat \ {0}
         /\ LineOf(text, i + 1) = LineOf(text, i) + (IF text[i] = LF THEN 1 ELSE 0)
<1> DEFINE before == {j \in 1..(i - 1) : text[j] = LF}
           upto == {j \in 1..((i + 1) - 1) : text[j] = LF}
<1>1. IsFiniteSet(before) /\ Cardinality(before) \in Nat
  <2>1. IsFiniteSet(1..(i - 1))
    BY FS_Interval
  <2>2. before \in SUBSET (1..(i - 1))
    OBVIOUS
  <2> HIDE DEF before
  <2> QED BY <2>1, <2>2, FS_Subset, FS_CardinalityType
<1>2. LineOf(text, i) = 1 + Cardinality(before) /\ LineOf(text, i + 1) = 1 + Cardinality(upto)
  BY DEF LineOf
<1>3. CASE text[i] = LF
  <2>1. upto = before \cup {i} /\ i \notin before
    BY <1>3
  <2> HIDE DEF before, upto
  <2>2. Cardinality(upto) = Cardinality(before) + 1
    BY <1>1, <2>1, FS_AddElement
  <2> QED BY <1>1, <1>2, <1>3, <2>2
<1>4. CASE text[i] # LF
  <2>1. upto = before
    BY <1>4
  <2> HIDE DEF before, upto
  <2> QED BY <1>1, <1>2, <1>4, <2>1
<1> QED BY <1>3, <1>4

LEMMA LineOfFirst == ASSUME NEW text PROVE LineOf(text, 1) = 1
<1>1. {j \in 1..(1 - 1) : text[j] = LF} = {}
  OBVIOUS
<1> QED BY <1>1, FS_EmptySet DEF LineOf

(* What holds after i characters.                                          *)
ReadUpTo(C, text, limit, i, p) ==
  /\ p \in Parsers(C) /\ Fits(p) /\ Placed(p)
  /\ p.limit = limit
  /\ p.line = LineOf(text, i + 1)
  /\ i # 0 /\ i = Len(text) /\ p.ok /\ ~p.active => text[i] = LF /\ p.records # <<>>

LEMMA ReadNext ==
  ASSUME NEW C, {Quote, LF, CR} \subseteq C, NEW text \in Seq(C), NEW limit,
         NEW i \in 1..Len(text), NEW p, ReadUpTo(C, text, limit, i - 1, p)
  PROVE  ReadUpTo(C, text, limit, i, Read(p, text, i))
<1>1. PICK o : o = Read(p, text, i)
  OBVIOUS
<1>2. /\ p \in Parsers(C) /\ Fits(p) /\ Placed(p) /\ p.limit = limit
      /\ p.line = LineOf(text, i) /\ p.line \in Nat
      /\ text[i] \in C /\ i \in Nat /\ i # 0 /\ Len(text) \in Nat
  BY DEF ReadUpTo, Parsers
<1>3. o \in Parsers(C)
  BY <1>1, <1>2, ReadTyped
<1>4. LineOf(text, i + 1) = LineOf(text, i) + (IF text[i] = LF THEN 1 ELSE 0)
  BY <1>2, LineOfNext
<1>5. LF # NUL /\ LF # CR /\ CR # NUL
  BY DEF LF, NUL, CR
<1>6. CASE text[i] = LF
  <2>1. PICK s \in {<<CR, LF>>, <<LF>>} : o = Newline(p, s)
    BY <1>1, <1>5, <1>6 DEF Read
  <2>2. s \in Seq(C)
    <3>1. CR \in C /\ LF \in C
      OBVIOUS
    <3>2. <<CR, LF>> \in Seq(C) /\ <<LF>> \in Seq(C)
      BY <3>1
    <3> QED BY <2>1, <3>2
  <2>3. Fits(o) /\ Placed(o)
    BY <1>2, <2>1, <2>2, NewlineFits
  <2>4. o.line = p.line + 1 /\ o.limit = p.limit
    BY <1>2, <2>1, <2>2, NewlineIs
  <2>5. ~o.active => o.records # <<>>
    <3>1. CASE p.mode = "quoted"
      <4>1. o.active = p.active
        BY <1>2, <2>1, <2>2, <3>1, NewlineIs
      <4> QED BY <1>2, <3>1, <4>1 DEF Placed
    <3>2. CASE p.mode # "quoted"
      <4>1. o.records = Append(p.records, RecordOf(p))
        BY <1>2, <2>1, <2>2, <3>2, NewlineIs
      <4>2. p.records \in Seq([lineStart : Nat, lineEnd : Nat, cells : Seq(Seq(C))])
        BY <1>2 DEF Parsers, Tables
      <4>3. Len(o.records) = Len(p.records) + 1 /\ Len(p.records) \in Nat
        BY <4>1, <4>2
      <4> QED BY <4>3
    <3> QED BY <3>1, <3>2
  <2> QED BY <1>1, <1>2, <1>3, <1>4, <1>6, <2>3, <2>4, <2>5 DEF ReadUpTo
<1>7. CASE text[i] # LF
  <2>1. CASE text[i] \notin {NUL, CR}
    <3>1. o = Character(p, text[i])
      BY <1>1, <1>7, <2>1 DEF Read
    <3>2. /\ Fits(o) /\ Placed(o) /\ o.active /\ o.line = p.line /\ o.limit = p.limit
      BY <1>2, <3>1, CharacterFits
    <3> QED BY <1>1, <1>2, <1>3, <1>4, <1>7, <3>2 DEF ReadUpTo
  <2>2. ASSUME o = Reject(p) PROVE ReadUpTo(C, text, limit, i, o)
    <3>1. /\ ~o.ok /\ o.records = p.records /\ o.line = p.line /\ o.first = p.first
          /\ o.active = p.active /\ o.mode = p.mode /\ o.limit = p.limit
      BY <1>2, <2>2 DEF Reject, Parsers
    <3>2. Fits(o) /\ Placed(o)
      BY <1>2, <3>1 DEF Fits, Placed
    <3> QED BY <1>2, <1>3, <1>4, <1>7, <3>1, <3>2 DEF ReadUpTo
  <2>3. CASE text[i] = CR /\ o = p
    <3>1. i # Len(text) \/ o = Reject(p)
      BY <1>1, <1>5, <2>3 DEF Read
    <3>2. CASE i # Len(text)
      <4>1. p.line = LineOf(text, i + 1)
        BY <1>2, <1>4, <1>7
      <4>2. ReadUpTo(C, text, limit, i, p)
        BY <1>2, <3>2, <4>1 DEF ReadUpTo
      <4> QED BY <1>1, <2>3, <4>2
    <3> QED BY <1>1, <2>2, <3>1, <3>2
  <2>4. text[i] = NUL \/ text[i] = CR => o = Reject(p) \/ (text[i] = CR /\ o = p)
    BY <1>1, <1>5 DEF Read
  <2> QED BY <1>1, <2>1, <2>2, <2>3, <2>4
<1> QED BY <1>6, <1>7

LEMMA ReadAll ==
  ASSUME NEW C, {Quote, LF, CR} \subseteq C, NEW text \in Seq(C), NEW limit \in Nat
  PROVE  \A i \in 0..Len(text) :
           ReadUpTo(C, text, limit, i, Reading(text, Len(text), Start(limit))[i])
<1> DEFINE N == Len(text)
           run == Reading(text, N, Start(limit))
           T == {i \in 0..N : ~ReadUpTo(C, text, limit, i, run[i])}
<1>1. N \in Nat
  OBVIOUS
<1>2. \A i \in 0..N : run[i] = IF i = 0 THEN Start(limit) ELSE Read(run[i - 1], text, i)
  <2>1. run = [i \in 0..N |-> IF i = 0 THEN Start(limit) ELSE Read(run[i - 1], text, i)]
    BY <1>1, ReadingIs
  <2> HIDE DEF run
  <2> QED BY <2>1
<1> HIDE DEF run
<1>3. ReadUpTo(C, text, limit, 0, run[0])
  <2>1. run[0] = Start(limit)
    BY <1>1, <1>2
  <2>2. Start(limit) \in Parsers(C) /\ Fits(Start(limit)) /\ Placed(Start(limit))
    BY StartTyped, StartFits
  <2>3. Start(limit).limit = limit /\ Start(limit).line = LineOf(text, 0 + 1)
    BY LineOfFirst DEF Start
  <2> QED BY <2>1, <2>2, <2>3 DEF ReadUpTo
<1>4. T = {}
  <2> SUFFICES ASSUME T # {} PROVE FALSE
    OBVIOUS
  <2>0. T \in SUBSET Nat
    BY <1>1
  <2>1. PICK m \in T : \A n \in T : m <= n
    <3> HIDE DEF T
    <3> QED BY <2>0, LeastOf
  <2>2. m \in 1..N /\ m - 1 \in 0..N /\ ~(m <= m - 1)
    BY <1>1, <1>3, <2>1
  <2>3. ReadUpTo(C, text, limit, m - 1, run[m - 1])
    BY <2>1, <2>2
  <2>4. run[m] = Read(run[m - 1], text, m)
    BY <1>2, <2>2
  <2>5. ReadUpTo(C, text, limit, m, run[m])
    BY <2>2, <2>3, <2>4, ReadNext
  <2> QED BY <2>1, <2>5
<1>5. \A i \in 0..N : ReadUpTo(C, text, limit, i, run[i])
  BY <1>1, <1>4
<1> QED BY <1>5 DEF run

LEMMA LastOf ==
  ASSUME NEW R, NEW s \in Seq(R), s # <<>>
  PROVE  Len(s) \in Nat \ {0} /\ s[Len(s)] \in R
  OBVIOUS

LEMMA ElementOf == ASSUME NEW R, NEW s \in Seq(R), NEW k \in 1..Len(s) PROVE s[k] \in R
  OBVIOUS

LEMMA LineOfMonotone ==
  ASSUME NEW text, NEW i \in Nat, NEW j \in Nat, i <= j
  PROVE  /\ LineOf(text, i) \in Nat \ {0} /\ LineOf(text, j) \in Nat \ {0}
         /\ LineOf(text, i) <= LineOf(text, j)
<1> DEFINE before(n) == {k \in 1..(n - 1) : text[k] = LF}
<1>1. \A n \in Nat : IsFiniteSet(before(n)) /\ Cardinality(before(n)) \in Nat
  <2> TAKE n \in Nat
  <2>1. IsFiniteSet(1..(n - 1)) /\ before(n) \in SUBSET (1..(n - 1))
    BY FS_Interval
  <2> HIDE DEF before
  <2> QED BY <2>1, FS_Subset, FS_CardinalityType
<1>2. before(i) \in SUBSET before(j)
  OBVIOUS
<1> HIDE DEF before
<1>3. Cardinality(before(i)) <= Cardinality(before(j))
  BY <1>1, <1>2, FS_Subset
<1>4. /\ LineOf(text, i) = 1 + Cardinality(before(i))
      /\ LineOf(text, j) = 1 + Cardinality(before(j))
  BY DEF LineOf, before
<1> QED BY <1>1, <1>3, <1>4

(* A byte order mark is no line end.                                       *)
LEMMA DecodedIs ==
  ASSUME NEW C, NEW raw \in Seq(C), NEW text, text = Decoded(raw), text # <<>>
  PROVE  /\ text \in Seq(C) /\ Len(text) \in Nat \ {0} /\ Len(raw) \in Nat \ {0}
         /\ text[Len(text)] = raw[Len(raw)]
         /\ LineOf(text, Len(text)) = LineOf(raw, Len(raw))
<1>1. CASE text = raw
  BY <1>1
<1>2. CASE raw # <<>> /\ raw[1] = BOM /\ text = Tail(raw)
  <2>1. /\ text \in Seq(C) /\ Len(text) \in Nat /\ Len(raw) = Len(text) + 1
        /\ \A i \in 1..Len(text) : text[i] = raw[i + 1]
    BY <1>2
  <2>2. Len(text) # 0
    BY <2>1
  <2> DEFINE T == {i \in 1..Len(text) : LineOf(text, i) # LineOf(raw, i + 1)}
  <2>3. T = {}
    <3> SUFFICES ASSUME T # {} PROVE FALSE
      OBVIOUS
    <3>1. T \in SUBSET Nat
      BY <2>1
    <3>2. PICK m \in T : \A n \in T : m <= n
      <4> HIDE DEF T
      <4> QED BY <3>1, LeastOf
    <3>3. CASE m = 1
      <4>1. LineOf(raw, 1 + 1) = LineOf(raw, 1) + (IF raw[1] = LF THEN 1 ELSE 0)
        BY LineOfNext
      <4>2. LineOf(text, 1) = 1 /\ LineOf(raw, 1) = 1 /\ BOM # LF
        BY LineOfFirst DEF BOM, LF
      <4> QED BY <1>2, <3>2, <3>3, <4>1, <4>2
    <3>4. CASE m # 1
      <4>1. /\ m - 1 \in 1..Len(text) /\ m - 1 \in Nat \ {0} /\ ~(m <= m - 1)
            /\ (m - 1) + 1 = m /\ m \in Nat \ {0}
        BY <2>1, <3>2, <3>4
      <4>2. LineOf(text, m - 1) = LineOf(raw, m)
        BY <3>2, <4>1
      <4>3. LineOf(text, m) = LineOf(text, m - 1) + (IF text[m - 1] = LF THEN 1 ELSE 0)
        <5>1. PICK k \in Nat \ {0} : k = m - 1 /\ k + 1 = m
          BY <4>1
        <5> QED BY <5>1, LineOfNext
      <4>4. LineOf(raw, m + 1) = LineOf(raw, m) + (IF raw[m] = LF THEN 1 ELSE 0)
        BY <4>1, LineOfNext
      <4>5. text[m - 1] = raw[m]
        BY <2>1, <4>1
      <4> QED BY <3>2, <4>2, <4>3, <4>4, <4>5
    <3> QED BY <3>3, <3>4
  <2> QED BY <2>1, <2>2, <2>3
<1> QED BY <1>1, <1>2 DEF Decoded

-----------------------------------------------------------------------------
(* What parse_csv returns.  A text that does not parse has no records.     *)
LEMMA ParsedIs ==
  ASSUME NEW C, NEW raw \in Seq(C), NEW release \in DOMAIN CellLimit,
         NEW t, t = ParseCsv(raw, release)
  PROVE  /\ t.parsed \in BOOLEAN
         /\ \E D : t.records \in Tables(D)
         /\ ~t.parsed => t.records = <<>>
         /\ t.parsed =>
              /\ t.records # <<>>
              /\ Rectangular(t.records, CellLimit[release])
              /\ Adjacent(t.records)
              /\ \A i \in DOMAIN raw : LineOf(raw, i) <= t.records[Len(t.records)].lineEnd
<1> DEFINE text == Decoded(raw)
           limit == CellLimit[release]
           end == Reading(text, Len(text), Start(limit))[Len(text)]
           last == IF end.active THEN EndRecord(end) ELSE end
           D == C \cup {Quote, LF, CR}
<1>1. t = Accepted(raw, end)
  BY ParseCsvIs
<1>2. CASE t = Failed
  <2>1. t.parsed = FALSE /\ t.records = <<>> /\ <<>> \in Tables(C)
    BY <1>2 DEF Failed, Tables
  <2> QED BY <2>1
<1>3. CASE t # Failed
  <2>1. /\ t = [parsed |-> TRUE, records |-> last.records]
        /\ text # <<>> /\ last.ok /\ end.mode # "quoted"
    BY <1>1, <1>3 DEF Accepted
  <2>2. /\ text \in Seq(C) /\ Len(text) \in Nat \ {0} /\ Len(raw) \in Nat \ {0}
        /\ text[Len(text)] = raw[Len(raw)]
        /\ LineOf(text, Len(text)) = LineOf(raw, Len(raw))
    BY <2>1, DecodedIs
  <2>3. text \in Seq(D) /\ {Quote, LF, CR} \subseteq D /\ limit \in Nat
    BY <2>2, CsvLimitsAssumption
  <2> HIDE DEF text, D
  <2>4. ReadUpTo(D, text, limit, Len(text), end)
    <3>1. Len(text) \in 0..Len(text)
      BY <2>2
    <3> HIDE DEF limit
    <3> QED BY <2>3, <3>1, ReadAll DEF end
  <2> HIDE DEF end
  <2>5. /\ end \in Parsers(D) /\ Fits(end) /\ Placed(end) /\ end.limit = limit
        /\ end.line = LineOf(text, Len(text) + 1)
        /\ end.line \in Nat /\ end.active \in BOOLEAN /\ end.records \in Tables(D)
    BY <2>4 DEF ReadUpTo, Parsers
  <2>6. LineOf(text, Len(text) + 1) =
          LineOf(raw, Len(raw)) + (IF raw[Len(raw)] = LF THEN 1 ELSE 0)
    BY <2>2, LineOfNext
  <2>7. /\ LineOf(raw, Len(raw)) \in Nat
        /\ \A i \in DOMAIN raw : LineOf(raw, i) \in Nat /\ LineOf(raw, i) <= LineOf(raw, Len(raw))
    BY <2>2, LineOfMonotone
  <2> DEFINE rows == last.records
  <2>8. /\ rows \in Tables(D) /\ rows # <<>> /\ Rectangular(rows, limit) /\ Adjacent(rows)
        /\ FirstOf(rows, Len(rows) + 1) > LineOf(raw, Len(raw))
    <3>1. CASE end.active
      <4>1. PICK o : o = EndRecord(end)
        OBVIOUS
      <4>2. last = o /\ o \in Parsers(D) /\ o.ok
        BY <2>1, <2>5, <3>1, <4>1, EndRecordTyped
      <4>3. /\ o.records = Append(end.records, RecordOf(end)) /\ o.cells = <<>> /\ o.field = <<>>
            /\ ~o.active /\ o.mode = "start" /\ o.limit = end.limit
            /\ o.ok => /\ end.ok /\ end.active
                       /\ Len(end.cells) < ColumnLimit /\ Len(end.records) < RowLimit
                       /\ end.records # <<>> =>
                            Len(RecordOf(end).cells) = Len(end.records[1].cells)
        BY <2>5, <4>1, EndRecordIs
      <4>4. /\ Fits(o) /\ Adjacent(o.records)
            /\ FirstOf(o.records, Len(o.records) + 1) = end.line + 1
        BY <2>5, <4>2, <4>3, ExtendedFits
      <4>5. Rectangular(o.records, limit)
        BY <2>5, <4>2, <4>3, <4>4 DEF Fits
      <4>6. o.records # <<>>
        <5>1. end.records \in Seq([lineStart : Nat, lineEnd : Nat, cells : Seq(Seq(D))])
          BY <2>5 DEF Tables
        <5>2. Len(o.records) = Len(end.records) + 1 /\ Len(end.records) \in Nat
          BY <4>3, <5>1
        <5> QED BY <5>2
      <4>7. o.records \in Tables(D)
        BY <4>2 DEF Parsers
      <4>8. end.line + 1 > LineOf(raw, Len(raw))
        BY <2>5, <2>6, <2>7
      <4> QED BY <4>2, <4>4, <4>5, <4>6, <4>7, <4>8
    <3>2. CASE ~end.active
      <4>1. last = end /\ end.ok
        BY <2>1, <3>2
      <4>2. raw[Len(raw)] = LF /\ end.records # <<>>
        BY <2>2, <2>4, <3>2, <4>1 DEF ReadUpTo
      <4>3. /\ Rectangular(end.records, limit) /\ Adjacent(end.records)
            /\ FirstOf(end.records, Len(end.records) + 1) = end.line
        BY <2>5, <3>2, <4>1 DEF Fits, Placed
      <4>4. end.line > LineOf(raw, Len(raw))
        BY <2>5, <2>6, <2>7, <4>2
      <4> QED BY <2>5, <4>1, <4>2, <4>3, <4>4
    <3> QED BY <2>5, <3>1, <3>2
  <2> HIDE DEF last
  <2>9. Len(rows) \in Nat \ {0} /\ rows[Len(rows)].lineEnd \in Nat
    <3>1. rows \in Seq([lineStart : Nat, lineEnd : Nat, cells : Seq(Seq(D))]) /\ rows # <<>>
      BY <2>8 DEF Tables
    <3> HIDE DEF rows
    <3>2. /\ Len(rows) \in Nat \ {0}
          /\ rows[Len(rows)] \in [lineStart : Nat, lineEnd : Nat, cells : Seq(Seq(D))]
      BY <3>1, LastOf
    <3> QED BY <3>2
  <2>10. \A i \in DOMAIN raw : LineOf(raw, i) <= rows[Len(rows)].lineEnd
    <3> HIDE DEF rows
    <3>1. FirstOf(rows, Len(rows) + 1) = rows[Len(rows)].lineEnd + 1
      BY <2>9 DEF FirstOf
    <3>2. LineOf(raw, Len(raw)) <= rows[Len(rows)].lineEnd
      BY <2>7, <2>8, <2>9, <3>1
    <3> QED BY <2>7, <2>9, <3>2
  <2> HIDE DEF rows
  <2>11. t.parsed = TRUE /\ t.records = rows
    BY <2>1 DEF rows
  <2> QED BY <2>8, <2>10, <2>11
<1> QED BY <1>2, <1>3

(* A table fits the limits of the release that read it, has a header, and  *)
(* every record has as many cells as the header.                           *)
THEOREM TablesAreRectangular ==
  ASSUME NEW C, NEW raw \in Seq(C), NEW release \in DOMAIN CellLimit,
         ParseCsv(raw, release).parsed
  PROVE  /\ ParseCsv(raw, release).records # <<>>
         /\ Rectangular(ParseCsv(raw, release).records, CellLimit[release])
  BY ParsedIs

-----------------------------------------------------------------------------
(* How many characters of raw come before line a.                          *)
Before(raw, a) == Cardinality({i \in DOMAIN raw : LineOf(raw, i) < a})

LEMMA BeforeIs ==
  ASSUME NEW C, NEW raw \in Seq(C), NEW a \in Nat, NEW b \in Nat, a <= b
  PROVE  /\ Before(raw, a) \in 0..Len(raw) /\ Before(raw, b) \in 0..Len(raw)
         /\ Before(raw, a) <= Before(raw, b)
         /\ b > 0 => Excerpt(raw, a, b - 1) = SubSeq(raw, Before(raw, a) + 1, Before(raw, b))
<1> DEFINE below(n) == {i \in DOMAIN raw : LineOf(raw, i) < n}
<1>1. IsFiniteSet(DOMAIN raw) /\ Cardinality(DOMAIN raw) = Len(raw) /\ Len(raw) \in Nat
  <2>1. DOMAIN raw = 1..Len(raw) /\ Len(raw) \in Nat
    OBVIOUS
  <2>2. IsFiniteSet(1..Len(raw)) /\ Cardinality(1..Len(raw)) = Len(raw)
    BY <2>1, FS_Interval
  <2> QED BY <2>1, <2>2
<1>2. \A i \in DOMAIN raw : LineOf(raw, i) \in Nat
  BY <1>1, LineOfMonotone
<1>3. below(a) \in SUBSET below(b) /\ below(b) \in SUBSET DOMAIN raw
  BY <1>2
<1>4. b > 0 => below(b) = {i \in DOMAIN raw : LineOf(raw, i) <= b - 1}
  BY <1>2
<1>5. /\ Before(raw, a) = Cardinality(below(a)) /\ Before(raw, b) = Cardinality(below(b))
      /\ b > 0 => Excerpt(raw, a, b - 1) =
                    SubSeq(raw, Cardinality(below(a)) + 1, Cardinality(below(b)))
  BY <1>4 DEF Before, Excerpt
<1> HIDE DEF below
<1>6. /\ IsFiniteSet(below(b)) /\ IsFiniteSet(below(a))
      /\ Cardinality(below(a)) <= Cardinality(below(b)) /\ Cardinality(below(b)) <= Len(raw)
  BY <1>1, <1>3, FS_Subset
<1>7. Cardinality(below(a)) \in Nat /\ Cardinality(below(b)) \in Nat
  BY <1>6, FS_CardinalityType
<1> QED BY <1>1, <1>5, <1>6, <1>7

(* Records that follow each other from the first line to the last one have *)
(* excerpts that make up the text.                                         *)
LEMMA AdjacentJoin ==
  ASSUME NEW C, NEW raw \in Seq(C), NEW D, NEW rows \in Tables(D), rows # <<>>, Adjacent(rows),
         \A i \in DOMAIN raw : LineOf(raw, i) <= rows[Len(rows)].lineEnd
  PROVE  Joined(raw, rows) = raw
<1> DEFINE n == Len(rows)
           at(k) == FirstOf(rows, k + 1)
           Joins(f) == f = [k \in 0..n |->
                              IF k = 0 THEN <<>>
                              ELSE f[k - 1] \o Excerpt(raw, rows[k].lineStart, rows[k].lineEnd)]
           g == [k \in 0..n |-> SubSeq(raw, 1, Before(raw, at(k)))]
<1>1. /\ n \in Nat \ {0} /\ Len(raw) \in Nat
      /\ \A k \in 1..n : rows[k].lineStart \in Nat /\ rows[k].lineEnd \in Nat
  <2>1. rows \in Seq([lineStart : Nat, lineEnd : Nat, cells : Seq(Seq(D))])
    BY DEF Tables
  <2>2. n \in Nat \ {0}
    BY <2>1
  <2>3. \A k \in 1..n : rows[k] \in [lineStart : Nat, lineEnd : Nat, cells : Seq(Seq(D))]
    BY <2>1, ElementOf
  <2> QED BY <2>2, <2>3
<1>2. /\ at(0) = 1
      /\ \A k \in 1..n : /\ at(k - 1) = rows[k].lineStart
                         /\ at(k) = rows[k].lineEnd + 1
                         /\ at(k - 1) \in Nat /\ at(k) \in Nat \ {0} /\ at(k - 1) <= at(k)
  <2>1. at(0) = 1
    BY DEF FirstOf
  <2>2. ASSUME NEW k \in 1..n
        PROVE  at(k - 1) = rows[k].lineStart /\ at(k) = rows[k].lineEnd + 1
               /\ rows[k].lineStart <= rows[k].lineEnd
    BY <1>1 DEF FirstOf, Adjacent
  <2> HIDE DEF at
  <2> QED BY <1>1, <2>1, <2>2
<1> HIDE DEF at
<1>3. g[0] = <<>>
  <2>1. {i \in DOMAIN raw : LineOf(raw, i) < 1} = {}
    BY <1>1, LineOfMonotone
  <2>2. Before(raw, 1) = 0
    BY <2>1, FS_EmptySet DEF Before
  <2> QED BY <1>1, <1>2, <2>2
<1>4. ASSUME NEW k \in 1..n
      PROVE  g[k] = g[k - 1] \o Excerpt(raw, rows[k].lineStart, rows[k].lineEnd)
  <2>1. PICK a \in Nat, b \in Nat : a = at(k - 1) /\ b = at(k)
    BY <1>2
  <2>2. /\ a = rows[k].lineStart /\ b - 1 = rows[k].lineEnd /\ a <= b /\ b > 0
        /\ k - 1 \in 0..n /\ k \in 0..n
    BY <1>1, <1>2, <2>1
  <2>3. /\ Before(raw, a) \in 0..Len(raw) /\ Before(raw, b) \in 0..Len(raw)
        /\ Before(raw, a) <= Before(raw, b)
        /\ Excerpt(raw, a, b - 1) = SubSeq(raw, Before(raw, a) + 1, Before(raw, b))
    BY <2>2, BeforeIs
  <2>4. 1 \in 1..Len(raw) + 1 /\ Before(raw, a) \in 1 - 1..Len(raw)
        /\ Before(raw, b) \in Before(raw, a)..Len(raw)
    BY <1>1, <2>3
  <2>5. SubSeq(raw, 1, Before(raw, a)) \o SubSeq(raw, Before(raw, a) + 1, Before(raw, b)) =
          SubSeq(raw, 1, Before(raw, b))
    BY <2>4, ConcatAdjacentSubSeq
  <2>6. g[k] = SubSeq(raw, 1, Before(raw, b)) /\ g[k - 1] = SubSeq(raw, 1, Before(raw, a))
    BY <2>1, <2>2
  <2> QED BY <2>2, <2>3, <2>5, <2>6
<1>5. g[n] = raw
  <2>1. PICK b \in Nat : b = at(n) /\ b = rows[n].lineEnd + 1
    BY <1>1, <1>2
  <2>2. \A i \in DOMAIN raw : LineOf(raw, i) \in Nat
    BY <1>1, LineOfMonotone
  <2>3. ASSUME NEW i \in DOMAIN raw PROVE LineOf(raw, i) < b
    <3>1. LineOf(raw, i) <= rows[n].lineEnd /\ rows[n].lineEnd \in Nat
      BY <1>1
    <3> QED BY <2>1, <2>2, <3>1
  <2>4. Before(raw, b) = Len(raw)
    <3>1. {i \in DOMAIN raw : LineOf(raw, i) < b} = DOMAIN raw
      BY <2>3
    <3>2. DOMAIN raw = 1..Len(raw) /\ Len(raw) \in Nat
      OBVIOUS
    <3>3. Cardinality(1..Len(raw)) = Len(raw)
      <4>1. \A k \in Nat : Cardinality(1..k) = k
        BY FS_Interval
      <4> QED BY <3>2, <4>1
    <3> QED BY <3>1, <3>2, <3>3 DEF Before
  <2>5. g[n] = SubSeq(raw, 1, Len(raw))
    <3>1. n \in 0..n
      BY <1>1
    <3> QED BY <2>1, <2>4, <3>1
  <2> QED BY <2>5, SubSeqFull
<1>6. Joins(g)
  <2>1. ASSUME NEW k \in 0..n
        PROVE  g[k] = IF k = 0 THEN <<>>
                      ELSE g[k - 1] \o Excerpt(raw, rows[k].lineStart, rows[k].lineEnd)
    <3>1. k = 0 \/ k \in 1..n
      BY <1>1
    <3> HIDE DEF g
    <3> QED BY <1>3, <1>4, <3>1
  <2>2. g = [k \in 0..n |-> g[k]]
    OBVIOUS
  <2> HIDE DEF g
  <2> QED BY <2>1, <2>2
<1> HIDE DEF g
<1>7. PICK f : Joins(f) /\ Joined(raw, rows) = f[n]
  BY <1>6 DEF Joined
<1>8. {k \in 0..n : f[k] # g[k]} = {}
  <2> DEFINE T == {k \in 0..n : f[k] # g[k]}
  <2> SUFFICES ASSUME T # {} PROVE FALSE
    OBVIOUS
  <2>1. T \in SUBSET Nat
    BY <1>1
  <2>2. PICK m \in T : \A k \in T : m <= k
    <3> HIDE DEF T
    <3> QED BY <2>1, LeastOf
  <2>3. m # 0
    BY <1>1, <1>3, <1>7, <2>2
  <2>4. m \in 1..n /\ m - 1 \in 0..n /\ ~(m <= m - 1)
    BY <1>1, <2>2, <2>3
  <2>5. f[m - 1] = g[m - 1]
    BY <2>2, <2>4
  <2>6. f[m] = f[m - 1] \o Excerpt(raw, rows[m].lineStart, rows[m].lineEnd)
    BY <1>7, <2>2, <2>3
  <2>7. f[m] = g[m]
    BY <1>4, <2>4, <2>5, <2>6
  <2> QED BY <2>2, <2>7
<1>9. n \in 0..n
  BY <1>1
<1>10. f[n] = g[n]
  BY <1>8, <1>9
<1> QED BY <1>5, <1>7, <1>10

(* "rawExcerpt" of all records, one after another, is the original: no     *)
(* line is lost, and none is quoted twice, for every text and every release. *)
THEOREM ExcerptsAreWhole ==
  ASSUME NEW C, NEW raw \in Seq(C), NEW release \in DOMAIN CellLimit
  PROVE  Tiled(raw, release)
<1>1. PICK t : t = ParseCsv(raw, release)
  OBVIOUS
<1>2. SUFFICES ASSUME t.records # <<>> PROVE Joined(raw, t.records) = raw
  BY <1>1 DEF Tiled
<1>3. PICK D : t.records \in Tables(D)
  BY <1>1, ParsedIs
<1>4. /\ Adjacent(t.records)
      /\ \A i \in DOMAIN raw : LineOf(raw, i) <= t.records[Len(t.records)].lineEnd
  BY <1>1, <1>2, ParsedIs
<1> QED BY <1>2, <1>3, <1>4, AdjacentJoin

-----------------------------------------------------------------------------
(* Finite sets of numbers in order: an element's rank is its place.        *)
LEMMA RankIs ==
  ASSUME NEW S \in SUBSET Nat, IsFiniteSet(S)
  PROVE  /\ Cardinality(S) \in Nat
         /\ \A x \in S : Rank(S, x) \in 1..Cardinality(S)
         /\ \A x, y \in S : x < y => Rank(S, x) < Rank(S, y)
<1> DEFINE upto(x) == {y \in S : y <= x}
<1>0. S \subseteq Nat
  OBVIOUS
<1>1. \A x \in S : /\ IsFiniteSet(upto(x)) /\ Cardinality(upto(x)) \in Nat
                   /\ Cardinality(upto(x)) <= Cardinality(S)
                   /\ Cardinality(S) \in Nat
  <2> TAKE x \in S
  <2>1. upto(x) \in SUBSET S
    OBVIOUS
  <2> HIDE DEF upto
  <2> QED BY <2>1, FS_Subset, FS_CardinalityType
<1>2. ASSUME NEW x \in S PROVE Cardinality(upto(x)) # 0
  <2>1. x \in upto(x)
    OBVIOUS
  <2> HIDE DEF upto
  <2> QED BY <1>1, <2>1, FS_EmptySet
<1>3. ASSUME NEW x \in S, NEW y \in S, x < y PROVE Cardinality(upto(x)) < Cardinality(upto(y))
  <2>1. upto(x) \in SUBSET upto(y) /\ y \in upto(y) /\ y \notin upto(x)
    <3>1. x \in Nat /\ y \in Nat /\ \A z \in S : z \in Nat
      OBVIOUS
    <3>2. \A z \in Nat : z <= x => z <= y
      BY <1>3, <3>1
    <3>3. y <= y /\ ~(y <= x)
      BY <1>3, <3>1
    <3> QED BY <3>1, <3>2, <3>3
  <2> HIDE DEF upto
  <2> QED BY <1>1, <2>1, FS_Subset
<1>4. \A x : Rank(S, x) = Cardinality(upto(x))
  BY DEF Rank
<1>5. Cardinality(S) \in Nat
  BY FS_CardinalityType
<1> HIDE DEF upto
<1>6. \A x \in S : Rank(S, x) \in 1..Cardinality(S)
  BY <1>1, <1>2, <1>4
<1>7. ASSUME NEW x \in S, NEW y \in S, x < y PROVE Rank(S, x) < Rank(S, y)
  BY <1>3, <1>4, <1>7
<1> QED BY <1>5, <1>6, <1>7

LEMMA SortedIs ==
  ASSUME NEW S \in SUBSET Nat, IsFiniteSet(S)
  PROVE  /\ Cardinality(S) \in Nat
         /\ Sorted(S) \in [1..Cardinality(S) -> S] /\ Sorted(S) \in Seq(S)
         /\ Len(Sorted(S)) = Cardinality(S)
         /\ \A x \in S : Rank(S, x) \in 1..Cardinality(S) /\ Sorted(S)[Rank(S, x)] = x
         /\ \A k \in 1..Cardinality(S) : Rank(S, Sorted(S)[k]) = k
<1> DEFINE n == Cardinality(S)
           rank == [x \in S |-> Rank(S, x)]
           image == {Rank(S, x) : x \in S}
<1>1. /\ n \in Nat /\ \A x \in S : Rank(S, x) \in 1..n
      /\ \A x, y \in S : x # y => Rank(S, x) # Rank(S, y)
  <2>1. ASSUME NEW x \in S, NEW y \in S, x # y PROVE Rank(S, x) # Rank(S, y)
    <3>1. x < y \/ y < x
      BY <2>1
    <3>2. Rank(S, x) \in 1..n /\ Rank(S, y) \in 1..n /\ n \in Nat
      BY RankIs
    <3> QED BY <3>1, <3>2, RankIs
  <2> QED BY <2>1, RankIs
<1>2. image = 1..n
  <2>1. IsFiniteSet(1..n) /\ Cardinality(1..n) = n
    BY <1>1, FS_Interval
  <2>2. image \in SUBSET (1..n)
    BY <1>1
  <2>3. rank \in Bijection(S, image)
    <3>1. rank \in [S -> image]
      OBVIOUS
    <3>2. \A x, y \in S : rank[x] = rank[y] => x = y
      BY <1>1
    <3>3. \A r \in image : \E x \in S : rank[x] = r
      OBVIOUS
    <3> HIDE DEF n, rank, image
    <3> QED BY <3>1, <3>2, <3>3 DEF Bijection, Injection, Surjection, IsInjective
  <2> HIDE DEF image, rank, n
  <2>4. IsFiniteSet(image) /\ Cardinality(image) = n
    BY <2>3, FS_Bijection DEF n, ExistsBijection
  <2> QED BY <2>1, <2>2, <2>4, FS_Subset
<1>3. ASSUME NEW k \in 1..n PROVE Sorted(S)[k] \in S /\ Rank(S, Sorted(S)[k]) = k
  <2>1. PICK x \in S : Rank(S, x) = k
    BY <1>2
  <2>2. Sorted(S)[k] = CHOOSE y \in S : Rank(S, y) = k
    BY DEF Sorted
  <2> QED BY <2>1, <2>2
<1>4. DOMAIN Sorted(S) = 1..n
  BY DEF Sorted
<1>5. Sorted(S) \in [1..n -> S]
  <2>1. Sorted(S) = [k \in 1..n |-> Sorted(S)[k]]
    BY DEF Sorted
  <2> HIDE DEF n
  <2> QED BY <1>3, <2>1
<1>6. ASSUME NEW x \in S PROVE Rank(S, x) \in 1..n /\ Sorted(S)[Rank(S, x)] = x
  <2>1. Rank(S, x) \in 1..n
    BY <1>1
  <2>2. Sorted(S)[Rank(S, x)] \in S /\ Rank(S, Sorted(S)[Rank(S, x)]) = Rank(S, x)
    BY <1>3, <2>1
  <2> QED BY <1>1, <2>1, <2>2
<1> HIDE DEF n
<1>7. Sorted(S) \in Seq(S) /\ Len(Sorted(S)) = n
  BY <1>1, <1>5
<1> QED BY <1>1, <1>3, <1>5, <1>6, <1>7 DEF n

(* A greater element comes last.                                           *)
LEMMA SortedAppend ==
  ASSUME NEW S \in SUBSET Nat, IsFiniteSet(S), NEW m \in Nat, \A x \in S : x < m
  PROVE  /\ Cardinality(S \cup {m}) = Cardinality(S) + 1
         /\ Sorted(S \cup {m})[Cardinality(S) + 1] = m
         /\ \A k \in 1..Cardinality(S) : Sorted(S \cup {m})[k] = Sorted(S)[k]
<1> DEFINE T == S \cup {m}
           n == Cardinality(S)
<1>1. /\ T \in SUBSET Nat /\ IsFiniteSet(T) /\ Cardinality(T) = n + 1
      /\ n \in Nat
  <2>1. m \notin S
    OBVIOUS
  <2> QED BY <2>1, FS_AddElement, FS_CardinalityType
<1>2. ASSUME NEW x \in S PROVE Rank(T, x) = Rank(S, x)
  <2>1. {y \in T : y <= x} = {y \in S : y <= x}
    OBVIOUS
  <2> QED BY <2>1 DEF Rank
<1>3. Rank(T, m) = n + 1
  <2>1. \A y \in T : y \in Nat /\ y <= m
    <3>1. \A y \in S : y \in Nat /\ y < m
      OBVIOUS
    <3> QED BY <3>1
  <2>2. {y \in T : y <= m} = T
    BY <2>1
  <2> QED BY <1>1, <2>2 DEF Rank
<1>4. ASSUME NEW k \in 1..n PROVE Sorted(T)[k] = Sorted(S)[k]
  <2>1. PICK x \in S : Sorted(S)[k] = x /\ Rank(S, x) = k
    <3>1. Sorted(S)[k] \in S
      BY SortedIs
    <3>2. PICK x \in S : x = Sorted(S)[k]
      BY <3>1
    <3>3. Rank(S, x) = k
      BY <3>2, SortedIs
    <3> QED BY <3>2, <3>3
  <2>2. Rank(T, x) = k /\ x \in T
    BY <1>2, <2>1
  <2>3. Sorted(T)[Rank(T, x)] = x
    BY <1>1, <2>2, SortedIs
  <2> QED BY <2>1, <2>2, <2>3
<1>5. Sorted(T)[n + 1] = m
  <2>1. m \in T
    OBVIOUS
  <2>2. Sorted(T)[Rank(T, m)] = m
    BY <1>1, <2>1, SortedIs
  <2> QED BY <1>3, <2>2
<1> QED BY <1>1, <1>4, <1>5

-----------------------------------------------------------------------------
(* The characters and the cells at a set of positions.                     *)
LEMMA PlacesFinite ==
  ASSUME NEW n \in Nat, NEW S \in SUBSET (1..n)
  PROVE  IsFiniteSet(S) /\ S \in SUBSET Nat /\ Cardinality(S) \in Nat
<1>1. IsFiniteSet(1..n)
  BY FS_Interval
<1>2. IsFiniteSet(S)
  BY <1>1, FS_Subset
<1> QED BY <1>2, FS_CardinalityType

(* The characters at some positions; a position to the right comes last.   *)
LEMMA CharactersAre ==
  ASSUME NEW C, NEW t \in Seq(C), NEW S \in SUBSET (1..Len(t))
  PROVE  Characters(t, S) \in Seq(C) /\ Len(Characters(t, S)) = Cardinality(S)
<1> DEFINE n == Cardinality(S)
<1>1. Len(t) \in Nat
  OBVIOUS
<1>2. IsFiniteSet(S) /\ S \in SUBSET Nat /\ n \in Nat
  BY <1>1, PlacesFinite
<1>3. Sorted(S) \in [1..n -> S]
  BY <1>2, SortedIs
<1>4. ASSUME NEW k \in 1..n PROVE t[Sorted(S)[k]] \in C
  <2>1. Sorted(S)[k] \in 1..Len(t)
    BY <1>3
  <2> QED BY <2>1, ElementOf
<1>5. Characters(t, S) = [k \in 1..n |-> t[Sorted(S)[k]]]
  BY DEF Characters
<1> HIDE DEF n
<1>6. Characters(t, S) \in [1..n -> C]
  BY <1>4, <1>5
<1>7. Characters(t, S) \in Seq(C) /\ Len(Characters(t, S)) = n
  BY <1>2, <1>6
<1> QED BY <1>7 DEF n

LEMMA CharactersAppend ==
  ASSUME NEW C, NEW t \in Seq(C), NEW S \in SUBSET (1..Len(t)), NEW m \in 1..Len(t),
         \A x \in S : x < m
  PROVE  Characters(t, S \cup {m}) = Characters(t, S) \o <<t[m]>>
<1> DEFINE n == Cardinality(S)
           T == S \cup {m}
           s == Characters(t, S)
           r == Characters(t, T)
<1>1. Len(t) \in Nat /\ m \in Nat /\ T \in SUBSET (1..Len(t))
  OBVIOUS
<1>2. IsFiniteSet(S) /\ S \in SUBSET Nat /\ n \in Nat
  BY <1>1, PlacesFinite
<1>3. /\ Cardinality(T) = n + 1 /\ Sorted(T)[n + 1] = m
      /\ \A k \in 1..n : Sorted(T)[k] = Sorted(S)[k]
  BY <1>1, <1>2, SortedAppend
<1>4. s \in Seq(C) /\ Len(s) = n /\ r \in Seq(C) /\ Len(r) = n + 1
  BY <1>1, <1>3, CharactersAre
<1>5. s = [k \in 1..n |-> t[Sorted(S)[k]]] /\ r = [k \in 1..(n + 1) |-> t[Sorted(T)[k]]]
  BY <1>3 DEF Characters
<1>6. t[m] \in C
  BY ElementOf
<1> HIDE DEF s, r, n, T
<1>7. ASSUME NEW k \in 1..(n + 1) PROVE r[k] = (s \o <<t[m]>>)[k]
  <2>1. CASE k = n + 1
    <3>1. r[k] = t[m]
      BY <1>3, <1>5, <2>1
    <3>2. (s \o <<t[m]>>)[k] = t[m]
      BY <1>2, <1>4, <1>6, <2>1
    <3> QED BY <3>1, <3>2
  <2>2. CASE k # n + 1
    <3>1. k \in 1..n
      BY <1>2, <2>2
    <3>2. r[k] = s[k]
      BY <1>3, <1>5, <3>1
    <3>3. (s \o <<t[m]>>)[k] = s[k]
      BY <1>2, <1>4, <1>6, <3>1
    <3> QED BY <3>2, <3>3
  <2> QED BY <2>1, <2>2
<1>8. s \o <<t[m]>> \in Seq(C) /\ Len(s \o <<t[m]>>) = n + 1
  BY <1>4, <1>6
<1>9. r = s \o <<t[m]>>
  BY <1>4, <1>7, <1>8
<1> QED BY <1>9 DEF r, s, T

(* The positions of a cell's characters.                                   *)
Inside(t, d) == {i \in Content(t) : i < d /\ \A c \in Cuts(t) : c < d => c < i}

LEMMA CellIs ==
  ASSUME NEW C, NEW t \in Seq(C), NEW d
  PROVE  /\ Inside(t, d) \in SUBSET (1..Len(t))
         /\ Cell(t, d) = Characters(t, Inside(t, d)) /\ Cell(t, d) \in Seq(C)
         /\ Len(Cell(t, d)) = Cardinality(Inside(t, d))
<1>1. Inside(t, d) \in SUBSET (1..Len(t))
  BY DEF Inside, Content
<1>2. Cell(t, d) = Characters(t, Inside(t, d))
  BY DEF Cell, Inside
<1> QED BY <1>1, <1>2, CharactersAre

LEMMA CellsAre ==
  ASSUME NEW C, NEW t \in Seq(C), NEW n \in Nat, NEW D \in SUBSET (1..n)
  PROVE  /\ Cells(t, D) \in Seq(Seq(C)) /\ Len(Cells(t, D)) = Cardinality(D)
         /\ \A d \in D : /\ Rank(D, d) \in 1..Cardinality(D)
                         /\ Cells(t, D)[Rank(D, d)] = Cell(t, d)
<1> DEFINE m == Cardinality(D)
<1>1. IsFiniteSet(D) /\ D \in SUBSET Nat /\ m \in Nat
  BY PlacesFinite
<1>2. Cells(t, D) = [k \in 1..m |-> Cell(t, Sorted(D)[k])]
  BY DEF Cells
<1>3. \A k \in 1..m : Cell(t, Sorted(D)[k]) \in Seq(C)
  BY CellIs
<1>4. \A d \in D : Rank(D, d) \in 1..m /\ Sorted(D)[Rank(D, d)] = d
  BY <1>1, SortedIs
<1> HIDE DEF m
<1>5. Cells(t, D) \in [1..m -> Seq(C)]
  BY <1>2, <1>3
<1>6. Cells(t, D) \in Seq(Seq(C)) /\ Len(Cells(t, D)) = m
  BY <1>1, <1>5
<1> QED BY <1>2, <1>4, <1>6 DEF m

LEMMA CellsAppend ==
  ASSUME NEW C, NEW t \in Seq(C), NEW n \in Nat, NEW D \in SUBSET (1..n), NEW m \in 1..n,
         \A x \in D : x < m
  PROVE  Cells(t, D \cup {m}) = Append(Cells(t, D), Cell(t, m))
<1> DEFINE w == Cardinality(D)
           T == D \cup {m}
           s == Cells(t, D)
           r == Cells(t, T)
<1>1. m \in Nat /\ T \in SUBSET (1..n)
  OBVIOUS
<1>2. IsFiniteSet(D) /\ D \in SUBSET Nat /\ w \in Nat
  BY PlacesFinite
<1>3. /\ Cardinality(T) = w + 1 /\ Sorted(T)[w + 1] = m
      /\ \A k \in 1..w : Sorted(T)[k] = Sorted(D)[k]
  BY <1>1, <1>2, SortedAppend
<1>4. s \in Seq(Seq(C)) /\ Len(s) = w /\ r \in Seq(Seq(C)) /\ Len(r) = w + 1
  BY <1>1, <1>3, CellsAre
<1>5. s = [k \in 1..w |-> Cell(t, Sorted(D)[k])] /\ r = [k \in 1..(w + 1) |-> Cell(t, Sorted(T)[k])]
  BY <1>3 DEF Cells
<1>6. Cell(t, m) \in Seq(C)
  BY CellIs
<1> HIDE DEF s, r, w, T
<1>7. ASSUME NEW k \in 1..(w + 1) PROVE r[k] = Append(s, Cell(t, m))[k]
  <2>1. CASE k = w + 1
    BY <1>2, <1>3, <1>4, <1>5, <1>6, <2>1
  <2>2. CASE k # w + 1
    <3>1. k \in 1..w
      BY <1>2, <2>2
    <3>2. r[k] = s[k]
      BY <1>3, <1>5, <3>1
    <3> QED BY <1>2, <1>4, <1>6, <3>1, <3>2
  <2> QED BY <2>1, <2>2
<1>8. Append(s, Cell(t, m)) \in Seq(Seq(C)) /\ Len(Append(s, Cell(t, m))) = w + 1
  BY <1>4, <1>6
<1>9. r = Append(s, Cell(t, m))
  BY <1>4, <1>7, <1>8
<1> QED BY <1>9 DEF r, s, T

(* A quote, and nothing else, leads inside or outside.                     *)
LEMMA OutsideFirst == ASSUME NEW C, NEW t \in Seq(C) PROVE Outside(t, 1)
<1>1. {j \in DOMAIN t : j < 1 /\ t[j] = Quote} = {}
  OBVIOUS
<1>2. 0 % 2 = 0
  OBVIOUS
<1> QED BY <1>1, <1>2, FS_EmptySet DEF Outside

LEMMA OutsideNext ==
  ASSUME NEW C, NEW t \in Seq(C), NEW i \in 1..Len(t)
  PROVE  Outside(t, i + 1) <=> (Outside(t, i) <=> t[i] # Quote)
<1> DEFINE before(k) == {j \in DOMAIN t : j < k /\ t[j] = Quote}
<1>1. Len(t) \in Nat /\ DOMAIN t = 1..Len(t)
  OBVIOUS
<1>2. IsFiniteSet(before(i)) /\ Cardinality(before(i)) \in Nat
  <2>1. before(i) \in SUBSET (1..Len(t))
    BY <1>1
  <2> HIDE DEF before
  <2> QED BY <1>1, <2>1, PlacesFinite
<1>3. CASE t[i] = Quote
  <2>1. before(i + 1) = before(i) \cup {i} /\ i \notin before(i)
    BY <1>1, <1>3
  <2> HIDE DEF before
  <2>2. Cardinality(before(i + 1)) = Cardinality(before(i)) + 1
    BY <1>2, <2>1, FS_AddElement
  <2>3. Cardinality(before(i + 1)) % 2 = 0 <=> ~(Cardinality(before(i)) % 2 = 0)
    BY <1>2, <2>2
  <2> QED BY <1>3, <2>3 DEF Outside, before
<1>4. CASE t[i] # Quote
  <2>1. before(i + 1) = before(i)
    BY <1>1, <1>4
  <2> QED BY <1>4, <2>1 DEF Outside
<1> QED BY <1>3, <1>4

-----------------------------------------------------------------------------
(* b is the last line end up to i, or 0; b and e end consecutive records.  *)
LFs(t) == Separators(t, LF)
Since(t, i, b) == b \in 0..i /\ (b # 0 => b \in LFs(t)) /\ \A e \in LFs(t) : e <= i => e <= b
Spans(t, b, e) ==
  /\ b \in 0..Len(t) /\ (b # 0 => b \in LFs(t))
  /\ e \in Ends(t) /\ b < e /\ \A x \in Ends(t) : x < e => x <= b
Between(t, b, i) == {d \in Cuts(t) : b < d /\ d <= i}
Complete(t, b) == {x \in LFs(t) : x <= b}

LEMMA EndsAre ==
  ASSUME NEW C, NEW t \in Seq(C), t # <<>>
  PROVE  /\ Len(t) \in Nat \ {0}
         /\ LFs(t) \in SUBSET (1..Len(t)) /\ Ends(t) \in SUBSET (1..(Len(t) + 1))
         /\ Cuts(t) \in SUBSET (1..(Len(t) + 1)) /\ Ends(t) \subseteq Cuts(t)
         /\ \A i \in 1..Len(t) : /\ i \in LFs(t) <=> t[i] = LF /\ Outside(t, i)
                                 /\ i \in Ends(t) <=> i \in LFs(t)
                                 /\ i \in Cuts(t) <=> t[i] \in {LF, Comma} /\ Outside(t, i)
         /\ Len(t) + 1 \in Ends(t) <=> Len(t) \notin LFs(t)
<1>1. Len(t) \in Nat \ {0} /\ DOMAIN t = 1..Len(t)
  OBVIOUS
<1>2. LFs(t) \in SUBSET (1..Len(t)) /\ Separators(t, Comma) \in SUBSET (1..Len(t))
  BY <1>1 DEF LFs, Separators
<1>3. Ends(t) = LFs(t) \cup {n \in {Len(t) + 1} : Len(t) \notin LFs(t)}
  BY DEF Ends, LFs
<1>4. Cuts(t) = Ends(t) \cup Separators(t, Comma)
  BY DEF Cuts
<1>5. \A i \in 1..Len(t) : i # Len(t) + 1 /\ i \in 1..(Len(t) + 1)
  BY <1>1
<1>6. \A i \in 1..Len(t) : i \in Ends(t) <=> i \in LFs(t)
  BY <1>3, <1>5
<1>7. \A i \in 1..Len(t) : i \in LFs(t) <=> t[i] = LF /\ Outside(t, i)
  BY <1>1 DEF LFs, Separators
<1>8. \A i \in 1..Len(t) : i \in Cuts(t) <=> t[i] \in {LF, Comma} /\ Outside(t, i)
  BY <1>1, <1>4, <1>6, <1>7 DEF Separators
<1>9. Len(t) + 1 \in 1..(Len(t) + 1) /\ Len(t) + 1 \notin 1..Len(t)
  BY <1>1
<1>10. Ends(t) \in SUBSET (1..(Len(t) + 1)) /\ Cuts(t) \in SUBSET (1..(Len(t) + 1))
  BY <1>2, <1>3, <1>4, <1>5, <1>9
<1>11. Len(t) + 1 \in Ends(t) <=> Len(t) \notin LFs(t)
  BY <1>2, <1>3, <1>9
<1> QED BY <1>1, <1>2, <1>4, <1>6, <1>7, <1>8, <1>10, <1>11

(* The record between two consecutive ends.                                *)
LEMMA RecordAtIs ==
  ASSUME NEW C, NEW t \in Seq(C), t # <<>>, NEW b, NEW e, Spans(t, b, e),
         NEW k, k = Cardinality(Complete(t, b)) + 1
  PROVE  /\ k \in 1..Cardinality(Ends(t)) /\ Cardinality(Ends(t)) \in Nat
         /\ RecordAt(t, k) = [lineStart |-> LineOf(t, b + 1), lineEnd |-> LineOf(t, e),
                              cells |-> Cells(t, Between(t, b, e))]
<1> DEFINE S == Ends(t)
           P == Complete(t, b)
           n == Len(t)
<1>1. /\ n \in Nat \ {0} /\ S \in SUBSET (1..(n + 1)) /\ LFs(t) \in SUBSET (1..n)
      /\ \A i \in 1..n : i \in S <=> i \in LFs(t)
  BY EndsAre
<1>2. /\ b \in 0..n /\ (b # 0 => b \in LFs(t))
      /\ e \in S /\ b < e /\ \A x \in S : x < e => x <= b
  BY DEF Spans
<1>3. n + 1 \in Nat
  BY <1>1
<1>4. /\ IsFiniteSet(S) /\ S \in SUBSET Nat /\ Cardinality(S) \in Nat
  BY <1>1, <1>3, PlacesFinite
<1>5. P \in SUBSET (1..n)
  BY <1>1 DEF Complete
<1>6. IsFiniteSet(P) /\ Cardinality(P) \in Nat
  BY <1>1, <1>5, PlacesFinite
<1> HIDE DEF S
<1>7. Rank(S, e) = k
  <2>1. {y \in S : y <= e} = P \cup {e}
    <3>1. ASSUME NEW y \in S, y <= e, y # e PROVE y \in P
      <4>1. y < e /\ y \in Nat
        BY <1>1, <1>2, <3>1
      <4>2. y <= b /\ y \in 1..n
        BY <1>1, <1>2, <4>1
      <4> QED BY <1>1, <4>2 DEF Complete
    <3>2. ASSUME NEW y \in P PROVE y \in S /\ y <= e
      <4>1. y \in LFs(t) /\ y <= b
        BY DEF Complete
      <4> QED BY <1>1, <1>2, <4>1
    <3>3. e <= e
      BY <1>1, <1>2
    <3> HIDE DEF P
    <3> QED BY <1>2, <3>1, <3>2, <3>3
  <2>2. e \notin P
    <3>1. ~(e <= b)
      BY <1>1, <1>2
    <3> QED BY <3>1 DEF Complete
  <2>3. k = Cardinality(P) + 1
    OBVIOUS
  <2> HIDE DEF P
  <2>4. Cardinality(P \cup {e}) = Cardinality(P) + 1
    BY <1>6, <2>2, FS_AddElement
  <2> QED BY <2>1, <2>3, <2>4 DEF Rank
<1>8. k \in 1..Cardinality(S) /\ Sorted(S)[k] = e
  BY <1>2, <1>4, <1>7, SortedIs
<1>9. CASE b = 0
  <2>1. P = {}
    BY <1>1, <1>9 DEF Complete
  <2>2. k = 1
    BY <2>1, FS_EmptySet
  <2> QED BY <1>4, <1>8, <1>9, <2>2 DEF RecordAt, S, Between
<1>10. CASE b # 0
  <2>1. b \in S /\ b \in LFs(t) /\ b \in Nat
    BY <1>1, <1>2, <1>10
  <2>2. {y \in S : y <= b} = P
    <3>1. ASSUME NEW y \in S, y <= b PROVE y \in P
      <4>1. y \in 1..n
        BY <1>1, <1>2, <3>1
      <4> QED BY <1>1, <3>1, <4>1 DEF Complete
    <3>2. \A y \in P : y \in S /\ y <= b
      BY <1>1 DEF Complete
    <3> HIDE DEF P
    <3> QED BY <3>1, <3>2
  <2>3. Rank(S, b) = k - 1
    <3>1. Rank(S, b) = Cardinality(P)
      BY <2>2 DEF Rank
    <3>2. k = Cardinality(P) + 1
      OBVIOUS
    <3> HIDE DEF P
    <3> QED BY <1>6, <3>1, <3>2
  <2>4. k - 1 \in 1..Cardinality(S) /\ Sorted(S)[k - 1] = b
    BY <1>4, <2>1, <2>3, SortedIs
  <2>5. k # 1
    BY <1>6, <2>4
  <2> QED BY <1>4, <1>8, <1>10, <2>4, <2>5 DEF RecordAt, S, Between
<1> QED BY <1>9, <1>10

(* There is a next end and a next cut as long as the last one is ahead.    *)
LEMMA NextEnd ==
  ASSUME NEW C, NEW t \in Seq(C), t # <<>>, NEW i \in 0..Len(t), NEW b, Since(t, i, b),
         i = Len(t) => Len(t) \notin LFs(t)
  PROVE  \E e \in Ends(t), d \in Cuts(t) :
           /\ Spans(t, b, e) /\ i < d /\ d <= e
           /\ \A c \in Cuts(t) : c < d => c <= i
<1> DEFINE n == Len(t)
           E == {x \in Ends(t) : i < x}
           D == {x \in Cuts(t) : i < x}
<1>1. /\ n \in Nat \ {0} /\ Ends(t) \in SUBSET (1..(n + 1)) /\ Ends(t) \subseteq Cuts(t)
      /\ Cuts(t) \in SUBSET (1..(n + 1))
      /\ \A k \in 1..n : k \in Ends(t) <=> k \in LFs(t)
      /\ n + 1 \in Ends(t) <=> n \notin LFs(t)
  BY EndsAre
<1>2. E # {}
  <2>1. CASE n \in LFs(t)
    <3>1. n \in Ends(t) /\ i < n
      BY <1>1, <2>1
    <3> QED BY <3>1
  <2>2. CASE n \notin LFs(t)
    <3>1. n + 1 \in Ends(t) /\ i < n + 1
      BY <1>1, <2>2
    <3> QED BY <3>1
  <2> QED BY <2>1, <2>2
<1>3. E \subseteq D /\ E \in SUBSET Nat /\ D \in SUBSET Nat /\ D # {}
  BY <1>1, <1>2
<1>4. PICK e \in E : \A x \in E : e <= x
  <2> HIDE DEF E
  <2> QED BY <1>2, <1>3, LeastOf
<1>5. PICK d \in D : \A x \in D : d <= x
  <2> HIDE DEF D
  <2> QED BY <1>3, LeastOf
<1>6. i \in Nat /\ b \in 0..i /\ i <= n
  BY <1>1 DEF Since
<1>7. ASSUME NEW x \in Ends(t), x < e PROVE x <= b
  <2>1. x \in Nat /\ x <= i
    BY <1>1, <1>3, <1>4, <1>6, <1>7
  <2>2. x \in LFs(t)
    BY <1>1, <1>6, <2>1
  <2> QED BY <2>1, <2>2 DEF Since
<1>8. ASSUME NEW x \in Cuts(t), x < d PROVE x <= i
  BY <1>1, <1>3, <1>5, <1>6, <1>8
<1>9. e \in Ends(t) /\ i < e /\ d \in Cuts(t) /\ i < d /\ d <= e
  BY <1>3, <1>4, <1>5
<1>10. b < e
  BY <1>3, <1>4, <1>6, <1>9
<1>11. Spans(t, b, e)
  BY <1>1, <1>6, <1>7, <1>9, <1>10 DEF Spans, Since
<1> QED BY <1>8, <1>9, <1>11

(* The open cell after i characters; a CR waits for its LF.                *)
Reach(t, i) == {j \in Content(t) : j <= i /\ \A c \in Cuts(t) : c <= i => c < j}
Open(t, i) == {j \in Reach(t, i) : j = i => t[j] # CR}

(* What is read of a record fits if the whole table fits.                  *)
LEMMA PartsFit ==
  ASSUME NEW C, NEW t \in Seq(C), t # <<>>, NEW i \in 0..Len(t), NEW b, Since(t, i, b),
         i = Len(t) => Len(t) \notin LFs(t),
         NEW limit \in Nat, Rectangular(Table(t), limit)
  PROVE  /\ Cardinality(Reach(t, i)) <= limit
         /\ Cardinality(Between(t, b, i)) < ColumnLimit
         /\ Cardinality(Complete(t, b)) < RowLimit
<1> DEFINE n == Len(t)
<1>1. /\ n \in Nat \ {0} /\ n + 1 \in Nat /\ Cuts(t) \in SUBSET (1..(n + 1))
      /\ LFs(t) \in SUBSET (1..n)
  BY EndsAre
<1>2. PICK e \in Ends(t), d \in Cuts(t) :
        /\ Spans(t, b, e) /\ i < d /\ d <= e
        /\ \A c \in Cuts(t) : c < d => c <= i
  BY NextEnd
<1>3. PICK k : k = Cardinality(Complete(t, b)) + 1
  OBVIOUS
<1>4. /\ k \in 1..Cardinality(Ends(t)) /\ Cardinality(Ends(t)) \in Nat
      /\ RecordAt(t, k).cells = Cells(t, Between(t, b, e))
  <2>1. /\ k \in 1..Cardinality(Ends(t)) /\ Cardinality(Ends(t)) \in Nat
        /\ RecordAt(t, k) = [lineStart |-> LineOf(t, b + 1), lineEnd |-> LineOf(t, e),
                             cells |-> Cells(t, Between(t, b, e))]
    BY <1>2, <1>3, RecordAtIs
  <2> QED BY <2>1
<1>5. PICK D : D = Between(t, b, e)
  OBVIOUS
<1>6. D \in SUBSET (1..(n + 1)) /\ d \in D
  <2>1. b < d /\ i \in Nat /\ b \in Nat
    BY <1>1, <1>2 DEF Since
  <2> QED BY <1>1, <1>2, <1>5, <2>1 DEF Between
<1>7. /\ Len(Cells(t, D)) = Cardinality(D)
      /\ Rank(D, d) \in 1..Cardinality(D) /\ Cells(t, D)[Rank(D, d)] = Cell(t, d)
      /\ Cells(t, D) \in Seq(Seq(C))
  BY <1>1, <1>6, CellsAre
<1>8. /\ Table(t)[k].cells = Cells(t, D) /\ k \in DOMAIN Table(t)
      /\ Len(Table(t)) = Cardinality(Ends(t))
  <2>1. Table(t) = [m \in 1..Cardinality(Ends(t)) |-> RecordAt(t, m)]
    BY DEF Table
  <2>2. Table(t) \in Seq({RecordAt(t, m) : m \in 1..Cardinality(Ends(t))})
    BY <1>4, <2>1
  <2> QED BY <1>4, <1>5, <2>1, <2>2
<1>9. Small(Cells(t, D), limit) /\ Cardinality(Ends(t)) <= RowLimit
  BY <1>8 DEF Rectangular
<1>10. Cardinality(Complete(t, b)) < RowLimit
  <2>1. Complete(t, b) \in SUBSET (1..n)
    BY <1>1 DEF Complete
  <2>2. Cardinality(Complete(t, b)) \in Nat
    BY <1>1, <2>1, PlacesFinite
  <2> QED BY <1>3, <1>4, <1>9, <2>2, CsvLimitsAssumption
<1>11. Cardinality(Between(t, b, i)) < ColumnLimit
  <2>0. i \in Nat /\ d \in Nat /\ e \in Nat /\ \A c \in Cuts(t) : c \in Nat
    BY <1>1, <1>2, EndsAre
  <2>1. Between(t, b, i) \in SUBSET D /\ d \notin Between(t, b, i)
    <3>1. ~(d <= i) /\ \A c \in Cuts(t) : c <= i => c <= e
      BY <1>2, <2>0
    <3> QED BY <1>5, <3>1 DEF Between
  <2>2. IsFiniteSet(D) /\ Cardinality(D) \in Nat
    BY <1>1, <1>6, PlacesFinite
  <2>3. /\ Cardinality(Between(t, b, i)) <= Cardinality(D)
        /\ Cardinality(Between(t, b, i)) # Cardinality(D)
        /\ Cardinality(Between(t, b, i)) \in Nat
    BY <1>6, <2>1, <2>2, FS_Subset, FS_CardinalityType
  <2>4. Cardinality(D) <= ColumnLimit
    BY <1>7, <1>9 DEF Small
  <2> QED BY <2>2, <2>3, <2>4, CsvLimitsAssumption
<1>12. Cardinality(Reach(t, i)) <= limit
  <2>1. Len(Cell(t, d)) <= limit
    <3>1. DOMAIN Cells(t, D) = 1..Cardinality(D)
      BY <1>7
    <3> QED BY <1>7, <1>9, <3>1 DEF Small
  <2>2. Reach(t, i) \in SUBSET Inside(t, d)
    <3>1. ASSUME NEW j \in Reach(t, i) PROVE j \in Inside(t, d)
      <4>1. j \in Content(t) /\ j <= i /\ \A c \in Cuts(t) : c <= i => c < j
        BY DEF Reach
      <4>2. j \in Nat /\ d \in Nat /\ i \in Nat
        BY <1>1, <4>1 DEF Content
      <4>3. j < d
        BY <1>2, <4>1, <4>2
      <4> QED BY <1>2, <4>1, <4>3 DEF Inside
    <3> QED BY <3>1
  <2>3. Inside(t, d) \in SUBSET (1..n) /\ Len(Cell(t, d)) = Cardinality(Inside(t, d))
    BY CellIs
  <2>4. IsFiniteSet(Inside(t, d)) /\ Cardinality(Inside(t, d)) \in Nat
    BY <1>1, <2>3, PlacesFinite
  <2>5. /\ Cardinality(Reach(t, i)) <= Cardinality(Inside(t, d))
        /\ Cardinality(Reach(t, i)) \in Nat
    BY <2>2, <2>4, FS_Subset, FS_CardinalityType
  <2> QED BY <2>1, <2>3, <2>4, <2>5
<1> QED BY <1>10, <1>11, <1>12

-----------------------------------------------------------------------------
(* One position further: i is read after h characters.                     *)
LEMMA ReachIs ==
  ASSUME NEW C, NEW t \in Seq(C), t # <<>>, NEW h \in 0..Len(t), NEW i, i = h + 1
  PROVE  /\ Inside(t, i) = Reach(t, h) /\ Reach(t, h) \in SUBSET (1..Len(t))
         /\ \A j \in Reach(t, h) : j < i
         /\ i \in Cuts(t) => Reach(t, i) = {}
         /\ i \notin Cuts(t) => Reach(t, i) = Reach(t, h) \cup (Content(t) \cap {i})
<1>1. /\ h \in Nat /\ i \in Nat /\ Len(t) \in Nat
      /\ \A j \in Content(t) : j \in Nat /\ j \in 1..Len(t)
      /\ \A c \in Cuts(t) : c \in Nat
  BY EndsAre DEF Content
<1>2. \A j \in Nat : (j < i <=> j <= h) /\ (j <= i <=> j <= h \/ j = i)
  BY <1>1
<1>3. Inside(t, i) = Reach(t, h)
  BY <1>1, <1>2 DEF Inside, Reach
<1>4. Reach(t, h) \in SUBSET (1..Len(t)) /\ \A j \in Reach(t, h) : j < i
  BY <1>1, <1>2 DEF Reach
<1>5. ASSUME i \in Cuts(t), NEW j \in Reach(t, i) PROVE FALSE
  <2>1. j \in Nat /\ j <= i /\ (i <= i => i < j)
    BY <1>1, <1>5 DEF Reach
  <2> QED BY <1>1, <2>1
<1>6. ASSUME i \notin Cuts(t) PROVE Reach(t, i) = Reach(t, h) \cup (Content(t) \cap {i})
  <2>1. \A c \in Cuts(t) : c <= i <=> c <= h
    BY <1>1, <1>2, <1>6
  <2>2. ASSUME NEW j \in Reach(t, i) PROVE j \in Reach(t, h) \cup (Content(t) \cap {i})
    <3>1. j \in Content(t) /\ j <= i /\ \A c \in Cuts(t) : c <= h => c < j
      BY <2>1, <2>2 DEF Reach
    <3> QED BY <1>1, <1>2, <3>1 DEF Reach
  <2>3. ASSUME NEW j \in Reach(t, h) PROVE j \in Reach(t, i)
    <3>1. j \in Content(t) /\ j <= h /\ \A c \in Cuts(t) : c <= i => c < j
      BY <2>1, <2>3 DEF Reach
    <3> QED BY <1>1, <1>2, <3>1 DEF Reach
  <2>4. ASSUME i \in Content(t) PROVE i \in Reach(t, i)
    <3>1. \A c \in Cuts(t) : c <= i => c < i
      BY <1>1, <1>2, <2>1
    <3> QED BY <1>1, <1>2, <2>4, <3>1 DEF Reach
  <2> QED BY <2>2, <2>3, <2>4
<1> QED BY <1>3, <1>4, <1>5, <1>6

LEMMA BetweenIs ==
  ASSUME NEW C, NEW t \in Seq(C), t # <<>>, NEW h \in 0..Len(t), NEW i, i = h + 1,
         NEW b, Since(t, h, b)
  PROVE  /\ Between(t, b, h) \in SUBSET (1..h)
         /\ i \notin Cuts(t) => Between(t, b, i) = Between(t, b, h)
         /\ i \in Cuts(t) => Between(t, b, i) = Between(t, b, h) \cup {i}
         /\ i \notin LFs(t) => Since(t, i, b)
         /\ i \in LFs(t) => Since(t, i, i) /\ Between(t, i, i) = {}
         /\ i \in LFs(t) => Cardinality(Complete(t, i)) = Cardinality(Complete(t, b)) + 1
         /\ Cardinality(Complete(t, b)) \in Nat
         /\ i \in Ends(t) => Spans(t, b, i)
<1>1. /\ Len(t) \in Nat /\ h \in Nat /\ i \in Nat /\ b \in Nat /\ b <= h /\ i \notin 0..h
      /\ b < i
      /\ \A c \in Cuts(t) : c \in Nat /\ c \in 1..(Len(t) + 1)
      /\ \A x \in LFs(t) : x \in Nat /\ x \in 1..Len(t)
      /\ \A x \in Ends(t) : x \in Nat /\ (x \in 1..Len(t) => x \in LFs(t))
  <2>1. Len(t) \in Nat /\ h \in Nat /\ i \in Nat /\ b \in 0..h /\ i \notin 0..h
    BY DEF Since
  <2>2. b \in Nat /\ b <= h /\ b < i
    BY <2>1
  <2> QED BY <2>1, <2>2, EndsAre
<1>2. \A j \in Nat : (j < i <=> j <= h) /\ (j <= i <=> j <= h \/ j = i)
  BY <1>1
<1>3. /\ (b # 0 => b \in LFs(t)) /\ \A x \in LFs(t) : x <= h => x <= b
  BY DEF Since
<1>4. Between(t, b, h) \in SUBSET (1..h)
  <2>1. ASSUME NEW d \in Between(t, b, h) PROVE d \in 1..h
    BY <1>1 DEF Between
  <2> QED BY <2>1
<1>5. i \notin Cuts(t) => Between(t, b, i) = Between(t, b, h)
  BY <1>1, <1>2 DEF Between
<1>6. i \in Cuts(t) => Between(t, b, i) = Between(t, b, h) \cup {i}
  BY <1>1, <1>2 DEF Between
<1>7. i \notin LFs(t) => Since(t, i, b)
  <2>1. b \in 0..i
    BY <1>1
  <2> QED BY <1>1, <1>2, <1>3, <2>1 DEF Since
<1>8. i \in LFs(t) => Since(t, i, i) /\ Between(t, i, i) = {}
  <2>1. i \in 0..i /\ \A d \in Nat : ~(i < d /\ d <= i)
    BY <1>1
  <2> QED BY <1>1, <2>1 DEF Since, Between
<1>9. IsFiniteSet(Complete(t, b)) /\ Cardinality(Complete(t, b)) \in Nat
  <2>1. Complete(t, b) \in SUBSET (1..Len(t))
    BY <1>1 DEF Complete
  <2> QED BY <1>1, <2>1, PlacesFinite
<1>10. ASSUME i \in LFs(t)
       PROVE  Cardinality(Complete(t, i)) = Cardinality(Complete(t, b)) + 1
  <2>1. \A x \in LFs(t) : x <= i <=> x <= b \/ x = i
    <3>1. \A x \in LFs(t) : x <= h <=> x <= b
      BY <1>1, <1>3
    <3> QED BY <1>1, <1>2, <3>1
  <2>2. Complete(t, i) = Complete(t, b) \cup {i}
    BY <1>10, <2>1 DEF Complete
  <2>3. i \notin Complete(t, b)
    BY <1>1 DEF Complete
  <2> QED BY <1>9, <2>2, <2>3, FS_AddElement
<1>11. ASSUME i \in Ends(t) PROVE Spans(t, b, i)
  <2>1. ASSUME NEW x \in Ends(t), x < i PROVE x <= b
    <3>1. x \in Nat /\ x <= h /\ x \in 1..Len(t)
      <4>1. x \in 1..(Len(t) + 1) /\ x <= h /\ h <= Len(t)
        BY <1>1, <1>2, <2>1, EndsAre
      <4> QED BY <1>1, <4>1
    <3> QED BY <1>1, <1>3, <3>1
  <2>2. b \in 0..Len(t)
    BY <1>1
  <2> QED BY <1>1, <1>3, <1>11, <2>1, <2>2 DEF Spans
<1> QED BY <1>4, <1>5, <1>6, <1>7, <1>8, <1>9, <1>10, <1>11

LEMMA OpenIs ==
  ASSUME NEW t, NEW i, i \in Reach(t, i) => t[i] # CR
  PROVE  Open(t, i) = Reach(t, i)
  BY DEF Open

LEMMA OpenKept ==
  ASSUME NEW C, NEW t \in Seq(C), t # <<>>, NEW h \in 0..Len(t), NEW i, i = h + 1,
         i \notin Cuts(t), t[i] = CR \/ i \notin Content(t), h # 0 => t[h] # CR
  PROVE  Open(t, i) = Open(t, h)
<1>1. Reach(t, i) = Reach(t, h) \cup (Content(t) \cap {i}) /\ i \notin Reach(t, h)
  <2>1. ~(i < i)
    OBVIOUS
  <2> QED BY <2>1, ReachIs
<1>2. Open(t, i) = Reach(t, h)
  BY <1>1 DEF Open
<1>3. 0 \notin Reach(t, 0)
  BY DEF Reach, Content
<1>4. Open(t, h) = Reach(t, h)
  BY <1>3, OpenIs
<1> QED BY <1>2, <1>4

LEMMA OpenGrows ==
  ASSUME NEW C, NEW t \in Seq(C), t # <<>>, NEW h \in 0..Len(t), NEW i, i = h + 1,
         i \notin Cuts(t), t[i] # CR, i \in Content(t), h # 0 => t[h] # CR
  PROVE  /\ Characters(t, Open(t, i)) = Characters(t, Open(t, h)) \o <<t[i]>>
         /\ Open(t, i) = Reach(t, i)
<1>1. /\ Reach(t, i) = Reach(t, h) \cup {i} /\ Reach(t, h) \in SUBSET (1..Len(t))
      /\ \A j \in Reach(t, h) : j < i
  BY ReachIs
<1>2. Open(t, i) = Reach(t, i)
  BY OpenIs
<1>3. 0 \notin Reach(t, 0)
  BY DEF Reach, Content
<1>4. Open(t, h) = Reach(t, h)
  BY <1>3, OpenIs
<1>5. i \in 1..Len(t)
  BY DEF Content
<1>6. Characters(t, Reach(t, h) \cup {i}) = Characters(t, Reach(t, h)) \o <<t[i]>>
  BY <1>1, <1>5, CharactersAppend
<1> QED BY <1>1, <1>2, <1>4, <1>6

LEMMA AppendTwo ==
  ASSUME NEW D, NEW s \in Seq(D), NEW a \in D, NEW b \in D
  PROVE  (s \o <<a>>) \o <<b>> = s \o <<a, b>>
<1> DEFINE q == s \o <<a>>
           r == q \o <<b>>
           u == s \o <<a, b>>
<1>1. /\ Len(s) \in Nat /\ q \in Seq(D) /\ Len(q) = Len(s) + 1 /\ q[Len(s) + 1] = a
      /\ \A k \in 1..Len(s) : q[k] = s[k]
  OBVIOUS
<1>2. /\ u \in Seq(D) /\ Len(u) = Len(s) + 2 /\ u[Len(s) + 1] = a /\ u[Len(s) + 2] = b
      /\ \A k \in 1..Len(s) : u[k] = s[k]
  OBVIOUS
<1> HIDE DEF q, u
<1>3. /\ r \in Seq(D) /\ Len(r) = Len(q) + 1 /\ r[Len(q) + 1] = b
      /\ \A k \in 1..Len(q) : r[k] = q[k]
  BY <1>1
<1> HIDE DEF r
<1>4. ASSUME NEW k \in 1..Len(r) PROVE r[k] = u[k]
  <2>1. k \in 1..Len(s) \/ k = Len(s) + 1 \/ k = Len(s) + 2
    BY <1>1, <1>3
  <2> QED BY <1>1, <1>2, <1>3, <2>1
<1>5. r = u
  BY <1>1, <1>2, <1>3, <1>4
<1> QED BY <1>5 DEF r, q, u

(* Within quotes a CR is kept together with its LF.                        *)
LEMMA OpenGrowsByTwo ==
  ASSUME NEW C, NEW t \in Seq(C), t # <<>>, NEW h \in 1..Len(t), NEW i, i = h + 1,
         h \notin Cuts(t), t[h] = CR, h \in Content(t),
         i \notin Cuts(t), t[i] = LF, i \in Content(t)
  PROVE  /\ Characters(t, Open(t, i)) = Characters(t, Open(t, h)) \o <<CR, LF>>
         /\ Open(t, i) = Reach(t, i)
<1>1. PICK g \in 0..Len(t) : h = g + 1
  <2>1. h - 1 \in 0..Len(t) /\ h = (h - 1) + 1
    OBVIOUS
  <2> QED BY <2>1
<1>2. /\ Reach(t, h) = Reach(t, g) \cup {h} /\ Reach(t, g) \in SUBSET (1..Len(t))
      /\ \A j \in Reach(t, g) : j < h
  BY <1>1, ReachIs
<1>3. h \in 0..Len(t) /\ h \in Nat /\ i \in 1..Len(t)
  BY DEF Content
<1>4. /\ Reach(t, i) = Reach(t, h) \cup {i} /\ Reach(t, h) \in SUBSET (1..Len(t))
      /\ \A j \in Reach(t, h) : j < i
  BY <1>3, ReachIs
<1>5. Open(t, i) = Reach(t, i)
  <2>1. CR # LF
    BY DEF CR, LF
  <2> QED BY <2>1, OpenIs
<1>6. Open(t, h) = Reach(t, g)
  <2>1. h \notin Reach(t, g)
    BY <1>2, <1>3
  <2> QED BY <1>2, <2>1 DEF Open
<1>7. Characters(t, Reach(t, h)) = Characters(t, Reach(t, g)) \o <<CR>>
  BY <1>2, CharactersAppend
<1>8. Characters(t, Reach(t, i)) = Characters(t, Reach(t, h)) \o <<LF>>
  BY <1>3, <1>4, CharactersAppend
<1>9. PICK s \in Seq(C) : s = Characters(t, Reach(t, g))
  BY <1>2, CharactersAre
<1>10. CR \in C /\ LF \in C
  BY <1>3, ElementOf
<1>11. (s \o <<CR>>) \o <<LF>> = s \o <<CR, LF>>
  <2>1. ASSUME NEW a \in C, NEW b \in C PROVE (s \o <<a>>) \o <<b>> = s \o <<a, b>>
    BY AppendTwo
  <2> QED BY <1>10, <2>1
<1> QED BY <1>5, <1>6, <1>7, <1>8, <1>9, <1>11

-----------------------------------------------------------------------------
(* What the automaton holds after i characters, if it has accepted them: b *)
(* is the last line end, or 0.                                             *)
Tabled(t, i, b, p) ==
  /\ Since(t, i, b)
  /\ p.line = LineOf(t, i + 1) /\ p.first = LineOf(t, b + 1)
  /\ p.active <=> \E j \in (b + 1)..i : t[j] # CR
  /\ Len(p.records) = Cardinality(Complete(t, b))
  /\ \A k \in 1..Len(p.records) : p.records[k] = RecordAt(t, k)
  /\ p.cells = Cells(t, Between(t, b, i))
  /\ p.field = Characters(t, Open(t, i))

ModeAt(t, i) ==
  IF ~Outside(t, i + 1) THEN "quoted"
  ELSE IF i = 0 \/ t[i] \in {Comma, LF} THEN "start"
  ELSE IF t[i] = Quote THEN "closed" ELSE "unquoted"

Moded(t, i, p) ==
  /\ p.mode = "quoted" <=> ~Outside(t, i + 1)
  /\ (i # 0 /\ t[i] = CR) \/ p.mode = ModeAt(t, i)

(* Outside quotes a pending CR is no character of a cell.                  *)
LEMMA OpenOutside ==
  ASSUME NEW C, NEW t \in Seq(C), t # <<>>, NEW i \in 0..Len(t), Outside(t, i + 1)
  PROVE  Open(t, i) = Reach(t, i)
<1>1. ASSUME i \in Reach(t, i) PROVE t[i] # CR
  <2>1. i \in Content(t) /\ i \in 1..Len(t) /\ CR # Quote
    BY <1>1 DEF Reach, Content, CR, Quote
  <2>2. t[i] = CR => Outside(t, i)
    BY <2>1, OutsideNext
  <2> QED BY <2>1, <2>2 DEF Content
<1> QED BY <1>1, OpenIs

(* A record that ends at e is the record of the reference.                 *)
LEMMA EndStep ==
  ASSUME NEW C, NEW t \in Seq(C), t # <<>>, NEW h \in 0..Len(t), NEW e, e = h + 1,
         e \in Ends(t), Outside(t, e),
         NEW b, NEW p \in Parsers(C), Tabled(t, h, b, p)
  PROVE  /\ RecordOf(p) = RecordAt(t, Len(p.records) + 1)
         /\ p.active <=> Filled(t, e)
         /\ p.active /\ p.ok /\ Rectangular(Table(t), p.limit) => EndRecord(p).ok
<1>1. /\ Since(t, h, b) /\ p.line = LineOf(t, e) /\ p.first = LineOf(t, b + 1)
      /\ p.active <=> \E j \in (b + 1)..h : t[j] # CR
      /\ Len(p.records) = Cardinality(Complete(t, b))
      /\ \A k \in 1..Len(p.records) : p.records[k] = RecordAt(t, k)
      /\ p.cells = Cells(t, Between(t, b, h)) /\ p.field = Characters(t, Open(t, h))
  BY DEF Tabled
<1>2. /\ h \in Nat /\ e \in Nat /\ Len(t) \in Nat /\ e \in 1..(Len(t) + 1)
      /\ Ends(t) \subseteq Cuts(t)
      /\ \A x \in Ends(t) : x \in Nat
      /\ LFs(t) \subseteq Ends(t)
      /\ b \in 0..h /\ b \in Nat
  <2>1. h \in Nat /\ e \in Nat /\ Len(t) \in Nat /\ e \in 1..(Len(t) + 1)
    OBVIOUS
  <2>2. Ends(t) \in SUBSET (1..(Len(t) + 1)) /\ Ends(t) \subseteq Cuts(t)
        /\ LFs(t) \subseteq Ends(t)
    BY EndsAre
  <2>3. b \in 0..h
    BY <1>1 DEF Since
  <2> QED BY <2>1, <2>2, <2>3
<1>3. /\ Between(t, b, h) \in SUBSET (1..h) /\ Spans(t, b, e)
      /\ Between(t, b, e) = Between(t, b, h) \cup {e}
      /\ Cardinality(Complete(t, b)) \in Nat
  BY <1>1, <1>2, BetweenIs
<1>4. Cell(t, e) = p.field
  <2>1. Open(t, h) = Reach(t, h)
    BY OpenOutside
  <2>2. Inside(t, e) = Reach(t, h)
    BY ReachIs
  <2> QED BY <1>1, <2>1, <2>2, CellIs
<1>5. Cells(t, Between(t, b, e)) = Append(p.cells, p.field)
  <2>1. PICK n \in Nat : n = Len(t) + 1
    BY <1>2
  <2>2. /\ Between(t, b, h) \in SUBSET (1..n) /\ e \in 1..n
        /\ \A x \in Between(t, b, h) : x < e
    <3>1. \A x \in 1..h : x \in 1..n /\ x < e
      BY <1>2, <2>1
    <3> QED BY <1>2, <1>3, <2>1, <3>1
  <2>3. Cells(t, Between(t, b, h) \cup {e}) = Append(Cells(t, Between(t, b, h)), Cell(t, e))
    BY <2>1, <2>2, CellsAppend
  <2> QED BY <1>1, <1>3, <1>4, <2>3
<1>6. PICK k : k = Cardinality(Complete(t, b)) + 1
  OBVIOUS
<1>7. /\ k \in 1..Cardinality(Ends(t)) /\ Cardinality(Ends(t)) \in Nat
      /\ RecordAt(t, k) = [lineStart |-> LineOf(t, b + 1), lineEnd |-> LineOf(t, e),
                           cells |-> Cells(t, Between(t, b, e))]
  BY <1>3, <1>6, RecordAtIs
<1>8. RecordOf(p) = RecordAt(t, k)
  BY <1>1, <1>5, <1>7 DEF RecordOf
<1>9. k = Len(p.records) + 1
  BY <1>1, <1>6
<1>10. p.active <=> Filled(t, e)
  <2>1. \A j \in 1..(e - 1) : j \in (b + 1)..h <=> \A d \in Ends(t) : d < e => d < j
    <3>1. \A x \in Ends(t) : x < e => x <= b
      BY <1>3 DEF Spans
    <3>2. b # 0 => b \in Ends(t) /\ b < e
      BY <1>1, <1>2 DEF Since
    <3> TAKE j \in 1..(e - 1)
    <3>3. ASSUME j \in (b + 1)..h, NEW d \in Ends(t), d < e PROVE d < j
      BY <1>2, <3>1, <3>3
    <3>4. ASSUME \A d \in Ends(t) : d < e => d < j PROVE j \in (b + 1)..h
      <4>1. b = 0 \/ b < j
        BY <3>2, <3>4
      <4> QED BY <1>2, <4>1
    <3> QED BY <3>3, <3>4
  <2>2. \A j \in (b + 1)..h : j \in 1..(e - 1)
    BY <1>2
  <2> QED BY <1>1, <2>1, <2>2 DEF Filled
<1>11. ASSUME p.active, p.ok, Rectangular(Table(t), p.limit) PROVE EndRecord(p).ok
  <2>1. PICK limit \in Nat : limit = p.limit
    BY DEF Parsers
  <2>2. h = Len(t) => Len(t) \notin LFs(t)
    <3>1. h = Len(t) => Len(t) + 1 \in Ends(t)
      OBVIOUS
    <3> QED BY <3>1, EndsAre
  <2>3. Cardinality(Between(t, b, h)) < ColumnLimit /\ Cardinality(Complete(t, b)) < RowLimit
    BY <1>1, <1>11, <2>1, <2>2, PartsFit
  <2>4. Len(p.cells) = Cardinality(Between(t, b, h))
    <3>1. Len(Cells(t, Between(t, b, h))) = Cardinality(Between(t, b, h))
      BY <1>2, <1>3, CellsAre
    <3> QED BY <1>1, <3>1
  <2>5. ASSUME p.records # <<>> PROVE Len(RecordOf(p).cells) = Len(p.records[1].cells)
    <3>1. 1 \in 1..Len(p.records)
      <4>1. p.records \in Seq([lineStart : Nat, lineEnd : Nat, cells : Seq(Seq(C))])
        BY DEF Parsers, Tables
      <4> QED BY <2>5, <4>1
    <3>2. p.records[1] = RecordAt(t, 1)
      BY <1>1, <3>1
    <3>3. /\ DOMAIN Table(t) = 1..Cardinality(Ends(t))
          /\ \A m \in 1..Cardinality(Ends(t)) : Table(t)[m] = RecordAt(t, m)
      BY DEF Table
    <3>4. Len(Table(t)[k].cells) = Len(Table(t)[1].cells)
      BY <1>7, <1>11, <3>3 DEF Rectangular
    <3>5. 1 \in 1..Cardinality(Ends(t))
      BY <1>7
    <3> QED BY <1>7, <1>8, <3>2, <3>3, <3>4, <3>5
  <2>6. PICK o : o = EndRecord(p)
    OBVIOUS
  <2>7. o.ok <=> /\ p.ok /\ p.active
                 /\ Len(p.cells) < ColumnLimit /\ Len(p.records) < RowLimit
                 /\ p.records # <<>> =>
                      Len(RecordOf(p).cells) = Len(p.records[1].cells)
    BY <2>6, EndRecordIs
  <2> QED BY <1>1, <1>11, <2>3, <2>4, <2>5, <2>6, <2>7
<1> QED BY <1>8, <1>9, <1>10, <1>11

-----------------------------------------------------------------------------
(* A character that ends no cell.                                          *)
LEMMA StayStep ==
  ASSUME NEW C, NEW t \in Seq(C), t # <<>>, NEW h \in 0..Len(t), NEW i, i = h + 1,
         i \in 1..Len(t), i \notin Cuts(t), NEW b, NEW p, Tabled(t, h, b, p),
         NEW o, o.records = p.records, o.cells = p.cells, o.first = p.first,
         o.line = LineOf(t, i + 1), o.active <=> p.active \/ t[i] # CR,
         o.field = Characters(t, Open(t, i))
  PROVE  /\ Tabled(t, i, b, o)
         /\ \A limit \in Nat : Rectangular(Table(t), limit) => Len(o.field) <= limit
<1>1. /\ Since(t, h, b) /\ p.first = LineOf(t, b + 1)
      /\ p.active <=> \E j \in (b + 1)..h : t[j] # CR
      /\ Len(p.records) = Cardinality(Complete(t, b))
      /\ \A k \in 1..Len(p.records) : p.records[k] = RecordAt(t, k)
      /\ p.cells = Cells(t, Between(t, b, h))
  BY DEF Tabled
<1>2. i \notin LFs(t) /\ Len(t) \in Nat /\ i \in Nat /\ h \in Nat
  BY EndsAre
<1>3. Since(t, i, b) /\ Between(t, b, i) = Between(t, b, h)
  BY <1>1, <1>2, BetweenIs
<1>4. o.active <=> \E j \in (b + 1)..i : t[j] # CR
  <2>1. b \in Nat /\ b <= h
    BY <1>1, <1>2 DEF Since
  <2>2. \A j : j \in (b + 1)..i <=> j \in (b + 1)..h \/ j = i
    BY <1>2, <2>1
  <2> QED BY <1>1, <2>2
<1>5. Tabled(t, i, b, o)
  BY <1>1, <1>3, <1>4 DEF Tabled
<1>6. ASSUME NEW limit \in Nat, Rectangular(Table(t), limit) PROVE Len(o.field) <= limit
  <2>1. i = Len(t) => Len(t) \notin LFs(t)
    BY <1>2
  <2>2. Cardinality(Reach(t, i)) <= limit
    <3>1. i \in 0..Len(t)
      BY <1>2
    <3> QED BY <1>3, <1>6, <2>1, <3>1, PartsFit
  <2>3. Open(t, i) \in SUBSET Reach(t, i) /\ Reach(t, i) \in SUBSET (1..Len(t))
    BY DEF Open, Reach, Content
  <2>4. IsFiniteSet(Reach(t, i)) /\ Cardinality(Reach(t, i)) \in Nat
    BY <1>2, <2>3, PlacesFinite
  <2>5. Cardinality(Open(t, i)) \in Nat /\ Cardinality(Open(t, i)) <= Cardinality(Reach(t, i))
    BY <2>3, <2>4, FS_Subset, FS_CardinalityType
  <2>6. Open(t, i) \in SUBSET (1..Len(t))
    BY <2>3
  <2>7. Len(Characters(t, Open(t, i))) = Cardinality(Open(t, i))
    BY <2>6, CharactersAre
  <2> QED BY <2>2, <2>4, <2>5, <2>7
<1> QED BY <1>5, <1>6

LEMMA NoCells == ASSUME NEW t PROVE Cells(t, {}) = <<>> /\ Characters(t, {}) = <<>>
<1>1. Cardinality({}) = 0 /\ 1..0 = {}
  BY FS_EmptySet
<1> QED BY <1>1 DEF Cells, Characters

LEMMA NothingOpen ==
  ASSUME NEW C, NEW t \in Seq(C), t # <<>>, NEW i \in 1..Len(t), i \in Cuts(t)
  PROVE  Characters(t, Open(t, i)) = <<>>
<1>1. PICK h \in 0..Len(t) : i = h + 1
  <2>1. i - 1 \in 0..Len(t) /\ i = (i - 1) + 1
    OBVIOUS
  <2> QED BY <2>1
<1>2. Reach(t, i) = {}
  BY <1>1, ReachIs
<1>3. Open(t, i) = {}
  BY <1>2 DEF Open
<1> QED BY <1>3, NoCells

(* A comma outside quotes.                                                 *)
LEMMA CommaStep ==
  ASSUME NEW C, NEW t \in Seq(C), t # <<>>, NEW h \in 0..Len(t), NEW i, i = h + 1,
         i \in 1..Len(t), t[i] = Comma, Outside(t, i),
         NEW b, NEW p \in Parsers(C), Tabled(t, h, b, p),
         NEW o, o.records = p.records, o.first = p.first, o.line = LineOf(t, i + 1), o.active,
         o.cells = Append(p.cells, p.field), o.field = <<>>
  PROVE  /\ Tabled(t, i, b, o)
         /\ Rectangular(Table(t), p.limit) => Len(p.cells) < ColumnLimit
<1>1. /\ Since(t, h, b) /\ p.first = LineOf(t, b + 1)
      /\ Len(p.records) = Cardinality(Complete(t, b))
      /\ \A k \in 1..Len(p.records) : p.records[k] = RecordAt(t, k)
      /\ p.cells = Cells(t, Between(t, b, h)) /\ p.field = Characters(t, Open(t, h))
  BY DEF Tabled
<1>2. /\ i \notin LFs(t) /\ i \in Cuts(t) /\ Len(t) \in Nat /\ i \in Nat /\ h \in Nat
      /\ t[i] # CR
  <2>1. Comma # LF /\ Comma # CR
    BY DEF Comma, LF, CR
  <2> QED BY <2>1, EndsAre
<1>3. /\ Since(t, i, b) /\ Between(t, b, i) = Between(t, b, h) \cup {i}
      /\ Between(t, b, h) \in SUBSET (1..h)
  BY <1>1, <1>2, BetweenIs
<1>4. o.active <=> \E j \in (b + 1)..i : t[j] # CR
  <2>1. b \in Nat /\ b <= h
    BY <1>1, <1>2 DEF Since
  <2>2. i \in (b + 1)..i
    BY <1>2, <2>1
  <2> QED BY <1>2, <2>2
<1>5. Cell(t, i) = p.field
  <2>1. Open(t, h) = Reach(t, h) /\ Inside(t, i) = Reach(t, h)
    BY OpenOutside, ReachIs
  <2> QED BY <1>1, <2>1, CellIs
<1>6. o.cells = Cells(t, Between(t, b, i))
  <2>1. /\ Between(t, b, h) \in SUBSET (1..Len(t))
        /\ \A x \in Between(t, b, h) : x < i
    <3>1. \A x \in 1..h : x \in 1..Len(t) /\ x < i
      BY <1>2
    <3> QED BY <1>3, <3>1
  <2>2. Cells(t, Between(t, b, h) \cup {i}) = Append(Cells(t, Between(t, b, h)), Cell(t, i))
    BY <1>2, <2>1, CellsAppend
  <2> QED BY <1>1, <1>3, <1>5, <2>2
<1>7. o.field = Characters(t, Open(t, i))
  BY <1>2, NothingOpen
<1>8. Tabled(t, i, b, o)
  BY <1>1, <1>3, <1>4, <1>6, <1>7 DEF Tabled
<1>9. ASSUME Rectangular(Table(t), p.limit) PROVE Len(p.cells) < ColumnLimit
  <2>1. PICK limit \in Nat : limit = p.limit
    BY DEF Parsers
  <2>2. h # Len(t)
    BY <1>2
  <2>3. Cardinality(Between(t, b, h)) < ColumnLimit
    BY <1>1, <1>9, <2>1, <2>2, PartsFit
  <2>4. Len(Cells(t, Between(t, b, h))) = Cardinality(Between(t, b, h))
    BY <1>2, <1>3, CellsAre
  <2> QED BY <1>1, <2>3, <2>4
<1> QED BY <1>8, <1>9

(* A line feed outside quotes.                                             *)
LEMMA LineStep ==
  ASSUME NEW C, NEW t \in Seq(C), t # <<>>, NEW h \in 0..Len(t), NEW i, i = h + 1,
         i \in LFs(t), NEW b, NEW p \in Parsers(C), Tabled(t, h, b, p),
         NEW o, o.records = Append(p.records, RecordOf(p)),
         o.first = LineOf(t, i + 1), o.line = LineOf(t, i + 1), ~o.active,
         o.cells = <<>>, o.field = <<>>
  PROVE  Tabled(t, i, i, o)
<1>1. /\ Since(t, h, b)
      /\ Len(p.records) = Cardinality(Complete(t, b))
      /\ \A k \in 1..Len(p.records) : p.records[k] = RecordAt(t, k)
  BY DEF Tabled
<1>2. /\ i \in Cuts(t) /\ i \in Ends(t) /\ Outside(t, i) /\ i \in Nat /\ Len(t) \in Nat
      /\ i \in 1..Len(t)
  <2>1. LFs(t) \in SUBSET (1..Len(t)) /\ Len(t) \in Nat
    BY EndsAre
  <2>2. i \in 1..Len(t)
    BY <2>1
  <2>3. i \in Cuts(t) /\ i \in Ends(t) /\ Outside(t, i)
    BY <2>2, EndsAre
  <2> QED BY <2>1, <2>2, <2>3
<1>3. /\ Since(t, i, i) /\ Between(t, i, i) = {}
      /\ Cardinality(Complete(t, i)) = Cardinality(Complete(t, b)) + 1
  BY <1>1, BetweenIs
<1>4. RecordOf(p) = RecordAt(t, Len(p.records) + 1)
  BY <1>2, EndStep
<1>5. /\ Len(o.records) = Cardinality(Complete(t, i))
      /\ \A k \in 1..Len(o.records) : o.records[k] = RecordAt(t, k)
  <2>1. PICK rows, r : rows = p.records /\ r = RecordOf(p)
    OBVIOUS
  <2>2. /\ rows \in Seq([lineStart : Nat, lineEnd : Nat, cells : Seq(Seq(C))])
        /\ r \in [lineStart : Nat, lineEnd : Nat, cells : Seq(Seq(C))]
    <3>1. /\ p.records \in Tables(C) /\ p.line \in Nat /\ p.first \in Nat
          /\ Append(p.cells, p.field) \in Seq(Seq(C))
      BY DEF Parsers
    <3> QED BY <2>1, <3>1 DEF RecordOf, Tables
  <2>3. /\ Len(Append(rows, r)) = Len(rows) + 1 /\ Len(rows) \in Nat
        /\ Append(rows, r)[Len(rows) + 1] = r
        /\ \A k \in 1..Len(rows) : Append(rows, r)[k] = rows[k]
    BY <2>2
  <2>4. ASSUME NEW k \in 1..(Len(rows) + 1) PROVE Append(rows, r)[k] = RecordAt(t, k)
    <3>1. CASE k = Len(rows) + 1
      BY <1>4, <2>1, <2>3, <3>1
    <3>2. CASE k # Len(rows) + 1
      <4>1. k \in 1..Len(rows)
        BY <2>3, <3>2
      <4> QED BY <1>1, <2>1, <2>3, <4>1
    <3> QED BY <3>1, <3>2
  <2> QED BY <1>1, <1>3, <2>1, <2>3, <2>4
<1>6. ~\E j \in (i + 1)..i : t[j] # CR
  BY <1>2
<1>7. o.cells = Cells(t, Between(t, i, i)) /\ o.field = Characters(t, Open(t, i))
  BY <1>2, <1>3, NothingOpen, NoCells
<1> QED BY <1>3, <1>5, <1>6, <1>7 DEF Tabled

-----------------------------------------------------------------------------
(* What a character does in each mode.                                     *)
LEMMA MarkedIs ==
  ASSUME NEW C, NEW p \in Parsers(C), NEW q, q = [p EXCEPT !.active = TRUE]
  PROVE  /\ q \in Parsers(C)
         /\ q.records = p.records /\ q.cells = p.cells /\ q.field = p.field
         /\ q.line = p.line /\ q.first = p.first /\ q.limit = p.limit
         /\ q.ok = p.ok /\ q.mode = p.mode /\ q.active
  BY DEF Parsers

Marks(p, o) ==
  o.records = p.records /\ o.line = p.line /\ o.first = p.first /\ o.active

LEMMA CharacterTurns ==
  ASSUME NEW C, NEW p \in Parsers(C), NEW o, NEW mode, o = Character(p, Quote),
         <<p.mode, mode>> \in {<<"quoted", "closed">>, <<"start", "quoted">>}
  PROVE  /\ Marks(p, o)
         /\ o.mode = mode /\ o.cells = p.cells /\ o.field = p.field
         /\ o.ok <=> p.ok
<1>1. PICK q : q = [p EXCEPT !.active = TRUE]
  OBVIOUS
<1>2. /\ q \in Parsers(C)
      /\ q.records = p.records /\ q.cells = p.cells /\ q.field = p.field
      /\ q.line = p.line /\ q.first = p.first /\ q.limit = p.limit
      /\ q.ok = p.ok /\ q.mode = p.mode /\ q.active
  BY <1>1, MarkedIs
<1>3. Comma # Quote
  BY DEF Comma, Quote
<1>4. o = [q EXCEPT !.mode = mode]
  BY <1>1, <1>3 DEF Character
<1>5. /\ o.records = q.records /\ o.line = q.line /\ o.first = q.first
      /\ o.active = q.active /\ o.mode = mode /\ o.cells = q.cells /\ o.field = q.field
      /\ o.ok = q.ok
  BY <1>2, <1>4 DEF Parsers
<1> QED BY <1>2, <1>5 DEF Marks

Puts(p, c, mode) ==
  \/ p.mode = "quoted" /\ c # Quote /\ mode = "quoted"
  \/ p.mode = "closed" /\ c = Quote /\ mode = "quoted"
  \/ p.mode \in {"start", "unquoted"} /\ c \notin {Quote, Comma} /\ mode = "unquoted"

LEMMA CharacterPut ==
  ASSUME NEW C, NEW p \in Parsers(C), NEW c, NEW o, NEW mode, o = Character(p, c),
         Puts(p, c, mode)
  PROVE  /\ Marks(p, o)
         /\ o.mode = mode /\ o.cells = p.cells /\ o.field = p.field \o <<c>>
         /\ o.ok <=> p.ok /\ Len(p.field) + 1 <= p.limit
<1>1. PICK q : q = [p EXCEPT !.active = TRUE]
  OBVIOUS
<1>2. /\ q \in Parsers(C)
      /\ q.records = p.records /\ q.cells = p.cells /\ q.field = p.field
      /\ q.line = p.line /\ q.first = p.first /\ q.limit = p.limit
      /\ q.ok = p.ok /\ q.mode = p.mode /\ q.active
  BY <1>1, MarkedIs
<1>3. Comma # Quote
  BY DEF Comma, Quote
<1>4. PICK s : s = <<c>>
  OBVIOUS
<1>5. o = Put(q, s, mode)
  BY <1>1, <1>3, <1>4 DEF Character, Puts
<1>6. q \in Parsers(C)
  BY <1>2
<1>7. /\ o.records = q.records /\ o.cells = q.cells /\ o.field = q.field \o s
      /\ o.line = q.line /\ o.first = q.first /\ o.active = q.active
      /\ o.mode = mode /\ o.limit = q.limit
      /\ o.ok <=> q.ok /\ Len(q.field) + Len(s) <= q.limit
  BY <1>5, <1>6, PutIs
<1>8. Len(s) = 1
  BY <1>4
<1> QED BY <1>2, <1>4, <1>7, <1>8 DEF Marks

LEMMA CharacterEnds ==
  ASSUME NEW C, NEW p \in Parsers(C), NEW o, o = Character(p, Comma), p.mode # "quoted"
  PROVE  /\ Marks(p, o)
         /\ o.mode = "start" /\ o.cells = Append(p.cells, p.field) /\ o.field = <<>>
         /\ o.ok <=> p.ok /\ Len(p.cells) < ColumnLimit
<1>1. PICK q : q = [p EXCEPT !.active = TRUE]
  OBVIOUS
<1>2. /\ q \in Parsers(C)
      /\ q.records = p.records /\ q.cells = p.cells /\ q.field = p.field
      /\ q.line = p.line /\ q.first = p.first /\ q.limit = p.limit
      /\ q.ok = p.ok /\ q.mode = p.mode /\ q.active
  BY <1>1, MarkedIs
<1>3. Comma # Quote
  BY DEF Comma, Quote
<1>4. o = EndCell(q)
  BY <1>1, <1>3 DEF Character
<1>5. q \in Parsers(C)
  BY <1>2
<1>6. /\ o.records = q.records /\ o.cells = Append(q.cells, q.field) /\ o.field = <<>>
      /\ o.line = q.line /\ o.first = q.first /\ o.active = q.active
      /\ o.mode = "start" /\ o.limit = q.limit
      /\ o.ok <=> q.ok /\ Len(q.cells) < ColumnLimit
  BY <1>4, <1>5, EndCellIs
<1> QED BY <1>2, <1>6 DEF Marks

LEMMA CharacterRejects ==
  ASSUME NEW C, NEW p \in Parsers(C), NEW c, NEW o, o = Character(p, c),
         (p.mode = "closed" /\ c \notin {Quote, Comma}) \/ (p.mode = "unquoted" /\ c = Quote)
  PROVE  ~o.ok
<1>1. PICK q : q = [p EXCEPT !.active = TRUE]
  OBVIOUS
<1>2. q \in Parsers(C)
  BY <1>1, MarkedIs
<1>3. Comma # Quote
  BY DEF Comma, Quote
<1>4. o = Reject(q)
  BY <1>1, <1>3 DEF Character
<1> QED BY <1>2, <1>4 DEF Reject, Parsers

(* What mode the automaton is in says what it has just read.               *)
LEMMA ModeIs ==
  ASSUME NEW t, NEW h, NEW p, Moded(t, h, p), h # 0 => t[h] # CR
  PROVE  /\ p.mode = "quoted" <=> ~Outside(t, h + 1)
         /\ p.mode = "closed" => h # 0 /\ t[h] = Quote
         /\ p.mode = "start" => h = 0 \/ t[h] \in {Comma, LF}
         /\ p.mode = "unquoted" => h # 0 /\ t[h] \notin {Quote, Comma, LF}
<1>1. p.mode = ModeAt(t, h)
  BY DEF Moded
<1>2. Quote # Comma /\ Quote # LF
  BY DEF Quote, Comma, LF
<1> QED BY <1>1, <1>2 DEF ModeAt

(* A character is accepted exactly where it is well-formed, as long as the *)
(* whole table fits.                                                       *)
LEMMA CharacterStep ==
  ASSUME NEW C, NEW t \in Seq(C), t # <<>>, NEW h \in 0..Len(t), NEW i, i = h + 1,
         i \in 1..Len(t), t[i] \notin {NUL, CR, LF}, h # 0 => GoodAt(t, h),
         NEW b, NEW p \in Parsers(C), Tabled(t, h, b, p), Moded(t, h, p),
         NEW o, o = Character(p, t[i])
  PROVE  /\ o.ok => p.ok /\ GoodAt(t, i) /\ Tabled(t, i, b, o) /\ Moded(t, i, o)
         /\ p.ok /\ GoodAt(t, i) /\ Rectangular(Table(t), p.limit) => o.ok
<1>1. PICK c \in C : c = t[i]
  BY ElementOf
<1>2. /\ Quote # Comma /\ Quote # LF /\ Quote # CR /\ Quote # NUL
      /\ Comma # CR /\ Comma # LF /\ Comma # NUL
      /\ c \notin {NUL, CR, LF}
  BY <1>1 DEF Quote, Comma, LF, CR, NUL
<1>3. h # 0 => t[h] # CR
  BY <1>1, <1>2 DEF GoodAt
<1>4. /\ p.mode \in Modes
      /\ p.mode = "quoted" <=> ~Outside(t, i)
      /\ p.mode = "closed" => h # 0 /\ t[h] = Quote
      /\ p.mode = "start" => h = 0 \/ t[h] \in {Comma, LF}
      /\ p.mode = "unquoted" => h # 0 /\ t[h] \notin {Quote, Comma, LF}
  BY <1>3, ModeIs DEF Parsers
<1>5. /\ Outside(t, i + 1) <=> (Outside(t, i) <=> c # Quote)
      /\ h # 0 => (Outside(t, i) <=> (Outside(t, h) <=> t[h] # Quote))
  <2>1. h # 0 => h \in 1..Len(t)
    OBVIOUS
  <2> QED BY <1>1, <2>1, OutsideNext
<1>6. /\ i \in Nat /\ i > 1 <=> h # 0
      /\ i - 1 = h /\ i # 0
  OBVIOUS
<1>7. GoodAt(t, i) <=>
        /\ c = Quote /\ Outside(t, i) /\ h # 0 => t[h] \in {Quote, Comma, LF}
        /\ h # 0 /\ t[h] = Quote /\ ~Outside(t, h) => c \in {Quote, Comma, CR, LF}
  BY <1>1, <1>2, <1>6 DEF GoodAt
<1>8. i \in Cuts(t) <=> c = Comma /\ Outside(t, i)
  BY <1>1, <1>2, EndsAre
<1>9. i \in Content(t) <=> (c = Quote => h # 0 /\ t[h] = Quote /\ Outside(t, i))
  BY <1>1, <1>2, <1>6 DEF Content
<1>10. /\ p.line = LineOf(t, i + 1) /\ p.field = Characters(t, Open(t, h))
       /\ p.limit \in Nat /\ p.field \in Seq(C)
  <2>1. p.line = LineOf(t, i) /\ p.field = Characters(t, Open(t, h))
    BY DEF Tabled
  <2>2. t[i] # LF /\ i \in Nat /\ i # 0
    BY <1>1, <1>2, <1>6
  <2>3. LineOf(t, i + 1) = LineOf(t, i) + 0 /\ LineOf(t, i) \in Nat
    BY <2>2, LineOfNext
  <2>4. LineOf(t, i + 1) = LineOf(t, i)
    BY <2>3
  <2> QED BY <2>1, <2>4 DEF Parsers
<1>11. ASSUME Marks(p, o), i \notin Cuts(t), i \notin Content(t),
              o.cells = p.cells, o.field = p.field
       PROVE  Tabled(t, i, b, o)
  <2>0. o.records = p.records /\ o.first = p.first /\ o.line = LineOf(t, i + 1) /\ o.active
    BY <1>10, <1>11 DEF Marks
  <2>1. Open(t, i) = Open(t, h)
    BY <1>3, <1>11, OpenKept
  <2>2. o.field = Characters(t, Open(t, i))
    BY <1>10, <1>11, <2>1
  <2>3. o.active <=> p.active \/ t[i] # CR
    BY <1>1, <1>2, <2>0
  <2> QED BY <1>11, <2>0, <2>2, <2>3, StayStep
<1>12. ASSUME Marks(p, o), i \notin Cuts(t), i \in Content(t),
              o.cells = p.cells, o.field = p.field \o <<c>>
       PROVE  /\ Tabled(t, i, b, o)
              /\ Rectangular(Table(t), p.limit) => Len(p.field) + 1 <= p.limit
  <2>0. o.records = p.records /\ o.first = p.first /\ o.line = LineOf(t, i + 1) /\ o.active
    BY <1>10, <1>12 DEF Marks
  <2>1. Characters(t, Open(t, i)) = Characters(t, Open(t, h)) \o <<c>>
    <3>1. t[i] # CR
      BY <1>1, <1>2
    <3> QED BY <1>1, <1>3, <1>12, <3>1, OpenGrows
  <2>2. o.field = Characters(t, Open(t, i))
    BY <1>10, <1>12, <2>1
  <2>3. o.active <=> p.active \/ t[i] # CR
    BY <1>1, <1>2, <2>0
  <2>4. Tabled(t, i, b, o)
    BY <1>12, <2>0, <2>2, <2>3, StayStep
  <2>5. \A limit \in Nat : Rectangular(Table(t), limit) => Len(o.field) <= limit
    BY <1>12, <2>0, <2>2, <2>3, StayStep
  <2>6. Len(o.field) = Len(p.field) + 1
    BY <1>10, <1>12
  <2> QED BY <1>10, <2>4, <2>5, <2>6
<1>13. Moded(t, i, o) <=> /\ o.mode = "quoted" <=> ~Outside(t, i + 1)
                          /\ o.mode = IF ~Outside(t, i + 1) THEN "quoted"
                                      ELSE IF c = Comma THEN "start"
                                      ELSE IF c = Quote THEN "closed" ELSE "unquoted"
  BY <1>1, <1>2, <1>6 DEF Moded, ModeAt
<1>14. CASE c = Quote /\ p.mode \in {"quoted", "start"}
  <2>1. PICK mode : mode = IF p.mode = "quoted" THEN "closed" ELSE "quoted"
    OBVIOUS
  <2>2. /\ Marks(p, o) /\ o.mode = mode /\ o.cells = p.cells /\ o.field = p.field
        /\ o.ok <=> p.ok
    <3>1. <<p.mode, mode>> \in {<<"quoted", "closed">>, <<"start", "quoted">>}
      BY <1>14, <2>1
    <3>2. o = Character(p, Quote)
      BY <1>1, <1>14
    <3> QED BY <3>1, <3>2, CharacterTurns
  <2>3. i \notin Cuts(t) /\ i \notin Content(t)
    BY <1>2, <1>4, <1>8, <1>9, <1>14
  <2>4. Tabled(t, i, b, o)
    BY <1>11, <2>2, <2>3
  <2>5. Moded(t, i, o) /\ GoodAt(t, i)
    BY <1>2, <1>4, <1>5, <1>7, <1>13, <1>14, <2>1, <2>2
  <2> QED BY <2>2, <2>4, <2>5
<1>15. CASE \/ p.mode = "quoted" /\ c # Quote
            \/ p.mode = "closed" /\ c = Quote
            \/ p.mode \in {"start", "unquoted"} /\ c \notin {Quote, Comma}
  <2>1. PICK mode : mode = IF p.mode \in {"quoted", "closed"} THEN "quoted" ELSE "unquoted"
    OBVIOUS
  <2>2. /\ Marks(p, o) /\ o.mode = mode /\ o.cells = p.cells /\ o.field = p.field \o <<c>>
        /\ o.ok <=> p.ok /\ Len(p.field) + 1 <= p.limit
    <3>1. Puts(p, c, mode)
      BY <1>15, <2>1 DEF Puts
    <3>2. o = Character(p, c)
      BY <1>1
    <3> QED BY <3>1, <3>2, CharacterPut
  <2>3. i \notin Cuts(t) /\ i \in Content(t)
    BY <1>2, <1>4, <1>8, <1>9, <1>15
  <2>4. /\ Tabled(t, i, b, o)
        /\ Rectangular(Table(t), p.limit) => Len(p.field) + 1 <= p.limit
    BY <1>12, <2>2, <2>3
  <2>5. Moded(t, i, o) /\ GoodAt(t, i)
    BY <1>2, <1>4, <1>5, <1>7, <1>13, <1>15, <2>1, <2>2
  <2> QED BY <2>2, <2>4, <2>5
<1>16. CASE p.mode # "quoted" /\ c = Comma
  <2>1. /\ Marks(p, o)
        /\ o.mode = "start" /\ o.cells = Append(p.cells, p.field) /\ o.field = <<>>
        /\ o.ok <=> p.ok /\ Len(p.cells) < ColumnLimit
    <3>1. o = Character(p, Comma)
      BY <1>1, <1>16
    <3> QED BY <1>16, <3>1, CharacterEnds
  <2>2. o.records = p.records /\ o.first = p.first /\ o.line = LineOf(t, i + 1) /\ o.active
    BY <1>10, <2>1 DEF Marks
  <2>3. /\ Tabled(t, i, b, o)
        /\ Rectangular(Table(t), p.limit) => Len(p.cells) < ColumnLimit
    <3>1. t[i] = Comma /\ Outside(t, i)
      BY <1>1, <1>4, <1>16
    <3> QED BY <2>1, <2>2, <3>1, CommaStep
  <2>4. Moded(t, i, o) /\ GoodAt(t, i)
    BY <1>2, <1>4, <1>5, <1>7, <1>13, <1>16, <2>1
  <2> QED BY <2>1, <2>3, <2>4
<1>17. CASE (p.mode = "closed" /\ c \notin {Quote, Comma}) \/ (p.mode = "unquoted" /\ c = Quote)
  <2>1. ~o.ok
    BY <1>1, <1>17, CharacterRejects
  <2>2. ~GoodAt(t, i)
    BY <1>2, <1>4, <1>5, <1>7, <1>17
  <2> QED BY <2>1, <2>2
<1>18. \/ c = Quote /\ p.mode \in {"quoted", "start"}
       \/ p.mode = "quoted" /\ c # Quote
       \/ p.mode = "closed" /\ c = Quote
       \/ p.mode \in {"start", "unquoted"} /\ c \notin {Quote, Comma}
       \/ p.mode # "quoted" /\ c = Comma
       \/ (p.mode = "closed" /\ c \notin {Quote, Comma}) \/ (p.mode = "unquoted" /\ c = Quote)
  <2>1. p.mode \in {"start", "unquoted", "quoted", "closed"}
    BY DEF Parsers, Modes
  <2>2. Quote # Comma
    BY <1>2
  <2> QED BY <2>1, <2>2
<1> QED BY <1>14, <1>15, <1>16, <1>17, <1>18, Zenon

-----------------------------------------------------------------------------
(* A line feed within quotes is a character, one outside them ends a       *)
(* record.                                                                 *)
LEMMA FoldStep ==
  ASSUME NEW C, {CR, LF} \subseteq C, NEW t \in Seq(C), t # <<>>,
         NEW h \in 0..Len(t), NEW i, i = h + 1, i \in 1..Len(t),
         t[i] = LF, ~Outside(t, i),
         NEW b, NEW p \in Parsers(C), Tabled(t, h, b, p), Moded(t, h, p), Placed(p),
         NEW o, o = Newline(p, IF i > 1 /\ t[i - 1] = CR THEN <<CR, LF>> ELSE <<LF>>)
  PROVE  /\ o.ok => p.ok
         /\ Tabled(t, i, b, o) /\ Moded(t, i, o)
         /\ p.ok /\ Rectangular(Table(t), p.limit) => o.ok
<1>1. /\ LF # CR /\ LF # Quote /\ CR # Quote /\ CR # Comma /\ CR # LF
      /\ i \in Nat /\ h \in Nat /\ i - 1 = h /\ (i > 1 <=> h # 0) /\ i # 0
      /\ h # 0 => h \in 1..Len(t)
  BY DEF LF, CR, Quote, Comma
<1>2. PICK s \in Seq(C) : s = IF h # 0 /\ t[h] = CR THEN <<CR, LF>> ELSE <<LF>>
  <2>1. CR \in C /\ LF \in C
    OBVIOUS
  <2>2. <<CR, LF>> \in Seq(C) /\ <<LF>> \in Seq(C)
    BY <2>1
  <2> QED BY <2>2
<1>3. p.mode = "quoted" /\ p.active
  BY DEF Moded, Placed
<1>4. o = Newline(p, s)
  BY <1>1, <1>2
<1>5. /\ o.line = p.line + 1
      /\ o.records = p.records /\ o.cells = p.cells /\ o.field = p.field \o s
      /\ o.first = p.first /\ o.active = p.active /\ o.mode = "quoted"
      /\ o.ok <=> p.ok /\ Len(p.field) + Len(s) <= p.limit
  <2>1. o.line = p.line + 1
    BY <1>4, NewlineIs
  <2>2. p.mode = "quoted" =>
          /\ o.records = p.records /\ o.cells = p.cells /\ o.field = p.field \o s
          /\ o.first = p.first /\ o.active = p.active /\ o.mode = "quoted"
          /\ o.ok <=> p.ok /\ Len(p.field) + Len(s) <= p.limit
    BY <1>4, NewlineIs
  <2> QED BY <1>3, <2>1, <2>2
<1>6. i \notin Cuts(t) /\ i \in Content(t)
  <2>1. i \notin Cuts(t)
    BY EndsAre
  <2> QED BY <1>1, <2>1 DEF Content
<1>7. Characters(t, Open(t, i)) = Characters(t, Open(t, h)) \o s
  <2>1. CASE h # 0 /\ t[h] = CR
    <3>1. Outside(t, i) <=> Outside(t, h)
      BY <1>1, <2>1, OutsideNext
    <3>2. h \in Content(t)
      BY <1>1, <2>1, <3>1 DEF Content
    <3>3. h \notin Cuts(t)
      BY <1>1, <2>1, EndsAre
    <3>4. Characters(t, Open(t, i)) = Characters(t, Open(t, h)) \o <<CR, LF>>
      BY <1>1, <1>6, <2>1, <3>2, <3>3, OpenGrowsByTwo
    <3> QED BY <1>2, <2>1, <3>4
  <2>2. CASE ~(h # 0 /\ t[h] = CR)
    <3>1. h # 0 => t[h] # CR
      BY <2>2
    <3>2. t[i] # CR
      BY <1>1
    <3>3. Characters(t, Open(t, i)) = Characters(t, Open(t, h)) \o <<t[i]>>
      BY <1>6, <3>1, <3>2, OpenGrows
    <3> QED BY <1>2, <2>2, <3>3
  <2> QED BY <2>1, <2>2
<1>8. /\ p.field = Characters(t, Open(t, h)) /\ p.line = LineOf(t, i)
      /\ p.limit \in Nat /\ p.field \in Seq(C)
  BY DEF Tabled, Parsers
<1>9. o.field = Characters(t, Open(t, i))
  BY <1>5, <1>7, <1>8
<1>10. o.line = LineOf(t, i + 1)
  <2>1. LineOf(t, i + 1) = LineOf(t, i) + 1
    BY <1>1, LineOfNext
  <2> QED BY <1>5, <1>8, <2>1
<1>11. o.active <=> p.active \/ t[i] # CR
  BY <1>3, <1>5
<1>12. o.records = p.records /\ o.cells = p.cells /\ o.first = p.first
  BY <1>5
<1>13. Tabled(t, i, b, o)
  BY <1>6, <1>9, <1>10, <1>11, <1>12, StayStep
<1>14. \A limit \in Nat : Rectangular(Table(t), limit) => Len(o.field) <= limit
  BY <1>6, <1>9, <1>10, <1>11, <1>12, StayStep
<1>15. Len(p.field \o s) = Len(p.field) + Len(s)
  BY <1>8
<1>16. Moded(t, i, o)
  <2>1. ~Outside(t, i + 1)
    BY <1>1, OutsideNext
  <2> QED BY <1>5, <2>1 DEF Moded, ModeAt
<1>17. p.ok /\ Rectangular(Table(t), p.limit) => o.ok
  BY <1>5, <1>8, <1>14, <1>15
<1> QED BY <1>5, <1>13, <1>16, <1>17

LEMMA FeedStep ==
  ASSUME NEW C, NEW t \in Seq(C), t # <<>>,
         NEW h \in 0..Len(t), NEW i, i = h + 1, i \in 1..Len(t),
         t[i] = LF, Outside(t, i),
         NEW b, NEW p \in Parsers(C), Tabled(t, h, b, p), Moded(t, h, p),
         NEW s \in Seq(C), NEW o, o = Newline(p, s)
  PROVE  /\ o.ok => p.ok /\ Filled(t, i)
         /\ Tabled(t, i, i, o) /\ Moded(t, i, o)
         /\ p.ok /\ Filled(t, i) /\ Rectangular(Table(t), p.limit) => o.ok
<1>1. i \in LFs(t) /\ i \in Ends(t) /\ LF # Quote /\ i \in Nat /\ i # 0
  <2>1. i \in Nat /\ i # 0 /\ LF # Quote
    BY DEF LF, Quote
  <2> QED BY <2>1, EndsAre
<1>2. p.mode # "quoted"
  BY DEF Moded
<1>3. /\ o.line = p.line + 1 /\ o.first = p.line + 1
      /\ o.records = Append(p.records, RecordOf(p)) /\ o.cells = <<>> /\ o.field = <<>>
      /\ ~o.active /\ o.mode = "start"
      /\ o.ok <=> EndRecord(p).ok
  BY <1>2, NewlineIs
<1>4. p.line + 1 = LineOf(t, i + 1)
  <2>1. LineOf(t, i + 1) = LineOf(t, i) + 1
    BY <1>1, LineOfNext
  <2> QED BY <2>1 DEF Tabled
<1>5. Tabled(t, i, i, o)
  <2>1. o.first = LineOf(t, i + 1) /\ o.line = LineOf(t, i + 1)
    BY <1>3, <1>4
  <2>2. /\ o.records = Append(p.records, RecordOf(p)) /\ o.cells = <<>> /\ o.field = <<>>
        /\ ~o.active
    BY <1>3
  <2> QED BY <1>1, <2>1, <2>2, LineStep
<1>6. Moded(t, i, o)
  <2>1. Outside(t, i + 1)
    BY <1>1, OutsideNext
  <2> QED BY <1>1, <1>3, <2>1 DEF Moded, ModeAt
<1>7. /\ p.active <=> Filled(t, i)
      /\ p.active /\ p.ok /\ Rectangular(Table(t), p.limit) => EndRecord(p).ok
  BY <1>1, EndStep
<1>8. EndRecord(p).ok => p.ok /\ p.active
  <2>1. PICK q : q = EndRecord(p)
    OBVIOUS
  <2>2. q.ok => p.ok /\ p.active
    BY <2>1, EndRecordIs
  <2> QED BY <2>1, <2>2
<1> QED BY <1>3, <1>5, <1>6, <1>7, <1>8

(* A CR is nothing by itself; it must come before an LF.                   *)
LEMMA CarriageStep ==
  ASSUME NEW C, NEW t \in Seq(C), t # <<>>,
         NEW h \in 0..Len(t), NEW i, i = h + 1, i \in 1..Len(t),
         t[i] = CR, h # 0 => GoodAt(t, h),
         NEW b, NEW p \in Parsers(C), Tabled(t, h, b, p), Moded(t, h, p)
  PROVE  Tabled(t, i, b, p) /\ Moded(t, i, p)
<1>1. /\ LF # CR /\ CR # Quote /\ CR # Comma
      /\ i \in Nat /\ i # 0
  BY DEF LF, CR, Quote, Comma
<1>2. h # 0 => t[h] # CR
  BY <1>1 DEF GoodAt
<1>3. i \notin Cuts(t)
  BY <1>1, EndsAre
<1>4. Open(t, i) = Open(t, h)
  BY <1>2, <1>3, OpenKept
<1>5. p.line = LineOf(t, i) /\ p.field = Characters(t, Open(t, h))
  BY DEF Tabled
<1>6. p.line = LineOf(t, i + 1)
  <2>1. t[i] # LF
    BY <1>1
  <2>2. LineOf(t, i + 1) = LineOf(t, i) + 0 /\ LineOf(t, i) \in Nat
    BY <1>1, <2>1, LineOfNext
  <2> QED BY <1>5, <2>2
<1>7. p.field = Characters(t, Open(t, i))
  BY <1>4, <1>5
<1>8. p.active <=> p.active \/ t[i] # CR
  OBVIOUS
<1>9. Tabled(t, i, b, p)
  BY <1>3, <1>6, <1>7, <1>8, StayStep
<1>10. Moded(t, i, p)
  <2>1. Outside(t, i + 1) <=> Outside(t, i)
    BY <1>1, OutsideNext
  <2> QED BY <1>1, <2>1 DEF Moded
<1> QED BY <1>9, <1>10

(* The text is well-formed as far as it is read.                           *)
FineAt(t, i) == GoodAt(t, i) /\ (i \in Ends(t) => Filled(t, i))

LEMMA ReadStep ==
  ASSUME NEW C, {Quote, LF, CR} \subseteq C, NEW t \in Seq(C), t # <<>>,
         NEW h \in 0..Len(t), NEW i, i = h + 1, i \in 1..Len(t), h # 0 => GoodAt(t, h),
         NEW b, NEW p \in Parsers(C), Tabled(t, h, b, p), Moded(t, h, p), Placed(p),
         NEW o, o = Read(p, t, i)
  PROVE  /\ o.ok => p.ok /\ FineAt(t, i) /\ \E d : Tabled(t, i, d, o) /\ Moded(t, i, o)
         /\ p.ok /\ FineAt(t, i) /\ Rectangular(Table(t), p.limit) => o.ok
<1>1. /\ NUL # CR /\ NUL # LF /\ CR # LF /\ LF # Quote /\ CR # Quote
      /\ i \in Nat /\ i # 0 /\ i - 1 = h /\ (i > 1 => h # 0)
  BY DEF NUL, CR, LF, Quote
<1>2. ASSUME o = Reject(p) PROVE ~o.ok
  BY <1>2 DEF Reject, Parsers
<1>3. CASE t[i] = NUL
  <2>1. o = Reject(p)
    BY <1>1, <1>3 DEF Read
  <2>2. ~GoodAt(t, i)
    BY <1>3 DEF GoodAt
  <2> QED BY <1>2, <2>1, <2>2 DEF FineAt
<1>4. CASE t[i] = CR
  <2>1. o = IF i < Len(t) /\ t[i + 1] = LF THEN p ELSE Reject(p)
    BY <1>1, <1>4 DEF Read
  <2>2. GoodAt(t, i) <=> i < Len(t) /\ t[i + 1] = LF
    BY <1>1, <1>4 DEF GoodAt
  <2>3. i \notin Ends(t)
    BY <1>1, <1>4, EndsAre
  <2>4. Tabled(t, i, b, p) /\ Moded(t, i, p)
    BY <1>4, CarriageStep
  <2> QED BY <1>2, <2>1, <2>2, <2>3, <2>4 DEF FineAt
<1>5. CASE t[i] = LF
  <2>1. GoodAt(t, i)
    BY <1>1, <1>5 DEF GoodAt
  <2>2. o = Newline(p, IF i > 1 /\ t[i - 1] = CR THEN <<CR, LF>> ELSE <<LF>>)
    BY <1>1, <1>5 DEF Read
  <2>3. CASE Outside(t, i)
    <3>1. PICK s \in Seq(C) : o = Newline(p, s)
      <4>1. CR \in C /\ LF \in C
        OBVIOUS
      <4>2. <<CR, LF>> \in Seq(C) /\ <<LF>> \in Seq(C)
        BY <4>1
      <4> QED BY <2>2, <4>2
    <3>2. /\ o.ok => p.ok /\ Filled(t, i)
          /\ Tabled(t, i, i, o) /\ Moded(t, i, o)
          /\ p.ok /\ Filled(t, i) /\ Rectangular(Table(t), p.limit) => o.ok
      BY <1>5, <2>3, <3>1, FeedStep
    <3>3. i \in Ends(t)
      BY <1>5, <2>3, EndsAre
    <3> QED BY <2>1, <3>2, <3>3 DEF FineAt
  <2>4. CASE ~Outside(t, i)
    <3>1. /\ o.ok => p.ok
          /\ Tabled(t, i, b, o) /\ Moded(t, i, o)
          /\ p.ok /\ Rectangular(Table(t), p.limit) => o.ok
      <4>1. {CR, LF} \subseteq C
        OBVIOUS
      <4> QED BY <1>5, <2>2, <2>4, <4>1, FoldStep
    <3>2. i \notin Ends(t)
      BY <2>4, EndsAre
    <3> QED BY <2>1, <3>1, <3>2 DEF FineAt
  <2> QED BY <2>3, <2>4
<1>6. CASE t[i] \notin {NUL, CR, LF}
  <2>1. o = Character(p, t[i])
    BY <1>6 DEF Read
  <2>2. /\ o.ok => p.ok /\ GoodAt(t, i) /\ Tabled(t, i, b, o) /\ Moded(t, i, o)
        /\ p.ok /\ GoodAt(t, i) /\ Rectangular(Table(t), p.limit) => o.ok
    BY <1>6, <2>1, CharacterStep
  <2>3. i \notin Ends(t)
    BY <1>6, EndsAre
  <2> QED BY <2>2, <2>3 DEF FineAt
<1> QED BY <1>3, <1>4, <1>5, <1>6

-----------------------------------------------------------------------------
(* What holds after i characters: if the automaton has accepted them, they *)
(* are well-formed and it holds the reference's parts of the table; and it *)
(* accepts them if they are well-formed and the whole table fits.          *)
Accepts(t, i, p) ==
  /\ p.ok => /\ \A j \in 1..i : FineAt(t, j)
             /\ \E b : Tabled(t, i, b, p) /\ Moded(t, i, p)
  /\ (\A j \in 1..i : FineAt(t, j)) /\ Rectangular(Table(t), p.limit) => p.ok

LEMMA StartAccepts ==
  ASSUME NEW C, NEW t \in Seq(C), t # <<>>, NEW limit \in Nat, NEW p, p = Start(limit)
  PROVE  p.ok /\ Tabled(t, 0, 0, p) /\ Moded(t, 0, p)
<1>1. /\ p.mode = "start" /\ p.records = <<>> /\ p.cells = <<>> /\ p.field = <<>>
      /\ p.line = 1 /\ p.first = 1 /\ ~p.active /\ p.ok
  BY DEF Start
<1>2. \A x \in LFs(t) : ~(x <= 0)
  BY EndsAre
<1>3. Since(t, 0, 0)
  BY <1>2 DEF Since
<1>4. Cardinality(Complete(t, 0)) = 0
  <2>1. Complete(t, 0) = {}
    BY <1>2 DEF Complete
  <2> QED BY <2>1, FS_EmptySet
<1>5. Between(t, 0, 0) = {} /\ Open(t, 0) = {}
  <2>1. \A d : ~(0 < d /\ d <= 0) \/ d \notin Nat
    OBVIOUS
  <2>2. Between(t, 0, 0) = {}
    <3>1. \A d \in Cuts(t) : d \in Nat
      BY EndsAre
    <3> QED BY <2>1, <3>1 DEF Between
  <2>3. Open(t, 0) = {}
    BY DEF Open, Reach, Content
  <2> QED BY <2>2, <2>3
<1>6. p.cells = Cells(t, Between(t, 0, 0)) /\ p.field = Characters(t, Open(t, 0))
  BY <1>1, <1>5, NoCells
<1>7. LineOf(t, 0 + 1) = 1
  BY LineOfFirst
<1>8. ~\E j \in (0 + 1)..0 : t[j] # CR
  OBVIOUS
<1>9. Len(p.records) = 0
  BY <1>1
<1>10. Tabled(t, 0, 0, p)
  BY <1>1, <1>3, <1>4, <1>6, <1>7, <1>8, <1>9 DEF Tabled
<1>11. Outside(t, 0 + 1)
  BY OutsideFirst
<1> QED BY <1>1, <1>10, <1>11 DEF Moded, ModeAt

(* What was rejected stays so.                                             *)
LEMMA RejectsOn ==
  ASSUME NEW C, {Quote, LF, CR} \subseteq C, NEW p \in Parsers(C), ~p.ok,
         NEW t \in Seq(C), NEW i \in 1..Len(t), NEW o, o = Read(p, t, i)
  PROVE  ~o.ok
<1>1. ASSUME o = Reject(p) PROVE ~o.ok
  BY <1>1 DEF Reject, Parsers
<1>2. ASSUME NEW s \in {<<CR, LF>>, <<LF>>}, o = Newline(p, s) PROVE ~o.ok
  <2>1. s \in Seq(C)
    <3>1. CR \in C /\ LF \in C
      OBVIOUS
    <3>2. <<CR, LF>> \in Seq(C) /\ <<LF>> \in Seq(C)
      BY <3>1
    <3> QED BY <3>2
  <2>2. CASE p.mode = "quoted"
    <3>1. o.ok <=> p.ok /\ Len(p.field) + Len(s) <= p.limit
      BY <1>2, <2>1, <2>2, NewlineIs
    <3> QED BY <3>1
  <2>3. CASE p.mode # "quoted"
    <3>1. o.ok <=> EndRecord(p).ok
      BY <1>2, <2>1, <2>3, NewlineIs
    <3>2. PICK q : q = EndRecord(p)
      OBVIOUS
    <3>3. q.ok => p.ok
      BY <3>2, EndRecordIs
    <3> QED BY <3>1, <3>2, <3>3
  <2> QED BY <2>2, <2>3
<1>3. ASSUME o = Character(p, t[i]) PROVE ~o.ok
  <2>1. PICK q : q = [p EXCEPT !.active = TRUE]
    OBVIOUS
  <2>2. q \in Parsers(C) /\ ~q.ok
    BY <2>1 DEF Parsers
  <2>3. PICK s : s = <<t[i]>>
    OBVIOUS
  <2>4. \/ o = Put(q, s, "quoted") \/ o = Put(q, s, "unquoted")
        \/ o = Reject(q) \/ o = EndCell(q)
        \/ o = [q EXCEPT !.mode = "closed"] \/ o = [q EXCEPT !.mode = "quoted"]
    BY <1>3, <2>1, <2>3 DEF Character
  <2>5. CASE o = Put(q, s, "quoted") \/ o = Put(q, s, "unquoted")
    <3>1. PICK mode : o = Put(q, s, mode)
      BY <2>5
    <3>2. o.ok <=> q.ok /\ Len(q.field) + Len(s) <= q.limit
      BY <2>2, <3>1, PutIs
    <3> QED BY <2>2, <3>2
  <2>6. CASE o = EndCell(q)
    <3>1. o.ok <=> q.ok /\ Len(q.cells) < ColumnLimit
      BY <2>2, <2>6, EndCellIs
    <3> QED BY <2>2, <3>1
  <2>7. CASE \/ o = Reject(q)
             \/ o = [q EXCEPT !.mode = "closed"] \/ o = [q EXCEPT !.mode = "quoted"]
    BY <2>2, <2>7 DEF Reject, Parsers
  <2> QED BY <2>4, <2>5, <2>6, <2>7
<1>4. \/ o = Reject(p) \/ o = p \/ o = Character(p, t[i])
      \/ \E s \in {<<CR, LF>>, <<LF>>} : o = Newline(p, s)
  BY DEF Read
<1> QED BY <1>1, <1>2, <1>3, <1>4

LEMMA AcceptsNext ==
  ASSUME NEW C, {Quote, LF, CR} \subseteq C, NEW t \in Seq(C), t # <<>>, NEW limit,
         NEW h \in 0..Len(t), NEW i, i = h + 1, i \in 1..Len(t),
         NEW p, ReadUpTo(C, t, limit, h, p), Accepts(t, h, p), NEW o, o = Read(p, t, i),
         o.limit = p.limit
  PROVE  Accepts(t, i, o)
<1>1. p \in Parsers(C) /\ Placed(p)
  BY DEF ReadUpTo
<1>2. /\ i \in Nat /\ h \in Nat /\ \A j : j \in 1..i <=> j \in 1..h \/ j = i
      /\ h # 0 => h \in 1..h
  OBVIOUS
<1>3. CASE ~p.ok
  <2>1. ~o.ok
    BY <1>1, <1>3, RejectsOn
  <2>2. ~((\A j \in 1..h : FineAt(t, j)) /\ Rectangular(Table(t), p.limit))
    BY <1>3 DEF Accepts
  <2> QED BY <1>2, <2>1, <2>2 DEF Accepts
<1>4. CASE p.ok
  <2>1. PICK b : Tabled(t, h, b, p) /\ Moded(t, h, p)
    BY <1>4 DEF Accepts
  <2>2. \A j \in 1..h : FineAt(t, j)
    BY <1>4 DEF Accepts
  <2>3. h # 0 => GoodAt(t, h)
    BY <1>2, <2>2 DEF FineAt
  <2>4. /\ o.ok => p.ok /\ FineAt(t, i) /\ \E d : Tabled(t, i, d, o) /\ Moded(t, i, o)
        /\ p.ok /\ FineAt(t, i) /\ Rectangular(Table(t), p.limit) => o.ok
    BY <1>1, <2>1, <2>3, ReadStep
  <2>5. (\A j \in 1..i : FineAt(t, j)) <=> FineAt(t, i)
    BY <1>2, <2>2
  <2> QED BY <1>4, <2>4, <2>5 DEF Accepts
<1>5. p.ok \in BOOLEAN
  BY <1>1 DEF Parsers
<1> QED BY <1>3, <1>4, <1>5

LEMMA AcceptsAll ==
  ASSUME NEW C, {Quote, LF, CR} \subseteq C, NEW t \in Seq(C), t # <<>>, NEW limit \in Nat,
         NEW n, n = Len(t), NEW end, end = Reading(t, n, Start(limit))[n]
  PROVE  Accepts(t, n, end) /\ ReadUpTo(C, t, limit, n, end)
<1> DEFINE run == Reading(t, n, Start(limit))
           T == {i \in 0..n : ~Accepts(t, i, run[i])}
<1>1. n \in Nat /\ n \in 0..n
  OBVIOUS
<1>2. \A i \in 0..n : run[i] = IF i = 0 THEN Start(limit) ELSE Read(run[i - 1], t, i)
  <2>1. run = [i \in 0..n |-> IF i = 0 THEN Start(limit) ELSE Read(run[i - 1], t, i)]
    BY <1>1, ReadingIs
  <2> HIDE DEF run
  <2> QED BY <2>1
<1>3. \A i \in 0..n : ReadUpTo(C, t, limit, i, run[i])
  BY ReadAll
<1>4. end = run[n]
  OBVIOUS
<1> HIDE DEF run
<1>5. Accepts(t, 0, run[0])
  <2>1. PICK p : p = run[0] /\ p = Start(limit)
    BY <1>1, <1>2
  <2>2. p.ok /\ Tabled(t, 0, 0, p) /\ Moded(t, 0, p)
    BY <2>1, StartAccepts
  <2>3. \A j \in 1..0 : FineAt(t, j)
    OBVIOUS
  <2> QED BY <2>1, <2>2, <2>3 DEF Accepts
<1>6. T = {}
  <2> SUFFICES ASSUME T # {} PROVE FALSE
    OBVIOUS
  <2>1. T \in SUBSET Nat
    BY <1>1
  <2>2. PICK m \in T : \A k \in T : m <= k
    <3> HIDE DEF T
    <3> QED BY <2>1, LeastOf
  <2>3. m # 0
    BY <1>5, <2>2
  <2>4. PICK h \in 0..n : m = h + 1
    <3>1. m - 1 \in 0..n /\ m = (m - 1) + 1
      BY <1>1, <2>2, <2>3
    <3> QED BY <3>1
  <2>5. m \in 1..n /\ h \in 0..Len(t) /\ m \in 1..Len(t) /\ ~(m <= h) /\ m - 1 = h
    BY <1>1, <2>2, <2>3, <2>4
  <2>6. Accepts(t, h, run[h])
    BY <2>2, <2>4, <2>5
  <2>7. PICK p, o : p = run[h] /\ o = run[m]
    OBVIOUS
  <2>8. o = Read(p, t, m)
    BY <1>2, <2>2, <2>3, <2>5, <2>7
  <2>9. ReadUpTo(C, t, limit, h, p) /\ ReadUpTo(C, t, limit, m, o)
    BY <1>3, <2>2, <2>4, <2>7
  <2>10. o.limit = p.limit
    BY <2>9 DEF ReadUpTo
  <2>11. Accepts(t, m, o)
    BY <2>4, <2>5, <2>6, <2>7, <2>8, <2>9, <2>10, AcceptsNext
  <2> QED BY <2>2, <2>7, <2>11
<1>7. Accepts(t, n, run[n])
  BY <1>1, <1>6
<1> QED BY <1>1, <1>3, <1>4, <1>7

LEMMA FunctionOf == ASSUME NEW R, NEW s \in Seq(R) PROVE s \in [1..Len(s) -> R]
  OBVIOUS

LEMMA TableIs ==
  ASSUME NEW t, NEW R, NEW rows \in Seq(R), NEW k \in Nat, k = Len(rows),
         k = Cardinality(Ends(t)), \A m \in 1..k : rows[m] = RecordAt(t, m)
  PROVE  rows = Table(t)
<1>1. rows \in [1..k -> R]
  <2>1. rows \in [1..Len(rows) -> R]
    BY FunctionOf
  <2> QED BY <2>1
<1>2. PICK f : f = Table(t) /\ f = [m \in 1..k |-> RecordAt(t, m)]
  BY DEF Table
<1>3. DOMAIN f = 1..k /\ \A m \in 1..k : f[m] = rows[m]
  BY <1>2
<1>4. f = rows
  BY <1>1, <1>2, <1>3
<1> QED BY <1>2, <1>4

(* What is accepted at the end.                                            *)
LEMMA EndAccepts ==
  ASSUME NEW C, {Quote, LF, CR} \subseteq C, NEW t \in Seq(C), t # <<>>, NEW limit \in Nat,
         NEW n, n = Len(t),
         NEW end, Accepts(t, n, end), ReadUpTo(C, t, limit, n, end),
         NEW last, last = IF end.active THEN EndRecord(end) ELSE end
  PROVE  /\ end.mode # "quoted" /\ last.ok => WellFormed(t) /\ last.records = Table(t)
         /\ WellFormed(t) /\ Rectangular(Table(t), limit) => end.mode # "quoted" /\ last.ok
<1>1. /\ end \in Parsers(C) /\ end.limit = limit /\ end.active \in BOOLEAN /\ end.ok \in BOOLEAN
      /\ n \in Nat \ {0} /\ DOMAIN t = 1..n /\ n \in 0..Len(t)
  BY DEF ReadUpTo, Parsers
<1>2. /\ \A i \in 1..n : i \in Ends(t) <=> i \in LFs(t)
      /\ LFs(t) \in SUBSET (1..n) /\ Ends(t) \in SUBSET (1..(n + 1))
      /\ n + 1 \in Ends(t) <=> n \notin LFs(t)
      /\ n + 1 \notin 1..n /\ \A e \in 1..(n + 1) : e \in 1..n \/ e = n + 1
  BY <1>1, EndsAre
<1>3. WellFormed(t) <=>
        /\ \A i \in 1..n : FineAt(t, i)
        /\ Outside(t, n + 1)
        /\ n \notin LFs(t) => Filled(t, n + 1)
  BY <1>1, <1>2 DEF WellFormed, FineAt
<1>4. end.ok => /\ \A i \in 1..n : FineAt(t, i)
                /\ \E b : Tabled(t, n, b, end) /\ Moded(t, n, end)
  BY DEF Accepts
<1>5. (\A i \in 1..n : FineAt(t, i)) /\ Rectangular(Table(t), limit) => end.ok
  BY <1>1 DEF Accepts
<1>6. last.ok => end.ok
  <2>1. PICK q : q = EndRecord(end)
    OBVIOUS
  <2>2. q.ok => end.ok
    BY <1>1, <2>1, EndRecordIs
  <2> QED BY <1>1, <2>1, <2>2
<1>7. CASE ~end.ok
  BY <1>3, <1>5, <1>6, <1>7
<1>8. CASE end.ok
  <2>1. PICK b : Tabled(t, n, b, end) /\ Moded(t, n, end)
    BY <1>4, <1>8
  <2>2. end.mode # "quoted" <=> Outside(t, n + 1)
    BY <2>1 DEF Moded
  <2>3. /\ Since(t, n, b)
        /\ end.active <=> \E j \in (b + 1)..n : t[j] # CR
        /\ Len(end.records) = Cardinality(Complete(t, b))
        /\ \A k \in 1..Len(end.records) : end.records[k] = RecordAt(t, k)
    BY <2>1 DEF Tabled
  <2>4. end.records \in Seq([lineStart : Nat, lineEnd : Nat, cells : Seq(Seq(C))])
    BY <1>1 DEF Parsers, Tables
  <2>5. CASE n \in LFs(t)
    <3>1. b = n
      <4>1. b \in 0..n /\ n <= b
        BY <1>1, <2>3, <2>5 DEF Since
      <4> QED BY <1>1, <4>1
    <3>2. ~end.active /\ last = end
      <4>1. (b + 1)..n = {}
        BY <1>1, <3>1
      <4> QED BY <2>3, <4>1
    <3>3. Complete(t, b) = Ends(t)
      <4>1. \A x \in 1..n : x <= n
        BY <1>1
      <4>2. Ends(t) = LFs(t)
        BY <1>2, <2>5
      <4> QED BY <1>2, <3>1, <4>1, <4>2 DEF Complete
    <3>4. end.records = Table(t)
      <4>1. PICK k : k = Cardinality(Ends(t)) /\ k = Len(end.records) /\ k \in Nat
        BY <2>3, <2>4, <3>3
      <4>2. \A m \in 1..k : end.records[m] = RecordAt(t, m)
        BY <2>3, <4>1
      <4> QED BY <2>4, <4>1, <4>2, TableIs
    <3> QED BY <1>3, <1>4, <1>8, <2>2, <2>5, <3>2, <3>4
  <2>6. CASE n \notin LFs(t)
    <3>1. CASE ~Outside(t, n + 1)
      BY <1>3, <2>2, <3>1
    <3>2. CASE Outside(t, n + 1)
      <4>1. n + 1 \in Ends(t)
        BY <1>2, <2>6
      <4>2. /\ RecordOf(end) = RecordAt(t, Len(end.records) + 1)
            /\ end.active <=> Filled(t, n + 1)
            /\ end.active /\ end.ok /\ Rectangular(Table(t), end.limit) => EndRecord(end).ok
        BY <1>1, <2>1, <3>2, <4>1, EndStep
      <4>3. end.active
        <5>1. SUFFICES ASSUME ~end.active PROVE FALSE
          BY <1>1
        <5>2. n \in (b + 1)..n
          <6>1. b \in 0..n /\ b # n
            BY <1>1, <2>3, <2>6 DEF Since
          <6> QED BY <1>1, <6>1
        <5>3. t[n] = CR /\ GoodAt(t, n)
          BY <1>1, <1>4, <1>8, <2>3, <5>1, <5>2 DEF FineAt
        <5>4. n < n
          BY <5>3 DEF GoodAt
        <5> QED BY <1>1, <5>4
      <4>4. PICK q : q = EndRecord(end)
        OBVIOUS
      <4>5. last = q /\ q.records = Append(end.records, RecordOf(end))
        <5>1. q.records = Append(end.records, RecordOf(end))
          BY <1>1, <4>4, EndRecordIs
        <5> QED BY <4>3, <4>4, <5>1
      <4>6. Cardinality(Ends(t)) = Len(end.records) + 1
        <5>1. Complete(t, b) = LFs(t)
          <6>1. \A x \in 1..n : x <= n
            BY <1>1
          <6> QED BY <1>2, <2>3, <6>1 DEF Since, Complete
        <5>2. Ends(t) = LFs(t) \cup {n + 1}
          BY <1>2, <4>1
        <5>3. IsFiniteSet(LFs(t)) /\ n + 1 \notin LFs(t)
          BY <1>1, <1>2, PlacesFinite
        <5>4. Cardinality(LFs(t) \cup {n + 1}) = Cardinality(LFs(t)) + 1
          BY <5>3, FS_AddElement
        <5> QED BY <2>3, <5>1, <5>2, <5>4
      <4>7. last.records = Table(t)
        <5>1. PICK rows, r : rows = end.records /\ r = RecordOf(end)
          OBVIOUS
        <5>2. /\ rows \in Seq([lineStart : Nat, lineEnd : Nat, cells : Seq(Seq(C))])
              /\ r \in [lineStart : Nat, lineEnd : Nat, cells : Seq(Seq(C))]
          <6>1. /\ end.line \in Nat /\ end.first \in Nat
                /\ Append(end.cells, end.field) \in Seq(Seq(C))
            BY <1>1 DEF Parsers
          <6> QED BY <2>4, <5>1, <6>1 DEF RecordOf
        <5>3. PICK k \in Nat : k = Len(rows)
          BY <5>2
        <5>4. /\ Append(rows, r) \in Seq([lineStart : Nat, lineEnd : Nat, cells : Seq(Seq(C))])
              /\ Len(Append(rows, r)) = k + 1
              /\ Append(rows, r)[k + 1] = r
              /\ \A m \in 1..k : Append(rows, r)[m] = rows[m]
          BY <5>2, <5>3
        <5>5. ASSUME NEW m \in 1..(k + 1) PROVE Append(rows, r)[m] = RecordAt(t, m)
          <6>1. CASE m = k + 1
            BY <4>2, <5>1, <5>3, <5>4, <6>1
          <6>2. CASE m # k + 1
            <7>1. m \in 1..k
              BY <6>2
            <7> QED BY <2>3, <5>1, <5>3, <5>4, <7>1
          <6> QED BY <6>1, <6>2
        <5>6. k + 1 = Cardinality(Ends(t)) /\ k + 1 \in Nat
          BY <4>6, <5>1, <5>3
        <5>7. Append(rows, r) = Table(t)
          BY <5>4, <5>5, <5>6, TableIs
        <5> QED BY <4>5, <5>1, <5>7
      <4>8. end.ok /\ Rectangular(Table(t), limit) => last.ok
        BY <1>1, <4>2, <4>3, <4>4, <4>5
      <4> QED BY <1>3, <1>4, <1>8, <2>2, <3>2, <4>2, <4>3, <4>7, <4>8
    <3> QED BY <3>1, <3>2
  <2> QED BY <2>5, <2>6
<1> QED BY <1>1, <1>7, <1>8

-----------------------------------------------------------------------------
(* "Deterministic, bounded CSV view": for every text and every release the *)
(* automaton accepts exactly the texts that are well-formed and whose      *)
(* table fits all limits, and returns that table.                          *)
THEOREM ParserIsReference ==
  ASSUME NEW C, NEW raw \in Seq(C), NEW release \in DOMAIN CellLimit
  PROVE  ParseCsv(raw, release) = Reference(raw, release)
<1>1. PICK t, limit, n, D : /\ t = Decoded(raw) /\ limit = CellLimit[release]
                            /\ n = Len(t) /\ D = C \cup {Quote, LF, CR}
  OBVIOUS
<1>2. PICK end : end = Reading(t, n, Start(limit))[n]
  OBVIOUS
<1>3. PICK last : last = IF end.active THEN EndRecord(end) ELSE end
  OBVIOUS
<1>4. ParseCsv(raw, release) = Accepted(raw, end)
  BY <1>1, <1>2, ParseCsvIs
<1>5. PICK fine : fine = /\ t # <<>> /\ Len(raw) <= SourceBytes
                         /\ \A i \in DOMAIN raw : raw[i] # Undecodable
  OBVIOUS
<1>6. Accepted(raw, end) = IF fine /\ end.mode # "quoted" /\ last.ok
                           THEN [parsed |-> TRUE, records |-> last.records] ELSE Failed
  BY <1>1, <1>3, <1>5 DEF Accepted
<1>7. Reference(raw, release) = IF fine /\ WellFormed(t) /\ Rectangular(Table(t), limit)
                                THEN [parsed |-> TRUE, records |-> Table(t)] ELSE Failed
  BY <1>1, <1>5 DEF Reference
<1>8. CASE t = <<>>
  BY <1>4, <1>5, <1>6, <1>7, <1>8
<1>9. CASE t # <<>>
  <2>1. t \in Seq(C)
    BY <1>1, <1>9, DecodedIs
  <2>2. t \in Seq(D) /\ {Quote, LF, CR} \subseteq D /\ limit \in Nat
    BY <1>1, <2>1, CsvLimitsAssumption
  <2>3. Accepts(t, n, end) /\ ReadUpTo(D, t, limit, n, end)
    BY <1>1, <1>2, <1>9, <2>2, AcceptsAll
  <2>4. /\ end.mode # "quoted" /\ last.ok => WellFormed(t) /\ last.records = Table(t)
        /\ WellFormed(t) /\ Rectangular(Table(t), limit) => end.mode # "quoted" /\ last.ok
    BY <1>1, <1>3, <1>9, <2>2, <2>3, EndAccepts
  <2>5. fine /\ end.mode # "quoted" /\ last.ok => Rectangular(last.records, limit)
    <3>1. SUFFICES ASSUME fine, end.mode # "quoted", last.ok PROVE Rectangular(last.records, limit)
      OBVIOUS
    <3>2. PICK r : r = ParseCsv(raw, release)
      OBVIOUS
    <3>3. r = [parsed |-> TRUE, records |-> last.records]
      BY <1>4, <1>6, <3>1, <3>2
    <3>4. r.parsed /\ r.records = last.records
      BY <3>3
    <3>5. Rectangular(r.records, CellLimit[release])
      BY <3>2, <3>4, TablesAreRectangular
    <3> QED BY <1>1, <3>4, <3>5
  <2>6. fine /\ end.mode # "quoted" /\ last.ok <=>
          fine /\ WellFormed(t) /\ Rectangular(Table(t), limit)
    BY <2>4, <2>5
  <2> QED BY <1>4, <1>6, <1>7, <2>4, <2>6
<1> QED BY <1>8, <1>9
=============================================================================
