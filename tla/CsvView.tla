------------------------------ MODULE CsvView ------------------------------
(***************************************************************************)
(* The CSV parser of the table view, of CSV search and of evidence         *)
(* verification (parse_csv).  No state: parsing is the run of an automaton *)
(* over the text, one position at a time, and the automaton's state is a   *)
(* record.  A text is a sequence of characters; a character is one byte    *)
(* long, and Undecodable stands for bytes that are not UTF-8.              *)
(***************************************************************************)
EXTENDS Integers, Sequences, FiniteSets

CONSTANTS
  SourceBytes,  \* LIMITS.sourceBytes
  RowLimit,     \* LIMITS.records, the header included
  ColumnLimit,  \* LIMITS.columns
  CellLimit     \* LIMITS.cellBytes of every release: a release is PARSER_VERSION

ASSUME CsvLimitsAssumption ==
  /\ RowLimit \in Nat /\ ColumnLimit \in Nat
  /\ \A release \in DOMAIN CellLimit : CellLimit[release] \in Nat

Quote == "quote"
Comma == "comma"
LF == "LF"
CR == "CR"
NUL == "NUL"
BOM == "BOM"
Undecodable == "undecodable"

-----------------------------------------------------------------------------
(* mode: "start", "unquoted", "quoted" or "closed".  ok turns FALSE where  *)
(* the code raises ParseFailure, and stays so.                             *)
Start(limit) ==
  [mode |-> "start", records |-> <<>>, cells |-> <<>>, field |-> <<>>,
   line |-> 1, first |-> 1, active |-> FALSE, ok |-> TRUE, limit |-> limit]

Reject(p) == [p EXCEPT !.ok = FALSE]

Put(p, s, mode) ==
  [p EXCEPT !.field = @ \o s, !.mode = mode,
            !.ok = @ /\ Len(p.field) + Len(s) <= p.limit]

EndCell(p) ==
  [p EXCEPT !.cells = Append(@, p.field), !.field = <<>>, !.mode = "start",
            !.ok = @ /\ Len(p.cells) < ColumnLimit]

(* A plausible slip: the columns are counted but not compared.             *)
EndRecordRagged(p) ==
  LET c == EndCell(p)
      record == [lineStart |-> p.first, lineEnd |-> p.line, cells |-> c.cells]
  IN [c EXCEPT !.records = Append(@, record), !.cells = <<>>, !.active = FALSE,
               !.ok = @ /\ p.active /\ Len(p.records) < RowLimit]

EndRecord(p) ==
  LET c == EndCell(p)
      record == [lineStart |-> p.first, lineEnd |-> p.line, cells |-> c.cells]
  IN [c EXCEPT
        !.records = Append(@, record), !.cells = <<>>, !.active = FALSE,
        !.ok = /\ @ /\ p.active /\ Len(p.records) < RowLimit
               /\ p.records # <<>> => Len(c.cells) = Len(p.records[1].cells)]

NewlineUncounted(p, s) ==
  IF p.mode = "quoted" THEN Put(p, s, "quoted")
  ELSE [EndRecord(p) EXCEPT !.line = @ + 1, !.first = p.line + 1]

Newline(p, s) ==
  IF p.mode = "quoted" THEN [Put(p, s, "quoted") EXCEPT !.line = @ + 1]
  ELSE [EndRecord(p) EXCEPT !.line = @ + 1, !.first = p.line + 1]

Character(p, c) ==
  LET q == [p EXCEPT !.active = TRUE] IN
  CASE p.mode = "quoted" ->
         IF c = Quote THEN [q EXCEPT !.mode = "closed"] ELSE Put(q, <<c>>, "quoted")
    [] p.mode = "closed" /\ c = Quote -> Put(q, <<c>>, "quoted")
    [] p.mode = "closed" /\ c \notin {Quote, Comma} -> Reject(q)
    [] p.mode # "quoted" /\ c = Comma -> EndCell(q)
    [] p.mode = "start" /\ c = Quote -> [q EXCEPT !.mode = "quoted"]
    [] p.mode = "unquoted" /\ c = Quote -> Reject(q)
    [] OTHER -> Put(q, <<c>>, "unquoted")

(* One position of the text; CR LF is read as one newline, at its LF.      *)
Read(p, text, i) ==
  CASE text[i] = NUL -> Reject(p)
    [] text[i] = CR -> IF i < Len(text) /\ text[i + 1] = LF THEN p ELSE Reject(p)
    [] text[i] = LF -> Newline(p, IF i > 1 /\ text[i - 1] = CR THEN <<CR, LF>> ELSE <<LF>>)
    [] OTHER -> Character(p, text[i])

Failed == [parsed |-> FALSE, records |-> <<>>]

Decoded(raw) == IF raw # <<>> /\ raw[1] = BOM THEN Tail(raw) ELSE raw

(* records[1] is the header.                                               *)
ParseCsv(raw, release) ==
  LET text == Decoded(raw)
      run[i \in 0..Len(text)] ==
        IF i = 0 THEN Start(CellLimit[release]) ELSE Read(run[i - 1], text, i)
      end == run[Len(text)]
      last == IF end.active THEN EndRecord(end) ELSE end
  IN IF /\ text # <<>> /\ Len(raw) <= SourceBytes
        /\ \A i \in DOMAIN raw : raw[i] # Undecodable
        /\ end.mode # "quoted" /\ last.ok
     THEN [parsed |-> TRUE, records |-> last.records]
     ELSE Failed

(* lines[first-1:last] of raw split after every LF, joined: rawExcerpt.    *)
LineOf(raw, i) == 1 + Cardinality({j \in 1..(i - 1) : raw[j] = LF})

Excerpt(raw, first, last) ==
  LET from == Cardinality({i \in DOMAIN raw : LineOf(raw, i) < first})
      upto == Cardinality({i \in DOMAIN raw : LineOf(raw, i) <= last})
  IN SubSeq(raw, from + 1, upto)

(* The excerpts of all records, one after another, are the whole text: no  *)
(* line is lost and none is quoted twice.                                  *)
Joined(raw, records) ==
  LET all[k \in 0..Len(records)] ==
        IF k = 0 THEN <<>>
        ELSE all[k - 1] \o Excerpt(raw, records[k].lineStart, records[k].lineEnd)
  IN all[Len(records)]

Tiled(raw, release) ==
  LET records == ParseCsv(raw, release).records
  IN records # <<>> => Joined(raw, records) = raw

=============================================================================
