---------------------------- MODULE CsvReference ----------------------------
(***************************************************************************)
(* What a CSV file is, said without an automaton: a position is outside    *)
(* quotes when an even number of quotes precedes it; records end at line   *)
(* feeds, and cells at commas, that are outside.                           *)
(***************************************************************************)
EXTENDS CsvView

Outside(t, i) == Cardinality({j \in DOMAIN t : j < i /\ t[j] = Quote}) % 2 = 0
Separators(t, c) == {i \in DOMAIN t : t[i] = c /\ Outside(t, i)}

(* Where records end: the last one ends with the text, if not with an LF.  *)
Ends(t) ==
  Separators(t, LF) \cup {n \in {Len(t) + 1} : Len(t) \notin Separators(t, LF)}
Cuts(t) == Ends(t) \cup Separators(t, Comma)

(* The positions whose characters belong to cells: of the quotes, only the *)
(* second one of a pair.                                                   *)
Content(t) ==
  {i \in DOMAIN t : IF t[i] = Quote THEN i > 1 /\ t[i - 1] = Quote /\ Outside(t, i)
                    ELSE t[i] = CR => ~Outside(t, i)}

(* The elements of a finite set of numbers, in order.                      *)
Rank(S, x) == Cardinality({y \in S : y <= x})
Sorted(S) == [k \in 1..Cardinality(S) |-> CHOOSE x \in S : Rank(S, x) = k]

Characters(t, S) == [n \in 1..Cardinality(S) |-> t[Sorted(S)[n]]]
Cell(t, d) == Characters(t, {i \in Content(t) : i < d /\ \A c \in Cuts(t) : c < d => c < i})
Cells(t, D) == [n \in 1..Cardinality(D) |-> Cell(t, Sorted(D)[n])]

RecordAt(t, k) ==
  LET start == IF k = 1 THEN 0 ELSE Sorted(Ends(t))[k - 1]
      end == Sorted(Ends(t))[k]
  IN [lineStart |-> LineOf(t, start + 1), lineEnd |-> LineOf(t, end),
      cells |-> Cells(t, {d \in Cuts(t) : start < d /\ d <= end})]
Table(t) == [k \in 1..Cardinality(Ends(t)) |-> RecordAt(t, k)]

(* Quotes open where a cell begins and close where it ends, unless they    *)
(* are pairs; no record is empty.                                          *)
GoodAt(t, i) ==
  /\ t[i] # NUL
  /\ t[i] = CR => i < Len(t) /\ t[i + 1] = LF
  /\ t[i] = Quote /\ Outside(t, i) /\ i > 1 => t[i - 1] \in {Quote, Comma, LF}
  /\ i > 1 /\ t[i - 1] = Quote /\ ~Outside(t, i - 1) => t[i] \in {Quote, Comma, CR, LF}
Filled(t, e) == \E i \in 1..(e - 1) : t[i] # CR /\ \A d \in Ends(t) : d < e => d < i
WellFormed(t) ==
  /\ \A i \in DOMAIN t : GoodAt(t, i)
  /\ Outside(t, Len(t) + 1)
  /\ \A e \in Ends(t) : Filled(t, e)

(* Every record has as many cells as the header, and all limits hold.      *)
Small(cells, limit) ==
  /\ Len(cells) \in 1..ColumnLimit
  /\ \A n \in DOMAIN cells : Len(cells[n]) <= limit

Rectangular(records, limit) ==
  /\ Len(records) <= RowLimit
  /\ \A k \in DOMAIN records :
       Small(records[k].cells, limit) /\ Len(records[k].cells) = Len(records[1].cells)

Reference(raw, release) ==
  LET t == Decoded(raw)
  IN IF /\ t # <<>> /\ Len(raw) <= SourceBytes
        /\ \A i \in DOMAIN raw : raw[i] # Undecodable
        /\ WellFormed(t) /\ Rectangular(Table(t), CellLimit[release])
     THEN [parsed |-> TRUE, records |-> Table(t)]
     ELSE Failed

=============================================================================
