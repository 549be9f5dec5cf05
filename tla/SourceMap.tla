------------------------------- MODULE SourceMap -------------------------------
(***************************************************************************)
(* internal/symbolicate: reading the mappings of a source map, and finding *)
(* a position in them.  The text of the mappings is a sequence of lines,   *)
(* the pieces between ";", of sequences of segments, the pieces between    *)
(* ",", of base64 digits, 0..63, or -1 for a character that is none.       *)
(*                                                                         *)
(* A position is the tuple of what a segment says of the original: source  *)
(* index, line, column and perhaps a name's index, or << >> if it says     *)
(* nothing.  The lookup of source and name in their lists is left out, and *)
(* so is the overflow of an int, which takes a value of thirteen digits.   *)
(***************************************************************************)
EXTENDS Integers, Sequences, SequencesExt

--------------------------------------------------------------------------------
(* decodeVLQ and the loop around it, a digit at a time. *)

Signed(n) == IF n % 2 = 1 THEN -(n \div 2) ELSE n \div 2

ReadDigit(s, digit) ==
  IF ~s.ok \/ digit < 0 THEN [s EXCEPT !.ok = FALSE]
  ELSE LET result == s.result + (digit % 32) * s.weight
       IN IF digit >= 32
          THEN [s EXCEPT !.result = result, !.weight = 32 * @]
          ELSE [s EXCEPT !.result = 0, !.weight = 1, !.values = Append(@, Signed(result))]

Digits(seg) ==
  LET read[n \in 0 .. Len(seg)] ==
        IF n = 0 THEN [ok |-> TRUE, result |-> 0, weight |-> 1, values |-> << >>]
        ELSE ReadDigit(read[n - 1], seg[n])
  IN  read[Len(seg)]

(* Not truncated, and of one, four or five fields. *)
WellFormed(seg) ==
  /\ Digits(seg).ok /\ Digits(seg).weight = 1
  /\ Len(Digits(seg).values) \in {1, 4, 5}

(* The first field is relative to the segment before it in the line, each of *)
(* the others to the same field wherever it last was.                        *)
ReadSegment(s, seg) ==
  IF ~s.ok \/ seg = << >> THEN s
  ELSE IF ~WellFormed(seg) THEN [s EXCEPT !.ok = FALSE]
  ELSE LET values == Digits(seg).values
           column == s.column + values[1]
           last == [i \in 1..4 |-> s.last[i] + (IF i < Len(values) THEN values[i + 1] ELSE 0)]
       IN [s EXCEPT !.column = column, !.last = last,
                    !.segs = Append(@, [column |-> column,
                                        fields |-> SubSeq(last, 1, Len(values) - 1)])]

Segments(start, line) ==
  LET read[k \in 0 .. Len(line)] ==
        IF k = 0 THEN start ELSE ReadSegment(read[k - 1], line[k])
  IN  read[Len(line)]

ReadLineSlip(s, line) ==    \* every field starts anew in a line
  LET read == Segments([ok |-> s.ok, column |-> 0, last |-> <<0, 0, 0, 0>>, segs |-> << >>], line)
  IN  [ok |-> read.ok, last |-> read.last, lines |-> Append(s.lines, read.segs)]

ReadLine(s, line) ==
  LET read == Segments([ok |-> s.ok, column |-> 0, last |-> s.last, segs |-> << >>], line)
  IN  [ok |-> read.ok, last |-> read.last, lines |-> Append(s.lines, read.segs)]

Parse(mappings) ==
  LET read[n \in 0 .. Len(mappings)] ==
        IF n = 0 THEN [ok |-> TRUE, last |-> <<0, 0, 0, 0>>, lines |-> << >>]
        ELSE ReadLine(read[n - 1], mappings[n])
  IN  read[Len(mappings)]

(* Lines and columns count from 0.  The columns of a line never decrease, so *)
(* the segment before the first one beyond the column is what sort.Search    *)
(* leads to.                                                                 *)
Beyond(segs, column) == {i \in DOMAIN segs : segs[i].column > column}

Resolve(lines, line, column) ==
  IF line + 1 \notin DOMAIN lines THEN << >>
  ELSE LET segs == lines[line + 1]
           idx == IF Beyond(segs, column) = {} THEN Len(segs) ELSE Min(Beyond(segs, column)) - 1
       IN IF idx = 0 THEN << >> ELSE segs[idx].fields

--------------------------------------------------------------------------------
(* How a bundler writes a map: lines of segments with absolute values, whose *)
(* columns never decrease.                                                    *)

Segment == [column : Nat, fields : {fields \in Seq(Nat) : Len(fields) \in {0, 3, 4}}]

IsMap(map) ==
  /\ map \in Seq(Seq(Segment))
  /\ \A l \in DOMAIN map : \A j, k \in DOMAIN map[l] :
       j <= k => map[l][j].column <= map[l][k].column

VLQ[n \in Nat] == IF n < 32 THEN <<n>> ELSE <<32 + (n % 32)>> \o VLQ[n \div 32]

Number(v) == VLQ[IF v < 0 THEN 1 - 2 * v ELSE 2 * v]

(* The places of the segments before the k-th of line l that have a field i. *)
Earlier(map, l, k, i) ==
  {p \in UNION {{j} \X DOMAIN map[j] : j \in 1 .. l} :
     (p[1] < l \/ p[2] < k) /\ Len(map[p[1]][p[2]].fields) >= i}

Latest(places) ==
  CHOOSE p \in places : \A q \in places : q[1] < p[1] \/ (q[1] = p[1] /\ q[2] <= p[2])

(* What field i was when it last was. *)
Previous(map, l, k, i) ==
  LET earlier == Earlier(map, l, k, i)
      p == Latest(earlier)
  IN  IF earlier = {} THEN 0 ELSE map[p[1]][p[2]].fields[i]

(* The values of the k-th segment of line l, as they are written. *)
Deltas(map, l, k) ==
  LET seg == map[l][k]
      column == IF k = 1 THEN 0 ELSE map[l][k - 1].column
  IN  [n \in 1 .. Len(seg.fields) + 1 |->
         IF n = 1 THEN seg.column - column
         ELSE seg.fields[n - 1] - Previous(map, l, k, n - 1)]

Encoded(map) ==
  [l \in DOMAIN map |-> [k \in DOMAIN map[l] |->
     FlattenSeq([n \in DOMAIN Deltas(map, l, k) |-> Number(Deltas(map, l, k)[n])])]]

(* What a map says of a position: what its last segment up to there says. *)
Meant(map, line, column) ==
  IF \E k \in DOMAIN map[line] : map[line][k].column <= column
  THEN map[line][CHOOSE k \in DOMAIN map[line] :
         /\ map[line][k].column <= column
         /\ \A j \in DOMAIN map[line] : map[line][j].column <= column => j <= k].fields
  ELSE << >>

(* Parse and Resolve give the columns of a map's lines their meaning. *)
ReadRight(map, columns) ==
  LET parsed == Parse(Encoded(map))
  IN /\ parsed.ok
     /\ \A line \in DOMAIN map : \A column \in columns :
          Resolve(parsed.lines, line - 1, column) = Meant(map, line, column)

================================================================================
