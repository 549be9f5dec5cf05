---------------------------- MODULE EnvelopeFraming ----------------------------
(***************************************************************************)
(* ParseEnvelope of internal/protocol, as the loop it is: a reader that    *)
(* takes a header line, then a header line and a payload per item, from    *)
(* what readEnvelopeBody let through of the body an SDK wrote.             *)
(*                                                                         *)
(* Bytes are tokens.  A JSON object is two of them, Open(length) and Close,*)
(* so that it can be cut in its middle; which other fields it has does not *)
(* matter here.  Text stands for bytes that are not part of an object, and *)
(* for blanks there is CR.                                                 *)
(***************************************************************************)
EXTENDS Integers, Sequences, SequencesExt

CONSTANTS
  ExplicitPayloads,   \* payloads an SDK sends with a length
  ImplicitPayloads,   \* payloads it sends without: one line each
  MaxItems            \* bound: items in an envelope

NL == <<"nl">>
CR == <<"cr">>
Text == <<"text">>
Close == <<"close">>
Open(length) == <<"open", length>>

(* ItemHeader.Length is a pointer: {} is nil. *)
Object(length) == <<Open(length), Close>>
NoLength == {}

(* A line feed would end an implicit payload, a carriage return before the *)
(* end of the line be taken for a part of it: SDKs that send JSON have     *)
(* neither.                                                                *)
ASSUME FramingAssumption ==
  /\ MaxItems \in Nat
  /\ \A p \in ExplicitPayloads \cup ImplicitPayloads : p \in Seq(ToSet(p))
  /\ \A p \in ImplicitPayloads : NL \notin ToSet(p) /\ CR \notin ToSet(p)

VARIABLES
  sdk,      \* the envelope an SDK writes: its items, their ends, the line ends, the body
  arrived,  \* how many bytes of the body get through
  rest,     \* what the reader has not consumed
  items,    \* the items so far
  status    \* "writing", "header", "item", "done", "failed"

vars == <<sdk, arrived, rest, items, status>>

Item == [length : {NoLength}, payload : ImplicitPayloads]
          \cup {[length |-> {Len(p)}, payload |-> p] : p \in ExplicitPayloads}

UpTo(n, s) == SubSeq(s, 1, IF n <= Len(s) THEN n ELSE Len(s))

After(n, s) == SubSeq(s, n + 1, Len(s))

--------------------------------------------------------------------------------
(* What arrives.  The lines of an envelope end with NL or with CR, NL. *)

WriteItem(item) ==
  /\ status = "writing" /\ Len(sdk.items) < MaxItems
  /\ LET upToEnd == sdk.body \o Object(item.length) \o sdk.eol \o item.payload
     IN sdk' = [sdk EXCEPT !.items = Append(@, item),
                           !.ends = Append(@, Len(upToEnd)),
                           !.body = upToEnd \o sdk.eol]
  /\ UNCHANGED <<arrived, rest, items, status>>

(* A body over the limit is cut there without an error, by io.LimitReader, and *)
(* so is what a compressed body unzips to.  A compressed body that is itself   *)
(* cut is refused by gzip before anything is parsed, and never arrives here.   *)
Arrive(n) ==
  /\ status = "writing"
  /\ arrived' = n
  /\ rest' = UpTo(n, sdk.body)
  /\ status' = "header"
  /\ UNCHANGED <<sdk, items>>

(* All of it, but for the end of the last line, which an SDK may leave out. *)
Whole == arrived >= Len(sdk.body) - Len(sdk.eol)

--------------------------------------------------------------------------------
(* readLine: the line without its end, what follows it, and whether it was *)
(* the last one.                                                           *)

LineEnds(s) == {n \in DOMAIN s : s[n] = NL}

AtEOF(s) == LineEnds(s) = {}

LineEnd(s) == IF AtEOF(s) THEN Len(s) + 1 ELSE Min(LineEnds(s))

TrimCR(line) == IF line # <<>> /\ Last(line) = CR THEN Front(line) ELSE line

Line(s) == TrimCR(SubSeq(s, 1, LineEnd(s) - 1))

AfterLine(s) == After(LineEnd(s), s)

(* consumeNewline looks for NL only: the CR, NL after a payload with a length *)
(* stay, and are the blank line of the next round.                            *)
DropNewline(s) == IF s # <<>> /\ Head(s) = NL THEN Tail(s) ELSE s

(* json.Unmarshal takes a carriage return for white space. *)
Inked(line) == {n \in DOMAIN line : line[n] # CR}

Blank(line) == Inked(line) = {}

IsObject(line) ==
  \E n, k \in DOMAIN line :
    /\ Inked(line) = {n, k} /\ n < k
    /\ line[n][1] = "open" /\ line[k] = Close

HeaderLength(line) == line[Min(Inked(line))][2]

--------------------------------------------------------------------------------
Init ==
  /\ \E eol \in {<<NL>>, <<CR, NL>>} :
       sdk = [items |-> <<>>, ends |-> <<>>, eol |-> eol, body |-> Object(NoLength) \o eol]
  /\ arrived = 0
  /\ rest = <<>>
  /\ items = <<>>
  /\ status = "writing"

ReadEnvelopeHeader ==
  /\ status = "header"
  /\ Blank(Line(rest)) \/ IsObject(Line(rest))
  /\ status' = "item"
  /\ rest' = AfterLine(rest)
  /\ UNCHANGED <<sdk, arrived, items>>

(* An error returns no envelope: the items read before it are gone, too. *)
Refuse ==
  /\ status' = "failed"
  /\ items' = <<>>
  /\ UNCHANGED <<sdk, arrived, rest>>

RefuseEnvelopeHeader ==
  /\ status = "header"
  /\ ~Blank(Line(rest)) /\ ~IsObject(Line(rest))
  /\ Refuse

EndOfBody ==
  /\ status = "item" /\ rest = <<>>
  /\ status' = "done"
  /\ UNCHANGED <<sdk, arrived, rest, items>>

BlankLineSlip ==
  /\ status = "item" /\ rest # <<>>
  /\ Blank(Line(rest))
  /\ status' = "done"
  /\ UNCHANGED <<sdk, arrived, rest, items>>

BlankLine ==
  /\ status = "item" /\ rest # <<>>
  /\ Blank(Line(rest))
  /\ status' = IF AtEOF(rest) THEN "done" ELSE "item"
  /\ rest' = AfterLine(rest)
  /\ UNCHANGED <<sdk, arrived, items>>

RefuseItemHeader ==
  /\ status = "item"
  /\ ~Blank(Line(rest)) /\ ~IsObject(Line(rest))
  /\ Refuse

(* The reader is at the header of an item. *)
ItemHeader(length) ==
  /\ status = "item"
  /\ IsObject(Line(rest)) /\ HeaderLength(Line(rest)) = length

CompleteSlip(n) == TRUE

(* io.ReadFull: less than the length of the buffer is an error. *)
Complete(n) == Len(UpTo(n, AfterLine(rest))) = n

TakeExplicit(n) ==
  LET after == AfterLine(rest)
  IN /\ items' = Append(items, [length |-> {n}, payload |-> UpTo(n, after)])
     /\ rest' = DropNewline(After(n, after))
     /\ status' = IF AtEOF(rest) THEN "done" ELSE "item"

ReadExplicit(n) ==
  /\ ItemHeader({n})
  /\ Complete(n)
  /\ TakeExplicit(n)
  /\ UNCHANGED <<sdk, arrived>>

RefuseShortPayload(n) ==
  /\ ItemHeader({n})
  /\ ~Complete(n)
  /\ Refuse

(* A payload without a length is a line. *)
ReadImplicit ==
  /\ ItemHeader(NoLength)
  /\ LET after == AfterLine(rest)
     IN /\ items' = Append(items, [length |-> NoLength, payload |-> Line(after)])
        /\ rest' = AfterLine(after)
        /\ status' = IF AtEOF(after) THEN "done" ELSE "item"
  /\ UNCHANGED <<sdk, arrived>>

Lengths == {Len(p) : p \in ExplicitPayloads}

Next ==
  \/ \E item \in Item : WriteItem(item)
  \/ \E n \in 0 .. Len(sdk.body) : Arrive(n)
  \/ ReadEnvelopeHeader \/ RefuseEnvelopeHeader
  \/ EndOfBody \/ BlankLine \/ RefuseItemHeader
  \/ \E n \in Lengths : ReadExplicit(n) \/ RefuseShortPayload(n)
  \/ ReadImplicit

Spec == Init /\ [][Next]_vars

--------------------------------------------------------------------------------

Prefixed(part, whole) == \E n \in 0..Len(whole) : part = SubSeq(whole, 1, n)

(* ParseEnvelope reads an envelope that arrived as a whole to exactly the    *)
(* items that were put in, whatever their payloads contain and mix of        *)
(* lengths, however its lines end, and with or without an end of the last.   *)
RoundTrip ==
  Whole =>
    /\ status # "failed"
    /\ status = "done" => items = sdk.items

(* ParseEnvelope never takes a payload's bytes for an item, nor gives an item *)
(* bytes of another, though readEnvelopeBody may have cut the body anywhere:  *)
(* what it returns is what was put in, in its order, and every item of which  *)
(* all bytes got through; the last may be shorter if it came without a length.*)
CutHarmless ==
  /\ \A i \in DOMAIN items :
       /\ i \in DOMAIN sdk.items
       /\ items[i].length = sdk.items[i].length
       /\ \/ items[i].payload = sdk.items[i].payload
          \/ /\ i = Len(items) /\ items[i].length = NoLength /\ status = "done"
             /\ ~Whole /\ Prefixed(items[i].payload, sdk.items[i].payload)
  /\ status = "done" =>
       \A i \in DOMAIN sdk.items : sdk.ends[i] <= arrived => i <= Len(items)

================================================================================
