----------------------------- MODULE FramingProofs -----------------------------
(***************************************************************************)
(* EnvelopeFraming, for any payloads and any number of items: the reader   *)
(* is always at a place of the body that it should be at, the beginning of *)
(* an item, or the line end after a payload that came with a length.       *)
(***************************************************************************)
EXTENDS EnvelopeFraming, SequenceTheorems, TLAPS

Bytes ==
  {NL, CR, Close} \cup {Open(length) : length \in SUBSET Nat}
    \cup UNION {ToSet(p) : p \in ExplicitPayloads \cup ImplicitPayloads}

(* Where item i begins and its payload ends.  Item 0 is the envelope's header. *)
End(i) == IF i = 0 THEN 2 ELSE sdk.ends[i]
Start(i) == End(i - 1) + Len(sdk.eol)

(* A line end after the first p bytes, an object after them. *)
EolAt(p) ==
  /\ Len(sdk.eol) = 1 => sdk.body[p + 1] = NL
  /\ Len(sdk.eol) = 2 => sdk.body[p + 1] = CR /\ sdk.body[p + 2] = NL

ObjectAt(p, length) ==
  /\ sdk.body[p + 1] = Open(length) /\ sdk.body[p + 2] = Close
  /\ EolAt(p + 2)

PayloadAt(p, payload) == \A k \in 1 .. Len(payload) : sdk.body[p + k] = payload[k]

ItemAt(i) ==
  /\ ObjectAt(Start(i), sdk.items[i].length)
  /\ PayloadAt(Start(i) + 2 + Len(sdk.eol), sdk.items[i].payload)
  /\ End(i) = Start(i) + 2 + Len(sdk.eol) + Len(sdk.items[i].payload)
  /\ EolAt(End(i))

(* What the body of an SDK looks like. *)
Typed ==
  /\ sdk \in [items : Seq(Item), ends : Seq(Nat), eol : {<<NL>>, <<CR, NL>>}, body : Seq(Bytes)]
  /\ Len(sdk.ends) = Len(sdk.items)
  /\ Len(sdk.body) = End(Len(sdk.items)) + Len(sdk.eol)

WellWritten ==
  /\ Typed
  /\ ObjectAt(0, NoLength)
  /\ \A i \in 1 .. Len(sdk.items) : ItemAt(i)
  /\ \A i, j \in 0 .. Len(sdk.items) : i < j => End(i) < End(j)

-------------------------------------------------------------------------------
(* Line ends, objects and what is in them can be told apart. *)
LEMMA TokenFacts ==
  /\ NL # CR /\ Close # NL /\ Close # CR
  /\ \A length : /\ Open(length) # NL /\ Open(length) # CR
                 /\ Open(length)[1] = "open" /\ Open(length)[2] = length
<1>1. NL # CR /\ Close # NL /\ Close # CR
  BY DEF NL, CR, Close
<1>2. ASSUME NEW length
      PROVE  /\ Open(length) # NL /\ Open(length) # CR
             /\ Open(length)[1] = "open" /\ Open(length)[2] = length
  BY DEF NL, CR, Open
<1>3. QED
  BY <1>1, <1>2

(* Line ends are of one or two bytes. *)
LEMMA EolFacts ==
  ASSUME sdk.eol \in {<<NL>>, <<CR, NL>>}
  PROVE  /\ sdk.eol \in Seq(Bytes) /\ Len(sdk.eol) \in {1, 2}
         /\ Len(sdk.eol) = 1 => sdk.eol[1] = NL
         /\ Len(sdk.eol) = 2 => sdk.eol[1] = CR /\ sdk.eol[2] = NL
<1>1. NL \in Bytes /\ CR \in Bytes
  BY DEF Bytes
<1> HIDE DEF Bytes
<1> DEFINE eol == sdk.eol
<1>2. eol = <<NL>> \/ eol = <<CR, NL>>
  OBVIOUS
<1> HIDE DEF eol
<1>3. CASE eol = <<NL>>
  <2>1. eol \in Seq(Bytes) /\ Len(eol) = 1 /\ eol[1] = NL
    BY <1>1, <1>3
  <2>2. QED
    BY <2>1 DEF eol
<1>4. CASE eol = <<CR, NL>>
  <2>1. eol \in Seq(Bytes) /\ Len(eol) = 2 /\ eol[1] = CR /\ eol[2] = NL
    BY <1>1, <1>4
  <2>2. QED
    BY <2>1 DEF eol
<1>5. QED
  BY <1>2, <1>3, <1>4

(* Items have a length or a payload that is one line. *)
LEMMA ItemFacts ==
  ASSUME NEW item \in Item
  PROVE  /\ item.payload \in Seq(Bytes) /\ item.length \in SUBSET Nat
         /\ \/ item.length = {Len(item.payload)}
            \/ /\ item.length = NoLength
               /\ \A k \in 1 .. Len(item.payload) : item.payload[k] # NL /\ item.payload[k] # CR
<1> DEFINE p == item.payload
           Payloads == ExplicitPayloads \cup ImplicitPayloads
<1>1. p \in Payloads
  BY DEF Item
<1>2. p \in Seq(ToSet(p))
  BY <1>1, FramingAssumption
<1>3. ToSet(p) \subseteq Bytes
  BY <1>1 DEF Bytes
<1>4. p \in Seq(Bytes)
  BY <1>2, <1>3
<1>5. CASE item.length = {Len(p)}
  BY <1>4, <1>5
<1>6. CASE item.length = NoLength /\ p \in ImplicitPayloads
  <2>1. NL \notin ToSet(p) /\ CR \notin ToSet(p)
    BY <1>6, FramingAssumption
  <2>2. \A k \in 1 .. Len(p) : p[k] \in ToSet(p)
    BY <1>4 DEF ToSet
  <2>3. QED
    BY <1>4, <1>6, <2>1, <2>2 DEF NoLength
<1>7. QED
  BY <1>5, <1>6 DEF Item

-------------------------------------------------------------------------------
(* What has not been consumed after p bytes. *)
Rest(p) == SubSeq(sdk.body, p + 1, arrived)

(* It is the bytes from there on. *)
LEMMA RestFacts ==
  ASSUME sdk.body \in Seq(Bytes), arrived \in 0 .. Len(sdk.body), NEW p \in Nat
  PROVE  /\ Rest(p) \in Seq(Bytes)
         /\ p >= arrived => Rest(p) = << >>
         /\ p < arrived => /\ Len(Rest(p)) = arrived - p
                           /\ \A k \in 1 .. arrived - p : Rest(p)[k] = sdk.body[p + k]
<1>1. \A k \in p + 1 .. arrived : sdk.body[k] \in Bytes
  OBVIOUS
<1>2. Rest(p) \in Seq(Bytes)
  BY <1>1 DEF Rest
<1>3. QED
  BY <1>2 DEF Rest

(* Consuming n more. *)
LEMMA AfterRest ==
  ASSUME sdk.body \in Seq(Bytes), arrived \in 0 .. Len(sdk.body), NEW p \in Nat, NEW n \in Nat
  PROVE  After(n, Rest(p)) = Rest(p + n)
<1> DEFINE r == Rest(p)
           t == Rest(p + n)
<1>1. r \in Seq(Bytes) /\ t \in Seq(Bytes)
  BY RestFacts
<1>2. CASE p + n < arrived
  <2>1. /\ Len(r) = arrived - p /\ \A k \in 1 .. arrived - p : r[k] = sdk.body[p + k]
        /\ Len(t) = arrived - (p + n)
        /\ \A k \in 1 .. arrived - (p + n) : t[k] = sdk.body[p + n + k]
    <3>1. p < arrived /\ p + n \in Nat
      BY <1>2
    <3>2. Len(r) = arrived - p /\ \A k \in 1 .. arrived - p : r[k] = sdk.body[p + k]
      BY <3>1, RestFacts
    <3>3. /\ Len(t) = arrived - (p + n)
          /\ \A k \in 1 .. arrived - (p + n) : t[k] = sdk.body[p + n + k]
      BY <1>2, <3>1, RestFacts
    <3>4. QED
      BY <3>2, <3>3
  <2> HIDE DEF r, t
  <2> DEFINE u == SubSeq(r, n + 1, Len(r))
  <2>2. Len(u) = Len(t) /\ u \in Seq(Bytes)
    BY <1>1, <1>2, <2>1
  <2>3. \A k \in 1 .. Len(t) : u[k] = t[k]
    BY <1>1, <1>2, <2>1
  <2> HIDE DEF u
  <2>4. u = t
    BY <1>1, <2>2, <2>3
  <2>5. QED
    BY <2>4 DEF u, r, t, After
<1>3. CASE p + n >= arrived
  <2>1. t = << >> /\ Len(r) <= n
    BY <1>3, RestFacts
  <2> HIDE DEF r, t
  <2>2. SubSeq(r, n + 1, Len(r)) = << >>
    BY <1>1, <2>1
  <2>3. QED
    BY <2>1, <2>2 DEF r, t, After
<1>4. QED
  BY <1>2, <1>3

-------------------------------------------------------------------------------
(* The least of a set of numbers. *)
LEMMA LeastIsMin ==
  ASSUME NEW S, S \subseteq Nat, NEW n \in S, \A k \in S : n <= k
  PROVE  Min(S) = n
<1>1. \E x \in S : \A y \in S : x <= y
  OBVIOUS
<1>2. Min(S) \in S /\ \A y \in S : Min(S) <= y
  BY <1>1 DEF Min
<1>3. Min(S) \in Nat /\ n \in Nat /\ Min(S) <= n /\ n <= Min(S)
  BY <1>2
<1>4. QED
  BY <1>3

(* The first n bytes of s hold no line feed, and one, or nothing, comes next. *)
LineOf(s, n) ==
  /\ \A k \in 1 .. n : s[k] # NL
  /\ n # Len(s) => s[n + 1] = NL

(* Then they are its first line. *)
LEMMA FirstLine ==
  ASSUME NEW s \in Seq(Bytes), NEW n \in 0 .. Len(s), LineOf(s, n)
  PROVE  /\ Line(s) = TrimCR(SubSeq(s, 1, n))
         /\ AfterLine(s) = After(n + 1, s)
         /\ AtEOF(s) <=> n = Len(s)
<1> DEFINE L == LineEnds(s)
<1>1. DOMAIN s = 1 .. Len(s) /\ Len(s) \in Nat /\ n \in Nat
  OBVIOUS
<1>2. n \in Nat /\ n + 1 - 1 = n
  BY <1>1
<1>3. L \subseteq Nat
  BY <1>1 DEF LineEnds
<1>4. \A k \in L : n + 1 <= k /\ k <= Len(s)
  <2>1. ASSUME NEW k \in L PROVE n + 1 <= k /\ k <= Len(s)
    <3>1. k \in 1 .. Len(s) /\ s[k] = NL
      BY <1>1 DEF LineEnds
    <3>2. ~ (k \in 1 .. n)
      BY <3>1 DEF LineOf
    <3> HIDE DEF L
    <3>3. QED
      BY <1>1, <3>1, <3>2
  <2>2. QED
    BY <2>1
<1>5. CASE n = Len(s)
  <2>1. L = {}
    <3> HIDE DEF L
    <3>1. QED
      BY <1>1, <1>3, <1>4, <1>5
  <2>2. AtEOF(s) /\ LineEnd(s) = n + 1
    BY <1>5, <2>1 DEF AtEOF, LineEnd
  <2>3. QED
    BY <1>2, <1>5, <2>2 DEF Line, AfterLine
<1>6. CASE n # Len(s)
  <2>1. n + 1 \in 1 .. Len(s) /\ s[n + 1] = NL
    <3>1. n + 1 \in 1 .. Len(s)
      <4> DEFINE l == Len(s)
      <4>1. l \in Nat /\ n \in 0 .. l /\ n # l
        BY <1>1, <1>6
      <4> HIDE DEF L, l
      <4>2. n + 1 \in 1 .. l
        BY <4>1
      <4>3. QED
        BY <4>2 DEF l
    <3>2. s[n + 1] = NL
      BY <1>6 DEF LineOf
    <3>3. QED
      BY <3>1, <3>2
  <2>2. n + 1 \in L
    BY <1>1, <2>1 DEF LineEnds
  <2> HIDE DEF L
  <2>3. Min(L) = n + 1
    BY <1>3, <1>4, <2>2, LeastIsMin
  <2>4. ~AtEOF(s) /\ LineEnd(s) = n + 1
    BY <2>2, <2>3 DEF L, AtEOF, LineEnd
  <2>5. QED
    BY <1>2, <1>6, <2>4 DEF Line, AfterLine
<1>7. QED
  BY <1>5, <1>6

(* What stays of a line without its carriage return. *)
LEMMA Trimmed ==
  ASSUME NEW t \in Seq(Bytes), t # << >>
  PROVE  /\ t[Len(t)] # CR => TrimCR(t) = t
         /\ t[Len(t)] = CR => TrimCR(t) = SubSeq(t, 1, Len(t) - 1)
  BY DEF TrimCR, Last, Front

(* A line is blank if it has nothing but a carriage return. *)
LEMMA BlankFacts ==
  /\ TrimCR(<< >>) = << >> /\ TrimCR(<<CR>>) = << >>
  /\ Blank(<< >>) /\ ~IsObject(<< >>)
<1>1. TrimCR(<< >>) = << >>
  BY DEF TrimCR
<1>2. TrimCR(<<CR>>) = << >>
  <2> DEFINE t == <<CR>>
  <2>1. t \in Seq({CR}) /\ Len(t) = 1 /\ t[1] = CR
    OBVIOUS
  <2> HIDE DEF t
  <2>2. TrimCR(t) = SubSeq(t, 1, 0)
    BY <2>1 DEF TrimCR, Last, Front
  <2>3. SubSeq(t, 1, 0) = << >>
    BY <2>1
  <2>4. QED
    BY <2>2, <2>3 DEF t
<1>3. Blank(<< >>) /\ ~IsObject(<< >>)
  BY DEF Blank, Inked, IsObject
<1>4. QED
  BY <1>1, <1>2, <1>3

(* An object is read as one, half of one as nothing. *)
LEMMA ObjectFacts ==
  ASSUME NEW length
  PROVE  /\ IsObject(Object(length)) /\ ~Blank(Object(length))
         /\ HeaderLength(Object(length)) = length
         /\ ~IsObject(<<Open(length)>>) /\ ~Blank(<<Open(length)>>)
<1> DEFINE line == Object(length)
           half == <<Open(length)>>
<1>1. /\ DOMAIN line = {1, 2} /\ line[1] = Open(length) /\ line[2] = Close
      /\ DOMAIN half = {1} /\ half[1] = Open(length)
  BY DEF Object
<1> HIDE DEF line, half
<1>2. Inked(line) = {1, 2} /\ Inked(half) = {1}
  BY <1>1, TokenFacts DEF Inked
<1>3. Min({1, 2}) = 1
  <2>1. \E x \in {1, 2} : \A y \in {1, 2} : x <= y
    BY 1 <= 1, 1 <= 2
  <2>2. Min({1, 2}) \in {1, 2} /\ \A y \in {1, 2} : Min({1, 2}) <= y
    BY <2>1 DEF Min
  <2>3. QED
    BY <2>2
<1>4. HeaderLength(line) = length
  BY <1>1, <1>2, <1>3, TokenFacts DEF HeaderLength
<1>5. IsObject(line) /\ ~Blank(line)
  <2>1. 1 \in DOMAIN line /\ 2 \in DOMAIN line /\ 1 < 2
    BY <1>1
  <2>2. line[1][1] = "open" /\ line[2] = Close
    BY <1>1, TokenFacts
  <2>3. QED
    BY <1>2, <2>1, <2>2 DEF IsObject, Blank
<1>6. ~IsObject(half) /\ ~Blank(half)
  BY <1>1, <1>2 DEF IsObject, Blank
<1>7. QED
  BY <1>4, <1>5, <1>6 DEF line, half

-------------------------------------------------------------------------------
(* What the first line of s is, if s begins with the bytes of a line that  *)
(* holds neither a line feed nor a carriage return.                        *)
Plain(w) == \A k \in 1 .. Len(w) : w[k] # NL /\ w[k] # CR

Begins(s, w) == Len(w) <= Len(s) /\ \A k \in 1 .. Len(w) : s[k] = w[k]

(* Then w is what s begins with. *)
LEMMA BeginsSub ==
  ASSUME NEW s \in Seq(Bytes), NEW w \in Seq(Bytes), Begins(s, w)
  PROVE  SubSeq(s, 1, Len(w)) = w
<1> DEFINE t == SubSeq(s, 1, Len(w))
<1>1. Len(w) \in Nat /\ Len(w) <= Len(s) /\ \A k \in 1 .. Len(w) : s[k] = w[k]
  BY DEF Begins
<1>2. t \in Seq(Bytes) /\ Len(t) = Len(w) /\ \A k \in 1 .. Len(w) : t[k] = s[k]
  BY <1>1
<1> HIDE DEF t
<1>3. \A k \in 1 .. Len(w) : t[k] = w[k]
  BY <1>1, <1>2
<1>4. t = w
  BY <1>2, <1>3
<1>5. QED
  BY <1>4 DEF t

(* Then w is the first line of s, ended by a line feed or by nothing. *)
LEMMA PlainLine ==
  ASSUME NEW s \in Seq(Bytes), NEW w \in Seq(Bytes), Plain(w), Begins(s, w),
         Len(w) # Len(s) => s[Len(w) + 1] = NL
  PROVE  /\ Line(s) = w
         /\ AfterLine(s) = After(Len(w) + 1, s)
         /\ AtEOF(s) <=> Len(w) = Len(s)
<1>1. Len(w) \in 0 .. Len(s)
  BY DEF Begins
<1>2. LineOf(s, Len(w))
  BY DEF LineOf, Begins, Plain
<1>3. /\ Line(s) = TrimCR(SubSeq(s, 1, Len(w)))
      /\ AfterLine(s) = After(Len(w) + 1, s)
      /\ AtEOF(s) <=> Len(w) = Len(s)
  BY <1>1, <1>2, FirstLine
<1>4. SubSeq(s, 1, Len(w)) = w
  BY BeginsSub
<1>5. TrimCR(w) = w
  <2>1. CASE w = << >>
    BY <2>1, BlankFacts
  <2>2. CASE w # << >>
    <3>1. w[Len(w)] # CR
      BY <2>2 DEF Plain
    <3>2. QED
      BY <2>2, <3>1, Trimmed
  <2>3. QED
    BY <2>1, <2>2
<1>6. QED
  BY <1>3, <1>4, <1>5

(* The same with a carriage return before the end of the line. *)
LEMMA PlainLineCR ==
  ASSUME NEW s \in Seq(Bytes), NEW w \in Seq(Bytes), Plain(w), Begins(s, w),
         Len(w) < Len(s), s[Len(w) + 1] = CR,
         Len(w) + 1 # Len(s) => s[Len(w) + 2] = NL
  PROVE  /\ Line(s) = w
         /\ AfterLine(s) = After(Len(w) + 2, s)
         /\ AtEOF(s) <=> Len(w) + 1 = Len(s)
<1> DEFINE n == Len(w) + 1
           t == SubSeq(s, 1, n)
<1>1. n \in 0 .. Len(s) /\ n \in Nat \ {0} /\ n - 1 = Len(w) /\ n + 1 = Len(w) + 2
  OBVIOUS
<1>2. LineOf(s, n)
  <2>1. \A k \in 1 .. n : k \in 1 .. Len(w) \/ k = n
    BY <1>1
  <2>2. \A k \in 1 .. Len(w) : s[k] # NL
    BY DEF Begins, Plain
  <2>3. s[n] # NL
    BY TokenFacts
  <2>4. n # Len(s) => s[n + 1] = NL
    BY <1>1
  <2> HIDE DEF n
  <2>5. QED
    BY <2>1, <2>2, <2>3, <2>4 DEF LineOf
<1>3. s[n] = CR
  OBVIOUS
<1> HIDE DEF n
<1>4. /\ Line(s) = TrimCR(t)
      /\ AfterLine(s) = After(n + 1, s)
      /\ AtEOF(s) <=> n = Len(s)
  BY <1>1, <1>2, FirstLine
<1>5. t \in Seq(Bytes) /\ Len(t) = n /\ t[n] = CR /\ \A k \in 1 .. n : t[k] = s[k]
  BY <1>1, <1>3
<1> HIDE DEF t
<1>6. TrimCR(t) = SubSeq(t, 1, Len(w))
  <2>1. t # << >> /\ t[Len(t)] = CR /\ Len(t) - 1 = Len(w)
    BY <1>1, <1>5
  <2>2. TrimCR(t) = SubSeq(t, 1, Len(t) - 1)
    BY <1>5, <2>1, Trimmed
  <2>3. QED
    BY <2>1, <2>2
<1>7. SubSeq(t, 1, Len(w)) = w
  <2>1. Begins(t, w)
    BY <1>1, <1>5 DEF Begins
  <2>2. QED
    BY <1>5, <2>1, BeginsSub
<1>8. QED
  BY <1>1, <1>4, <1>6, <1>7 DEF n

-------------------------------------------------------------------------------
(* Line w of the body, its end included, is after p bytes. *)
LineAt(p, w) ==
  /\ Plain(w) /\ PayloadAt(p, w) /\ EolAt(p + Len(w))
  /\ p + Len(w) + Len(sdk.eol) <= Len(sdk.body)

Ranges ==
  /\ sdk.eol \in {<<NL>>, <<CR, NL>>} /\ sdk.body \in Seq(Bytes)
  /\ arrived \in 0 .. Len(sdk.body)

(* The reader at a place up to which the body arrived. *)
LEMMA RestThere ==
  ASSUME Ranges, NEW p \in Nat, p <= arrived
  PROVE  /\ Rest(p) \in Seq(Bytes) /\ Len(Rest(p)) = arrived - p
         /\ \A k \in 1 .. arrived - p : Rest(p)[k] = sdk.body[p + k]
<1>1. arrived \in Nat
  BY DEF Ranges
<1>2. CASE p < arrived
  BY <1>2, RestFacts DEF Ranges
<1>3. CASE p = arrived
  <2>1. Rest(p) = << >> /\ arrived - p = 0
    BY <1>1, <1>3, RestFacts DEF Ranges
  <2> HIDE DEF Rest
  <2>2. QED
    BY <2>1
<1>4. QED
  BY <1>1, <1>2, <1>3

(* Nothing is left where nothing arrived. *)
LEMMA RestBeyond ==
  ASSUME Ranges, NEW p \in Nat, arrived <= p
  PROVE  Rest(p) = << >>
  BY RestFacts DEF Ranges

(* The line arrived, and its end, if there is one. *)
LEMMA LineRead ==
  ASSUME Ranges, NEW p \in Nat, NEW w \in Seq(Bytes), LineAt(p, w), p + Len(w) <= arrived
  PROVE  /\ Line(Rest(p)) = w
         /\ AfterLine(Rest(p)) = Rest(p + Len(w) + Len(sdk.eol))
         /\ AtEOF(Rest(p)) <=> arrived < p + Len(w) + Len(sdk.eol)
<1> DEFINE r == Rest(p)
           n == Len(w)
           e == Len(sdk.eol)
<1>1. arrived \in Nat /\ n \in Nat /\ e \in {1, 2} /\ p <= arrived
  BY EolFacts DEF Ranges
<1>2. /\ r \in Seq(Bytes) /\ Len(r) = arrived - p
      /\ \A k \in 1 .. arrived - p : r[k] = sdk.body[p + k]
  BY <1>1, RestThere
<1>3. Plain(w)
  BY DEF LineAt
<1>4. \A k \in 1 .. n : sdk.body[p + k] = w[k]
  BY DEF LineAt, PayloadAt
<1>5. /\ e = 1 => sdk.body[p + n + 1] = NL
      /\ e = 2 => sdk.body[p + n + 1] = CR /\ sdk.body[p + n + 2] = NL
  BY DEF LineAt, EolAt
<1>6. \A k \in Nat : After(k, r) = Rest(p + k)
  BY AfterRest DEF Ranges
<1>7. p + n <= arrived
  OBVIOUS
<1> HIDE DEF r, n, e
<1>8. Begins(r, w)
  <2>1. n <= Len(r) /\ \A k \in 1 .. n : k \in 1 .. arrived - p
    BY <1>1, <1>2, <1>7
  <2>2. QED
    BY <1>2, <1>4, <2>1 DEF Begins, n
<1>9. CASE e = 1 \/ arrived = p + n
  <2>1. n # Len(r) => r[n + 1] = NL
    <3>1. SUFFICES ASSUME n # Len(r) PROVE r[n + 1] = NL
      OBVIOUS
    <3>2. e = 1 /\ n + 1 \in 1 .. arrived - p
      BY <1>1, <1>2, <1>7, <1>9, <3>1
    <3>3. r[n + 1] = sdk.body[p + (n + 1)]
      BY <1>2, <3>2
    <3>4. p + (n + 1) = p + n + 1
      BY <1>1
    <3>5. QED
      BY <1>5, <3>2, <3>3, <3>4
  <2>2. /\ Line(r) = w /\ AfterLine(r) = After(n + 1, r)
        /\ AtEOF(r) <=> n = Len(r)
    BY <1>2, <1>3, <1>8, <2>1, PlainLine DEF n
  <2>3. After(n + 1, r) = Rest(p + (n + 1))
    BY <1>1, <1>6
  <2>4. Rest(p + (n + 1)) = Rest(p + n + e)
    <3>1. CASE e = 1
      BY <1>1, <3>1
    <3>2. CASE arrived = p + n
      <4>1. p + (n + 1) \in Nat /\ arrived <= p + (n + 1) /\ p + n + e \in Nat /\ arrived <= p + n + e
        BY <1>1, <3>2
      <4>2. QED
        BY <4>1, RestBeyond
    <3>3. QED
      BY <1>9, <3>1, <3>2
  <2>5. n = Len(r) <=> arrived < p + n + e
    BY <1>1, <1>2, <1>7, <1>9
  <2>6. QED
    BY <2>2, <2>3, <2>4, <2>5 DEF r, n, e
<1>10. CASE e = 2 /\ arrived # p + n
  <2>1. n + 1 \in 1 .. arrived - p /\ n < Len(r) /\ p + (n + 1) = p + n + 1
    BY <1>1, <1>2, <1>7, <1>10
  <2>2. r[n + 1] = CR
    BY <1>2, <1>5, <1>10, <2>1
  <2>3. n + 1 # Len(r) => r[n + 2] = NL
    <3>1. SUFFICES ASSUME n + 1 # Len(r) PROVE r[n + 2] = NL
      OBVIOUS
    <3>2. n + 2 \in 1 .. arrived - p /\ p + (n + 2) = p + n + 2
      BY <1>1, <1>2, <2>1, <3>1
    <3>3. r[n + 2] = sdk.body[p + (n + 2)]
      BY <1>2, <3>2
    <3>4. QED
      BY <1>5, <1>10, <3>2, <3>3
  <2>4. /\ Line(r) = w /\ AfterLine(r) = After(n + 2, r)
        /\ AtEOF(r) <=> n + 1 = Len(r)
    BY <1>2, <1>3, <1>8, <2>1, <2>2, <2>3, PlainLineCR DEF n
  <2>5. After(n + 2, r) = Rest(p + n + e)
    <3>1. n + 2 \in Nat /\ p + (n + 2) = p + n + e
      BY <1>1, <1>10
    <3>2. QED
      BY <1>6, <3>1
  <2>6. n + 1 = Len(r) <=> arrived < p + n + e
    BY <1>1, <1>2, <1>7, <1>10, <2>1
  <2>7. QED
    BY <2>4, <2>5, <2>6 DEF r, n, e
<1>11. QED
  BY <1>1, <1>9, <1>10

(* The line was cut. *)
LEMMA LineCut ==
  ASSUME Ranges, NEW p \in Nat, NEW w \in Seq(Bytes), LineAt(p, w),
         p <= arrived, arrived < p + Len(w)
  PROVE  /\ Line(Rest(p)) = SubSeq(w, 1, arrived - p)
         /\ AfterLine(Rest(p)) = << >>
         /\ AtEOF(Rest(p))
<1> DEFINE r == Rest(p)
           n == arrived - p
           u == SubSeq(w, 1, n)
<1>1. arrived \in Nat /\ n \in Nat /\ n < Len(w) /\ Len(w) \in Nat
  BY DEF Ranges
<1>2. /\ r \in Seq(Bytes) /\ Len(r) = n
      /\ \A k \in 1 .. n : r[k] = sdk.body[p + k]
  BY RestThere
<1>3. \A k \in 1 .. Len(w) : sdk.body[p + k] = w[k]
  BY DEF LineAt, PayloadAt
<1>4. \A k \in 1 .. Len(w) : w[k] # NL /\ w[k] # CR
  BY DEF LineAt, Plain
<1>5. After(n + 1, r) = Rest(p + (n + 1))
  BY <1>1, AfterRest DEF Ranges
<1>6. p + (n + 1) \in Nat /\ arrived <= p + (n + 1)
  BY <1>1
<1>7. Rest(p + (n + 1)) = << >>
  BY <1>6, RestBeyond
<1> HIDE DEF r, n
<1>8. u \in Seq(Bytes) /\ Len(u) = n /\ \A k \in 1 .. n : u[k] = w[k] /\ k \in 1 .. Len(w)
  BY <1>1
<1> HIDE DEF u
<1>9. Plain(u)
  BY <1>4, <1>8 DEF Plain
<1>10. Begins(r, u)
  <2>1. \A k \in 1 .. n : r[k] = u[k]
    BY <1>2, <1>3, <1>4, <1>8
  <2>2. Len(u) <= Len(r)
    BY <1>1, <1>2, <1>8
  <2>3. QED
    BY <1>8, <2>1, <2>2 DEF Begins
<1>11. /\ Line(r) = u /\ AfterLine(r) = After(Len(u) + 1, r)
       /\ AtEOF(r) <=> Len(u) = Len(r)
  <2>1. Len(u) = Len(r)
    BY <1>2, <1>8
  <2>2. QED
    BY <1>2, <1>8, <1>9, <1>10, <2>1, PlainLine
<1>12. QED
  BY <1>2, <1>5, <1>7, <1>8, <1>11 DEF r, u, n

-------------------------------------------------------------------------------
(* The places of the body. *)
Items == Len(sdk.items)

Payload(i) == sdk.items[i].payload

PayloadStart(i) == Start(i) + 2 + Len(sdk.eol)

(* There are as many as items, in the body. *)
LEMMA Places ==
  ASSUME WellWritten, arrived \in 0 .. Len(sdk.body)
  PROVE  /\ Ranges /\ Items \in Nat /\ Len(sdk.eol) \in {1, 2} /\ arrived \in Nat
         /\ \A i \in 0 .. Items : /\ End(i) \in Nat /\ Start(i + 1) = End(i) + Len(sdk.eol)
                                  /\ End(i) + Len(sdk.eol) <= Len(sdk.body)
                                  /\ End(i) <= End(Items)
         /\ End(0) = 2 /\ Len(sdk.body) = End(Items) + Len(sdk.eol)
<1>1. Ranges /\ Items \in Nat /\ Len(sdk.eol) \in {1, 2} /\ arrived \in Nat /\ Len(sdk.body) \in Nat
  <2>1. /\ sdk.eol \in {<<NL>>, <<CR, NL>>} /\ sdk.items \in Seq(Item)
        /\ sdk.body \in Seq(Bytes)
    BY DEF WellWritten, Typed
  <2>2. QED
    BY <2>1, EolFacts DEF Ranges, Items
<1>2. Len(sdk.body) = End(Items) + Len(sdk.eol)
  BY DEF WellWritten, Typed, Items
<1>3. ASSUME NEW i \in 0 .. Items
      PROVE  /\ End(i) \in Nat /\ Start(i + 1) = End(i) + Len(sdk.eol)
             /\ End(i) + Len(sdk.eol) <= Len(sdk.body) /\ End(i) <= End(Items)
  <2>1. sdk.ends \in Seq(Nat) /\ Len(sdk.ends) = Items
    BY DEF WellWritten, Typed, Items
  <2>2. End(i) \in Nat /\ End(Items) \in Nat
    BY <1>1, <2>1 DEF End
  <2>3. Start(i + 1) = End(i) + Len(sdk.eol)
    <3>1. i + 1 - 1 = i
      BY <1>1
    <3>2. QED
      BY <3>1 DEF Start
  <2>4. i < Items => End(i) < End(Items)
    BY <1>1 DEF WellWritten, Items
  <2> HIDE DEF End
  <2>5. End(i) <= End(Items)
    BY <1>1, <2>2, <2>4
  <2>6. QED
    BY <1>1, <1>2, <2>2, <2>3, <2>5
<1>4. QED
  BY <1>1, <1>2, <1>3 DEF End

(* Those of one item. *)
LEMMA ItemPlaces ==
  ASSUME WellWritten, arrived \in 0 .. Len(sdk.body), NEW m \in 0 .. Items - 1
  PROVE  /\ m + 1 \in 1 .. Items /\ m + 1 \in 0 .. Items
         /\ sdk.items[m + 1] \in Item /\ Payload(m + 1) \in Seq(Bytes)
         /\ Start(m + 1) = End(m) + Len(sdk.eol) /\ Start(m + 1) \in Nat
         /\ PayloadStart(m + 1) = Start(m + 1) + 2 + Len(sdk.eol) /\ PayloadStart(m + 1) \in Nat
         /\ End(m + 1) = PayloadStart(m + 1) + Len(Payload(m + 1))
         /\ Start(m + 2) = End(m + 1) + Len(sdk.eol)
         /\ End(m + 1) + Len(sdk.eol) <= Len(sdk.body) /\ End(m + 1) <= End(Items)
         /\ ItemAt(m + 1)
<1>1. Items \in Nat /\ Len(sdk.eol) \in {1, 2}
  BY Places
<1>2. m + 1 \in 1 .. Items /\ m + 1 \in 0 .. Items /\ m \in 0 .. Items /\ (m + 1) + 1 = m + 2
  BY <1>1
<1>3. /\ End(m) \in Nat /\ End(m + 1) \in Nat /\ Start(m + 1) = End(m) + Len(sdk.eol)
      /\ Start((m + 1) + 1) = End(m + 1) + Len(sdk.eol)
      /\ End(m + 1) + Len(sdk.eol) <= Len(sdk.body) /\ End(m + 1) <= End(Items)
  BY <1>2, Places
<1>4. sdk.items[m + 1] \in Item
  BY <1>2 DEF WellWritten, Typed, Items
<1>5. Payload(m + 1) \in Seq(Bytes)
  BY <1>4, ItemFacts DEF Payload
<1>6. ItemAt(m + 1)
  BY <1>2 DEF WellWritten, Items
<1>7. End(m + 1) = PayloadStart(m + 1) + Len(Payload(m + 1))
  BY <1>6 DEF ItemAt, PayloadStart, Payload
<1>8. PayloadStart(m + 1) = Start(m + 1) + 2 + Len(sdk.eol)
  BY DEF PayloadStart
<1> HIDE DEF End, Start, PayloadStart, Payload, Items
<1>9. Start(m + 1) \in Nat /\ PayloadStart(m + 1) \in Nat
  <2> DEFINE a == End(m)
             b == Start(m + 1)
             c == PayloadStart(m + 1)
             e == Len(sdk.eol)
  <2>1. a \in Nat /\ e \in {1, 2} /\ b = a + e /\ c = b + 2 + e
    BY <1>1, <1>3, <1>8
  <2> HIDE DEF a, b, c, e
  <2>2. b \in Nat /\ c \in Nat
    BY <2>1
  <2>3. QED
    BY <2>2 DEF b, c
<1>10. QED
  BY <1>2, <1>3, <1>4, <1>5, <1>6, <1>7, <1>8, <1>9

(* They come in their order. *)
LEMMA PlaceOrder ==
  ASSUME WellWritten, arrived \in 0 .. Len(sdk.body), NEW m \in 0 .. Items - 1
  PROVE  /\ Start(m + 1) \in Nat /\ PayloadStart(m + 1) \in Nat /\ End(m + 1) \in Nat
         /\ Start(m + 1) < PayloadStart(m + 1) /\ PayloadStart(m + 1) <= End(m + 1)
         /\ Start(m + 1) < End(m + 1) /\ Start(m + 2) > End(m + 1)
         /\ Len(Payload(m + 1)) \in Nat
<1> DEFINE a == Start(m + 1)
           b == PayloadStart(m + 1)
           c == End(m + 1)
           d == Start(m + 2)
           l == Len(Payload(m + 1))
           e == Len(sdk.eol)
<1>1. a \in Nat /\ b = a + 2 + e /\ c = b + l /\ d = c + e
  BY ItemPlaces
<1>2. l \in Nat
  <2>1. Payload(m + 1) \in Seq(Bytes)
    BY ItemPlaces
  <2>2. QED
    BY <2>1
<1>3. e \in {1, 2}
  BY Places
<1> HIDE DEF a, b, c, d, e, l
<1>4. b \in Nat /\ c \in Nat /\ a < b /\ b <= c /\ a < c /\ d > c
  BY <1>1, <1>2, <1>3
<1>5. QED
  BY <1>1, <1>2, <1>4 DEF a, b, c, d, l

-------------------------------------------------------------------------------
(* The lines of the body. *)
LEMMA ObjectSeq ==
  ASSUME NEW length \in SUBSET Nat
  PROVE  /\ Object(length) \in Seq(Bytes) /\ Len(Object(length)) = 2
         /\ Object(length)[1] = Open(length) /\ Object(length)[2] = Close
<1> DEFINE a == Open(length)
           b == Close
<1>1. a \in Bytes /\ b \in Bytes
  BY DEF Bytes
<1> HIDE DEF a, b
<1>2. <<a, b>> \in Seq(Bytes) /\ Len(<<a, b>>) = 2 /\ <<a, b>>[1] = a /\ <<a, b>>[2] = b
  BY <1>1
<1>3. Object(length) = <<a, b>>
  BY DEF Object, a, b
<1>4. QED
  BY <1>2, <1>3 DEF a, b

(* An object is a line, an item's header or the envelope's. *)
LEMMA ObjectIsLine ==
  ASSUME Ranges, NEW p \in Nat, NEW length \in SUBSET Nat, ObjectAt(p, length),
         p + 2 + Len(sdk.eol) <= Len(sdk.body)
  PROVE  /\ Object(length) \in Seq(Bytes) /\ Len(Object(length)) = 2
         /\ LineAt(p, Object(length))
<1> DEFINE w == Object(length)
<1>2. w \in Seq(Bytes) /\ Len(w) = 2 /\ w[1] = Open(length) /\ w[2] = Close
  BY ObjectSeq
<1> HIDE DEF w
<1>3. Plain(w)
  <2>1. \A k \in 1 .. Len(w) : k = 1 \/ k = 2
    BY <1>2
  <2>2. QED
    BY <1>2, <2>1, TokenFacts DEF Plain
<1>4. PayloadAt(p, w)
  <2>1. \A k \in 1 .. Len(w) : k = 1 \/ k = 2
    BY <1>2
  <2>2. sdk.body[p + 1] = w[1] /\ sdk.body[p + 2] = w[2]
    BY <1>2 DEF ObjectAt
  <2>3. QED
    BY <2>1, <2>2 DEF PayloadAt
<1>5. EolAt(p + Len(w))
  BY <1>2 DEF ObjectAt
<1>6. QED
  BY <1>2, <1>3, <1>4, <1>5 DEF LineAt, w

(* So is nothing, before the end of a line. *)
LEMMA LineEndIsLine ==
  ASSUME WellWritten, arrived \in 0 .. Len(sdk.body), NEW m \in 0 .. Items
  PROVE  LineAt(End(m), << >>)
<1>1. End(m) \in Nat /\ End(m) + Len(sdk.eol) <= Len(sdk.body)
  BY Places
<1>2. EolAt(End(m))
  <2>1. CASE m = 0
    BY <2>1 DEF WellWritten, ObjectAt, End
  <2>2. CASE m # 0
    <3>1. m \in 1 .. Len(sdk.items)
      BY <2>2 DEF Items
    <3>2. QED
      BY <3>1 DEF WellWritten, ItemAt
  <2>3. QED
    BY <2>1, <2>2
<1>3. Plain(<< >>) /\ PayloadAt(End(m), << >>)
  BY DEF Plain, PayloadAt
<1> DEFINE e == End(m)
<1> HIDE DEF e
<1>4. e + Len(<< >>) = e /\ e + Len(<< >>) + Len(sdk.eol) = e + Len(sdk.eol)
  BY <1>1 DEF e
<1>5. QED
  BY <1>1, <1>2, <1>3, <1>4 DEF LineAt, e

(* So is a payload that comes without a length. *)
LEMMA PayloadIsLine ==
  ASSUME WellWritten, arrived \in 0 .. Len(sdk.body), NEW m \in 0 .. Items - 1,
         sdk.items[m + 1].length = NoLength
  PROVE  LineAt(PayloadStart(m + 1), Payload(m + 1))
<1>1. /\ sdk.items[m + 1] \in Item
      /\ End(m + 1) = PayloadStart(m + 1) + Len(Payload(m + 1))
      /\ End(m + 1) + Len(sdk.eol) <= Len(sdk.body)
      /\ ItemAt(m + 1)
  BY ItemPlaces
<1>2. Plain(Payload(m + 1))
  <2>1. {Len(Payload(m + 1))} # NoLength
    BY DEF NoLength
  <2>2. QED
    BY <1>1, <2>1, ItemFacts DEF Plain, Payload
<1>3. PayloadAt(PayloadStart(m + 1), Payload(m + 1)) /\ EolAt(End(m + 1))
  BY <1>1 DEF ItemAt, PayloadStart, Payload
<1>4. QED
  BY <1>1, <1>2, <1>3 DEF LineAt

(* There is an empty line where nothing is left. *)
LEMMA EmptyLine ==
  Line(<< >>) = << >> /\ AtEOF(<< >>) /\ AfterLine(<< >>) = << >>
<1> DEFINE s == << >>
<1>1. s \in Seq(Bytes) /\ Len(s) = 0 /\ SubSeq(s, 1, 0) = << >> /\ SubSeq(s, 2, 0) = << >>
  OBVIOUS
<1> HIDE DEF s
<1>2. 0 \in 0 .. Len(s) /\ LineOf(s, 0)
  BY <1>1 DEF LineOf
<1>3. /\ Line(s) = TrimCR(SubSeq(s, 1, 0)) /\ AfterLine(s) = After(0 + 1, s)
      /\ AtEOF(s) <=> 0 = Len(s)
  BY <1>1, <1>2, FirstLine
<1>4. Line(s) = << >>
  BY <1>1, <1>3, BlankFacts
<1>5. AtEOF(s)
  BY <1>1, <1>3
<1>6. AfterLine(s) = << >>
  <2>1. 0 + 1 = 1 /\ 1 + 1 = 2
    OBVIOUS
  <2>2. AfterLine(s) = SubSeq(s, 2, Len(s))
    BY <1>3, <2>1 DEF After
  <2>3. QED
    BY <1>1, <2>2
<1>7. QED
  BY <1>4, <1>5, <1>6 DEF s

-------------------------------------------------------------------------------
(* What the reader has in front of it after m items. *)
Nothing(m) ==
  /\ rest = << >>
  /\ m < Items => arrived < End(m + 1)

AtLineEnd(m) ==
  /\ rest # << >> /\ Line(rest) = << >>
  /\ AfterLine(rest) = Rest(Start(m + 1))
  /\ AtEOF(rest) <=> arrived < Start(m + 1)

AtHalfHeader(m) ==
  /\ m < Items /\ arrived < End(m + 1)
  /\ ~Blank(Line(rest)) /\ ~IsObject(Line(rest))

AtHeader(m) ==
  /\ m < Items
  /\ Line(rest) = Object(sdk.items[m + 1].length)
  /\ AfterLine(rest) = Rest(PayloadStart(m + 1))
  /\ AtEOF(rest) <=> arrived < PayloadStart(m + 1)

Place(m) ==
  \/ rest = Rest(Start(m + 1))
  \/ rest = Rest(End(m))

(* The first half of a sequence of two. *)
LEMMA FirstOfTwo ==
  ASSUME NEW S, NEW s \in Seq(S), Len(s) = 2
  PROVE  SubSeq(s, 1, 1) = <<s[1]>>
<1> DEFINE t == SubSeq(s, 1, 1)
           u == <<s[1]>>
<1>1. t \in Seq(S) /\ Len(t) = 1 /\ t[1] = s[1]
  OBVIOUS
<1>2. u \in Seq(S) /\ Len(u) = 1 /\ u[1] = s[1]
  OBVIOUS
<1> HIDE DEF t, u
<1>3. \A k \in 1 .. 1 : t[k] = u[k]
  BY <1>1, <1>2
<1>4. t = u
  BY <1>1, <1>2, <1>3
<1>5. QED
  BY <1>4 DEF t, u

(* It is one of these. *)
LEMMA Seen ==
  ASSUME WellWritten, arrived \in 0 .. Len(sdk.body), NEW m \in 0 .. Items, Place(m)
  PROVE  Nothing(m) \/ AtLineEnd(m) \/ AtHalfHeader(m) \/ AtHeader(m)
<1> DEFINE e == Len(sdk.eol)
<1>1. /\ Ranges /\ Items \in Nat /\ e \in {1, 2} /\ arrived \in Nat
      /\ Len(sdk.body) = End(Items) + e /\ arrived <= Len(sdk.body)
  BY Places
<1>2. End(m) \in Nat /\ Start(m + 1) = End(m) + e
  BY Places
<1>3. m < Items => /\ m \in 0 .. Items - 1 /\ End(m) < End(m + 1) /\ Start(m + 1) < End(m + 1)
                   /\ Start(m + 1) + 1 < End(m + 1) /\ End(m + 1) \in Nat
  <2>1. SUFFICES ASSUME m < Items
                 PROVE  /\ m \in 0 .. Items - 1 /\ End(m) < End(m + 1) /\ Start(m + 1) < End(m + 1)
                        /\ Start(m + 1) + 1 < End(m + 1) /\ End(m + 1) \in Nat
    OBVIOUS
  <2>2. m \in 0 .. Items - 1
    BY <1>1, <2>1
  <2>3. /\ Payload(m + 1) \in Seq(Bytes) /\ Start(m + 1) \in Nat
        /\ PayloadStart(m + 1) = Start(m + 1) + 2 + e
        /\ End(m + 1) = PayloadStart(m + 1) + Len(Payload(m + 1))
    BY <2>2, ItemPlaces
  <2>4. Len(Payload(m + 1)) \in Nat
    BY <2>3
  <2> DEFINE a == End(m)
             b == Start(m + 1)
             c == PayloadStart(m + 1)
             d == End(m + 1)
             l == Len(Payload(m + 1))
  <2>5. /\ a \in Nat /\ b = a + e /\ c = b + 2 + e /\ d = c + l /\ l \in Nat /\ e \in {1, 2}
    BY <1>1, <1>2, <2>3, <2>4
  <2> HIDE DEF a, b, c, d, e, l
  <2>6. a < d /\ b < d /\ b + 1 < d /\ d \in Nat
    BY <2>5
  <2>7. QED
    BY <2>2, <2>6 DEF a, b, d
<1>4. CASE rest = << >>
  <2>1. SUFFICES ASSUME m < Items PROVE arrived < End(m + 1)
    BY <1>4 DEF Nothing
  <2>2. ASSUME NEW p \in Nat, Rest(p) = << >> PROVE arrived <= p
    <3>1. SUFFICES ASSUME p < arrived PROVE FALSE
      BY <1>1
    <3>2. Len(Rest(p)) = arrived - p
      BY <1>1, <3>1, RestThere
    <3>3. Len(Rest(p)) = 0
      BY <2>2
    <3>4. QED
      BY <1>1, <3>1, <3>2, <3>3
  <2>3. arrived <= Start(m + 1) \/ arrived <= End(m)
    BY <1>1, <1>2, <1>4, <2>2 DEF Place
  <2> HIDE DEF Start, End
  <2>4. QED
    BY <1>1, <1>2, <1>3, <2>1, <2>3
<1>5. CASE rest # << >> /\ rest = Rest(End(m))
  <2>1. LineAt(End(m), << >>)
    BY LineEndIsLine
  <2>2. End(m) <= arrived
    BY <1>1, <1>2, <1>5, RestBeyond
  <2> DEFINE p == End(m)
  <2>3. p \in Nat /\ p + Len(<< >>) <= arrived /\ p + Len(<< >>) + e = Start(m + 1)
    BY <1>1, <1>2, <2>2
  <2>4. << >> \in Seq(Bytes)
    OBVIOUS
  <2> HIDE DEF p
  <2>5. /\ Line(Rest(p)) = << >>
        /\ AfterLine(Rest(p)) = Rest(p + Len(<< >>) + e)
        /\ AtEOF(Rest(p)) <=> arrived < p + Len(<< >>) + e
    BY <1>1, <2>1, <2>3, <2>4, LineRead DEF p
  <2>6. AtLineEnd(m)
    BY <1>5, <2>3, <2>5 DEF AtLineEnd, p
  <2>7. QED
    BY <2>6
<1>6. CASE rest # << >> /\ rest = Rest(Start(m + 1))
  <2> DEFINE p == Start(m + 1)
             w == Object(sdk.items[m + 1].length)
  <2>1. p \in Nat /\ p < arrived
    <3>1. p \in Nat
      BY <1>1, <1>2
    <3>2. ~ (arrived <= p)
      BY <1>1, <1>6, <3>1, RestBeyond
    <3> HIDE DEF p
    <3>3. QED
      BY <1>1, <3>1, <3>2
  <2>2. m < Items
    BY <1>1, <1>2, <2>1
  <2>3. /\ m \in 0 .. Items - 1 /\ p < End(m + 1) /\ p + 1 < End(m + 1)
    BY <1>3, <2>2
  <2>4. /\ sdk.items[m + 1] \in Item /\ ItemAt(m + 1) /\ Payload(m + 1) \in Seq(Bytes)
        /\ PayloadStart(m + 1) = p + 2 + e /\ PayloadStart(m + 1) \in Nat
        /\ End(m + 1) = PayloadStart(m + 1) + Len(Payload(m + 1))
        /\ End(m + 1) + e <= Len(sdk.body)
    BY <2>3, ItemPlaces
  <2>5. Len(Payload(m + 1)) \in Nat /\ Len(sdk.body) \in Nat /\ End(m + 1) \in Nat
    BY <1>1, <1>3, <2>2, <2>4 DEF Ranges
  <2>6. p + 2 + e <= Len(sdk.body)
    <3> DEFINE c == PayloadStart(m + 1)
               d == End(m + 1)
               l == Len(Payload(m + 1))
               b == Len(sdk.body)
    <3>1. c = p + 2 + e /\ d = c + l /\ d + e <= b /\ l \in Nat /\ p \in Nat /\ b \in Nat /\ e \in {1, 2}
      BY <1>1, <2>1, <2>4, <2>5
    <3> HIDE DEF p, b, c, d, e, l
    <3>2. p + 2 + e <= b
      BY <3>1
    <3>3. QED
      BY <3>2 DEF b
  <2>7. sdk.items[m + 1].length \in SUBSET Nat /\ ObjectAt(p, sdk.items[m + 1].length)
    BY <2>4, ItemFacts DEF ItemAt
  <2> HIDE DEF p
  <2>8. w \in Seq(Bytes) /\ Len(w) = 2 /\ LineAt(p, w)
    BY <1>1, <2>1, <2>6, <2>7, ObjectIsLine
  <2>9. CASE p + 2 <= arrived
    <3>1. p + Len(w) <= arrived /\ p + Len(w) + e = PayloadStart(m + 1)
      BY <2>4, <2>8, <2>9
    <3> HIDE DEF w
    <3>2. /\ Line(Rest(p)) = w
          /\ AfterLine(Rest(p)) = Rest(p + Len(w) + e)
          /\ AtEOF(Rest(p)) <=> arrived < p + Len(w) + e
      BY <1>1, <2>1, <2>8, <3>1, LineRead
    <3>3. AtHeader(m)
      BY <1>6, <2>2, <3>1, <3>2 DEF AtHeader, p, w
    <3>4. QED
      BY <3>3
  <2>10. CASE arrived < p + 2
    <3>1. arrived = p + 1
      BY <1>1, <2>1, <2>10
    <3>2. p <= arrived /\ arrived < p + Len(w) /\ arrived - p = 1
      BY <2>1, <2>8, <3>1
    <3> DEFINE h == SubSeq(w, 1, arrived - p)
    <3> HIDE DEF w
    <3>3. Line(Rest(p)) = h
      BY <1>1, <2>1, <2>8, <3>2, LineCut
    <3>4. h = <<Open(sdk.items[m + 1].length)>>
      <4>1. w[1] = Open(sdk.items[m + 1].length)
        BY DEF w, Object
      <4>2. h = SubSeq(w, 1, 1) /\ w \in Seq(Bytes) /\ Len(w) = 2
        BY <2>8, <3>2
      <4> HIDE DEF h
      <4>3. QED
        BY <4>1, <4>2, FirstOfTwo
    <3>5. ~Blank(Line(rest)) /\ ~IsObject(Line(rest))
      BY <1>6, <3>3, <3>4, ObjectFacts DEF p
    <3>6. arrived < End(m + 1)
      BY <2>3, <3>1
    <3>7. QED
      BY <2>2, <3>5, <3>6 DEF AtHalfHeader
  <2>11. QED
    BY <1>1, <2>1, <2>9, <2>10
<1>7. QED
  BY <1>4, <1>5, <1>6 DEF Place

(* What it sees decides what it does. *)
LEMMA SeenAs ==
  ASSUME NEW m
  PROVE  /\ Nothing(m) => rest = << >> /\ Blank(Line(rest)) /\ ~IsObject(Line(rest))
         /\ AtLineEnd(m) => rest # << >> /\ Blank(Line(rest)) /\ ~IsObject(Line(rest))
         /\ AtHalfHeader(m) => rest # << >> /\ ~Blank(Line(rest)) /\ ~IsObject(Line(rest))
         /\ AtHeader(m) => /\ rest # << >> /\ ~Blank(Line(rest)) /\ IsObject(Line(rest))
                           /\ HeaderLength(Line(rest)) = sdk.items[m + 1].length
<1>1. Line(<< >>) = << >> /\ AtEOF(<< >>) /\ AfterLine(<< >>) = << >>
  BY EmptyLine
<1>2. Blank(<< >>) /\ ~IsObject(<< >>)
  BY BlankFacts
<1>3. Nothing(m) => rest = << >> /\ Blank(Line(rest)) /\ ~IsObject(Line(rest))
  BY <1>1, <1>2 DEF Nothing
<1>4. AtLineEnd(m) => rest # << >> /\ Blank(Line(rest)) /\ ~IsObject(Line(rest))
  BY <1>2 DEF AtLineEnd
<1>5. AtHalfHeader(m) => rest # << >> /\ ~Blank(Line(rest)) /\ ~IsObject(Line(rest))
  BY <1>1, <1>2 DEF AtHalfHeader
<1>6. AtHeader(m) => /\ rest # << >> /\ ~Blank(Line(rest)) /\ IsObject(Line(rest))
                     /\ HeaderLength(Line(rest)) = sdk.items[m + 1].length
  <2>1. SUFFICES ASSUME AtHeader(m)
                 PROVE  /\ rest # << >> /\ ~Blank(Line(rest)) /\ IsObject(Line(rest))
                        /\ HeaderLength(Line(rest)) = sdk.items[m + 1].length
    OBVIOUS
  <2>2. Line(rest) = Object(sdk.items[m + 1].length)
    BY <2>1 DEF AtHeader
  <2>3. /\ ~Blank(Line(rest)) /\ IsObject(Line(rest))
        /\ HeaderLength(Line(rest)) = sdk.items[m + 1].length
    BY <2>2, ObjectFacts
  <2>4. rest # << >>
    BY <1>1, <1>2, <2>3
  <2>5. QED
    BY <2>3, <2>4
<1>7. QED
  BY <1>3, <1>4, <1>5, <1>6

-------------------------------------------------------------------------------
(* The items read: the first m, or those before m and a cut one. *)
Got(m) == SubSeq(sdk.items, 1, m)

CutItem(m, read) ==
  /\ m # 0 /\ ~Whole /\ sdk.items[m].length = NoLength
  /\ \E n \in 0 .. Len(Payload(m)) :
       read = Append(Got(m - 1), [length |-> NoLength, payload |-> SubSeq(Payload(m), 1, n)])

Finished(m) ==
  /\ m < Items => arrived < End(m + 1)
  /\ items = Got(m) \/ CutItem(m, items)

Reading ==
  /\ status \in {"writing", "header", "item", "done", "failed"}
  /\ status = "writing" => arrived = 0 /\ rest = << >> /\ items = << >>
  /\ status = "header" => rest = Rest(0) /\ items = << >>
  /\ status = "item" => \E m \in 0 .. Items : items = Got(m) /\ Place(m)
  /\ status = "done" => \E m \in 0 .. Items : Finished(m)
  /\ status = "failed" => items = << >> /\ ~Whole

IInv ==
  /\ WellWritten
  /\ arrived \in 0 .. Len(sdk.body)
  /\ Reading

(* One item more. *)
LEMMA OneMore ==
  ASSUME WellWritten, arrived \in 0 .. Len(sdk.body), NEW m \in 0 .. Items - 1
  PROVE  Append(Got(m), sdk.items[m + 1]) = Got(m + 1)
<1> DEFINE s == sdk.items
<1>1. s \in Seq(Item) /\ m \in Nat /\ m + 1 <= Len(s)
  <2>1. s \in Seq(Item)
    BY DEF WellWritten, Typed
  <2>2. QED
    BY <2>1 DEF Items
<1> HIDE DEF s
<1>2. Append(SubSeq(s, 1, m), s[m + 1]) = SubSeq(s, 1, m + 1)
  <2> DEFINE t == SubSeq(s, 1, m)
             u == SubSeq(s, 1, m + 1)
             v == Append(t, s[m + 1])
  <2>1. t \in Seq(Item) /\ Len(t) = m /\ \A k \in 1 .. m : t[k] = s[k]
    BY <1>1
  <2>2. u \in Seq(Item) /\ Len(u) = m + 1 /\ \A k \in 1 .. m + 1 : u[k] = s[k]
    BY <1>1
  <2>3. s[m + 1] \in Item
    BY <1>1
  <2> HIDE DEF t, u
  <2>4. v \in Seq(Item) /\ Len(v) = m + 1 /\ v[m + 1] = s[m + 1] /\ \A k \in 1 .. m : v[k] = t[k]
    BY <1>1, <2>1, <2>3
  <2> HIDE DEF v
  <2>5. \A k \in 1 .. m + 1 : v[k] = u[k]
    <3>1. \A k \in 1 .. m + 1 : k \in 1 .. m \/ k = m + 1
      BY <1>1
    <3>2. m + 1 \in 1 .. m + 1
      BY <1>1
    <3>3. QED
      BY <2>1, <2>2, <2>4, <3>1, <3>2
  <2>6. v = u
    BY <2>2, <2>4, <2>5
  <2>7. QED
    BY <2>6 DEF t, u, v
<1>3. QED
  BY <1>2 DEF Got, s

(* An envelope that ends before its last item does did not arrive as a whole. *)
LEMMA NotWhole ==
  ASSUME WellWritten, arrived \in 0 .. Len(sdk.body), NEW m \in 0 .. Items - 1, arrived < End(m + 1)
  PROVE  ~Whole
<1>1. End(m + 1) <= End(Items) /\ m + 1 \in 0 .. Items
  BY ItemPlaces
<1>2. /\ Len(sdk.body) = End(Items) + Len(sdk.eol) /\ Len(sdk.eol) \in {1, 2}
      /\ arrived \in Nat /\ End(Items) \in Nat /\ End(m + 1) \in Nat
  <2>1. Items \in 0 .. Items
    BY Places
  <2>2. QED
    BY <1>1, <2>1, Places
<1> DEFINE a == Len(sdk.body)
           b == Len(sdk.eol)
           c == End(Items)
           d == End(m + 1)
<1>3. a = c + b /\ b \in {1, 2} /\ c \in Nat /\ d \in Nat /\ d <= c /\ arrived < d /\ arrived \in Nat
  BY <1>1, <1>2
<1> HIDE DEF a, b, c, d
<1>4. ~ (arrived >= a - b)
  BY <1>3
<1>5. QED
  BY <1>4 DEF Whole, a, b

(* What ends before the next item begins ends before that ends. *)
LEMMA LaterEnd ==
  ASSUME WellWritten, arrived \in 0 .. Len(sdk.body), NEW m \in 0 .. Items - 1,
         arrived < End(m + 1) \/ arrived < Start(m + 2), m + 1 < Items
  PROVE  arrived < End((m + 1) + 1)
<1>1. Items \in Nat /\ arrived \in Nat
  BY Places
<1>2. m + 1 \in 0 .. Items - 1 /\ (m + 1) + 1 = m + 2
  BY <1>1
<1>3. End(m + 1) \in Nat /\ Start(m + 2) > End(m + 1)
  BY PlaceOrder
<1>4. Start(m + 2) \in Nat /\ End(m + 2) \in Nat /\ Start(m + 2) < End(m + 2)
  BY <1>2, PlaceOrder
<1> HIDE DEF Start, End
<1>5. QED
  BY <1>1, <1>2, <1>3, <1>4

(* Where a step of the reader may lead: it is at an item, *)
LEMMA ToItem ==
  ASSUME UNCHANGED <<sdk, arrived>>, status' = "item", NEW m \in 0 .. Items,
         items' = Got(m), rest' = Rest(Start(m + 1)) \/ rest' = Rest(End(m))
  PROVE  Reading'
<1>1. (items = Got(m) /\ Place(m))'
  BY DEF Got, Place, Rest, Start, End
<1>2. (m \in 0 .. Items)'
  BY DEF Items
<1>3. QED
  BY <1>1, <1>2 DEF Reading

(* It may be done, *)
LEMMA ToDone ==
  ASSUME UNCHANGED <<sdk, arrived>>, status' = "done", NEW m \in 0 .. Items,
         m < Items => arrived < End(m + 1), items' = Got(m) \/ CutItem(m, items')
  PROVE  Reading'
<1>1. Finished(m)'
  BY DEF Finished, Got, CutItem, Whole, Payload, Items, End
<1>2. (m \in 0 .. Items)'
  BY DEF Items
<1>3. QED
  BY <1>1, <1>2 DEF Reading

(* or it may have failed. *)
LEMMA ToFailed ==
  ASSUME UNCHANGED <<sdk, arrived>>, status' = "failed", items' = << >>, ~Whole
  PROVE  Reading'
  BY DEF Reading, Whole

-------------------------------------------------------------------------------
(* The steps of the reader. *)
LEMMA ReadsHeader ==
  ASSUME IInv, status = "header", ReadEnvelopeHeader
  PROVE  Reading'
<1>1. WellWritten /\ arrived \in 0 .. Len(sdk.body) /\ rest = Rest(0) /\ items = << >>
  BY DEF IInv, Reading
<1>2. /\ Ranges /\ Items \in Nat /\ Len(sdk.eol) \in {1, 2} /\ arrived \in Nat
      /\ End(0) = 2 /\ Start(0 + 1) = End(0) + Len(sdk.eol) /\ End(0) + Len(sdk.eol) <= Len(sdk.body)
  BY <1>1, Places
<1>3. /\ status' = "item" /\ rest' = AfterLine(rest) /\ UNCHANGED <<sdk, arrived, items>>
      /\ Blank(Line(rest)) \/ IsObject(Line(rest))
  BY DEF ReadEnvelopeHeader
<1> DEFINE w == Object(NoLength)
           e == Len(sdk.eol)
<1>4. w \in Seq(Bytes) /\ Len(w) = 2 /\ LineAt(0, w)
  <2>1. NoLength \in SUBSET Nat /\ 0 + 2 + Len(sdk.eol) <= Len(sdk.body)
    BY <1>2 DEF NoLength
  <2>2. ObjectAt(0, NoLength)
    BY <1>1 DEF WellWritten
  <2>3. QED
    BY <1>2, <2>1, <2>2, ObjectIsLine
<1> HIDE DEF w
<1>5. AfterLine(rest) = Rest(Start(1))
  <2>1. Start(1) = 2 + e /\ 0 + Len(w) + e = 2 + e /\ 2 + e \in Nat
    BY <1>2, <1>4
  <2>2. CASE Len(w) <= arrived
    <3>1. 0 + Len(w) <= arrived /\ 0 \in Nat
      BY <1>4, <2>2
    <3>2. AfterLine(Rest(0)) = Rest(0 + Len(w) + e)
      BY <1>2, <1>4, <3>1, LineRead
    <3>3. QED
      BY <1>1, <2>1, <3>2
  <2>3. CASE arrived < Len(w)
    <3>1. 0 <= arrived /\ arrived < 0 + Len(w) /\ 0 \in Nat /\ arrived <= 2 + e
      BY <1>2, <1>4, <2>3
    <3>2. AfterLine(Rest(0)) = << >>
      BY <1>2, <1>4, <3>1, LineCut
    <3>3. Rest(2 + e) = << >>
      BY <1>2, <2>1, <3>1, RestBeyond
    <3>4. QED
      BY <1>1, <2>1, <3>2, <3>3
  <2>4. QED
    BY <1>2, <1>4, <2>2, <2>3
<1>6. items' = Got(0)
  <2>1. sdk.items \in Seq(Item)
    BY <1>1 DEF WellWritten, Typed
  <2>2. SubSeq(sdk.items, 1, 0) = << >>
    BY <2>1
  <2>3. QED
    BY <1>1, <1>3, <2>2 DEF Got
<1>7. 0 \in 0 .. Items /\ 0 + 1 = 1
  BY <1>2
<1>8. QED
  BY <1>3, <1>5, <1>6, <1>7, ToItem

(* A header that is refused was cut. *)
LEMMA RefusesHeader ==
  ASSUME IInv, status = "header", RefuseEnvelopeHeader
  PROVE  Reading'
<1>1. WellWritten /\ arrived \in 0 .. Len(sdk.body) /\ rest = Rest(0)
  BY DEF IInv, Reading
<1>2. /\ Ranges /\ Items \in Nat /\ Len(sdk.eol) \in {1, 2} /\ arrived \in Nat
      /\ End(0) = 2 /\ Len(sdk.body) = End(Items) + Len(sdk.eol)
      /\ End(0) + Len(sdk.eol) <= Len(sdk.body) /\ End(0) <= End(Items) /\ End(Items) \in Nat
  <2>1. Items \in Nat
    BY <1>1, Places
  <2>2. 0 \in 0 .. Items /\ Items \in 0 .. Items
    BY <2>1
  <2>3. QED
    BY <1>1, <2>2, Places
<1>3. /\ status' = "failed" /\ items' = << >> /\ UNCHANGED <<sdk, arrived>>
      /\ ~Blank(Line(rest)) /\ ~IsObject(Line(rest))
  BY DEF RefuseEnvelopeHeader, Refuse
<1> DEFINE w == Object(NoLength)
<1>4. w \in Seq(Bytes) /\ Len(w) = 2 /\ LineAt(0, w)
  <2>1. NoLength \in SUBSET Nat /\ 0 + 2 + Len(sdk.eol) <= Len(sdk.body)
    BY <1>2 DEF NoLength
  <2>2. ObjectAt(0, NoLength)
    BY <1>1 DEF WellWritten
  <2>3. QED
    BY <1>2, <2>1, <2>2, ObjectIsLine
<1>5. ~ (2 <= arrived)
  <2>1. SUFFICES ASSUME 2 <= arrived PROVE FALSE
    OBVIOUS
  <2>2. 0 + Len(w) <= arrived /\ 0 \in Nat
    BY <1>4, <2>1
  <2>3. Line(Rest(0)) = w
    <3> HIDE DEF w
    <3>1. QED
      BY <1>2, <1>4, <2>2, LineRead
  <2>4. QED
    BY <1>1, <1>3, <2>3, ObjectFacts
<1>6. ~Whole
  <2> DEFINE a == Len(sdk.body)
             b == Len(sdk.eol)
             c == End(Items)
  <2>1. a = c + b /\ b \in {1, 2} /\ c \in Nat /\ 2 <= c /\ arrived < 2 /\ arrived \in Nat
    BY <1>2, <1>5
  <2> HIDE DEF a, b, c
  <2>2. ~ (arrived >= a - b)
    BY <2>1
  <2>3. QED
    BY <2>2 DEF Whole, a, b
<1>7. QED
  BY <1>3, <1>6, ToFailed

(* The reader is at one of four places when it is at an item. *)
LEMMA AtItem ==
  ASSUME IInv, status = "item"
  PROVE  \E m \in 0 .. Items :
           /\ items = Got(m)
           /\ Nothing(m) \/ AtLineEnd(m) \/ AtHalfHeader(m) \/ AtHeader(m)
<1>1. WellWritten /\ arrived \in 0 .. Len(sdk.body)
  BY DEF IInv
<1>2. PICK m \in 0 .. Items : items = Got(m) /\ Place(m)
  BY DEF IInv, Reading
<1>3. QED
  BY <1>1, <1>2, Seen

(* The end comes where an item could begin. *)
LEMMA ReadsEnd ==
  ASSUME IInv, EndOfBody
  PROVE  Reading'
<1>1. /\ status = "item" /\ rest = << >> /\ status' = "done"
      /\ UNCHANGED <<sdk, arrived, rest, items>>
  BY DEF EndOfBody
<1>2. PICK m \in 0 .. Items :
        /\ items = Got(m)
        /\ Nothing(m) \/ AtLineEnd(m) \/ AtHalfHeader(m) \/ AtHeader(m)
  BY <1>1, AtItem
<1>3. Nothing(m)
  BY <1>1, <1>2, SeenAs
<1>4. m < Items => arrived < End(m + 1)
  BY <1>3 DEF Nothing
<1>5. items' = Got(m)
  BY <1>1, <1>2
<1>6. QED
  BY <1>1, <1>4, <1>5, ToDone

(* A blank line is the end of the line after a payload. *)
LEMMA ReadsBlank ==
  ASSUME IInv, BlankLine
  PROVE  Reading'
<1>1. /\ status = "item" /\ rest # << >> /\ Blank(Line(rest))
      /\ status' = (IF AtEOF(rest) THEN "done" ELSE "item")
      /\ rest' = AfterLine(rest) /\ UNCHANGED <<sdk, arrived, items>>
  BY DEF BlankLine
<1>2. PICK m \in 0 .. Items :
        /\ items = Got(m)
        /\ Nothing(m) \/ AtLineEnd(m) \/ AtHalfHeader(m) \/ AtHeader(m)
  BY <1>1, AtItem
<1>3. AtLineEnd(m)
  BY <1>1, <1>2, SeenAs
<1>4. items' = Got(m) /\ rest' = Rest(Start(m + 1))
  BY <1>1, <1>2, <1>3 DEF AtLineEnd
<1>5. CASE AtEOF(rest)
  <2>1. status' = "done" /\ arrived < Start(m + 1)
    BY <1>1, <1>3, <1>5 DEF AtLineEnd
  <2>2. m < Items => arrived < End(m + 1)
    <3>1. SUFFICES ASSUME m < Items PROVE arrived < End(m + 1)
      OBVIOUS
    <3>2. WellWritten /\ arrived \in 0 .. Len(sdk.body)
      BY DEF IInv
    <3>3. Items \in Nat /\ arrived \in Nat /\ Len(sdk.eol) \in {1, 2}
      BY <3>2, Places
    <3>4. m \in 0 .. Items - 1
      BY <3>1, <3>3
    <3>5. /\ Start(m + 1) \in Nat /\ End(m + 1) \in Nat /\ Start(m + 1) < End(m + 1)
      BY <3>2, <3>4, PlaceOrder
    <3> HIDE DEF Start, End
    <3>6. QED
      BY <2>1, <3>3, <3>5
  <2>3. QED
    BY <1>1, <1>4, <2>1, <2>2, ToDone
<1>6. CASE ~AtEOF(rest)
  BY <1>1, <1>4, <1>6, ToItem
<1>7. QED
  BY <1>5, <1>6

(* So is the refused header of an item cut. *)
LEMMA RefusesItem ==
  ASSUME IInv, RefuseItemHeader
  PROVE  Reading'
<1>1. /\ status = "item" /\ ~Blank(Line(rest)) /\ ~IsObject(Line(rest))
      /\ status' = "failed" /\ items' = << >> /\ UNCHANGED <<sdk, arrived>>
  BY DEF RefuseItemHeader, Refuse
<1>2. PICK m \in 0 .. Items :
        /\ items = Got(m)
        /\ Nothing(m) \/ AtLineEnd(m) \/ AtHalfHeader(m) \/ AtHeader(m)
  BY <1>1, AtItem
<1>3. m < Items /\ arrived < End(m + 1)
  BY <1>1, <1>2, SeenAs DEF AtHalfHeader
<1>4. ~Whole
  <2>1. WellWritten /\ arrived \in 0 .. Len(sdk.body)
    BY DEF IInv
  <2>2. Items \in Nat
    BY <2>1, Places
  <2>3. m \in 0 .. Items - 1
    BY <1>3, <2>2
  <2>4. QED
    BY <1>3, <2>1, <2>3, NotWhole
<1>5. QED
  BY <1>1, <1>4, ToFailed

(* A record of an item is the item. *)
LEMMA ItemRecord ==
  ASSUME NEW item \in Item
  PROVE  [length |-> item.length, payload |-> item.payload] = item
<1>1. CASE item \in [length : {NoLength}, payload : ImplicitPayloads]
  BY <1>1
<1>2. CASE item \in {[length |-> {Len(q)}, payload |-> q] : q \in ExplicitPayloads}
  <2>1. PICK q \in ExplicitPayloads : item = [length |-> {Len(q)}, payload |-> q]
    BY <1>2
  <2>2. item.length = {Len(q)} /\ item.payload = q
    BY <2>1
  <2>3. QED
    BY <2>1, <2>2
<1>3. QED
  BY <1>1, <1>2 DEF Item

(* io.ReadFull gets the payload, or not all of it arrived. *)
LEMMA PayloadRead ==
  ASSUME Ranges, NEW p \in Nat, NEW w \in Seq(Bytes), PayloadAt(p, w)
  PROVE  /\ Len(UpTo(Len(w), Rest(p))) = Len(w) => UpTo(Len(w), Rest(p)) = w
         /\ Len(UpTo(Len(w), Rest(p))) # Len(w) => arrived < p + Len(w)
<1> DEFINE r == Rest(p)
           n == Len(w)
           u == UpTo(n, r)
<1>1. arrived \in Nat /\ n \in Nat
  BY DEF Ranges
<1>2. r \in Seq(Bytes)
  BY RestFacts DEF Ranges
<1>3. \A k \in 1 .. n : sdk.body[p + k] = w[k]
  BY DEF PayloadAt
<1>4. CASE p + n <= arrived
  <2>1. p <= arrived
    BY <1>1, <1>4
  <2>2. Len(r) = arrived - p /\ \A k \in 1 .. arrived - p : r[k] = sdk.body[p + k]
    BY <2>1, RestThere
  <2> HIDE DEF r, n
  <2>3. n <= Len(r) /\ \A k \in 1 .. n : k \in 1 .. arrived - p
    BY <1>1, <1>4, <2>2
  <2>4. Begins(r, w)
    BY <1>3, <2>2, <2>3 DEF Begins, n
  <2>5. u = SubSeq(r, 1, n)
    BY <2>3 DEF UpTo
  <2>6. u = w
    BY <1>2, <2>4, <2>5, BeginsSub DEF n
  <2>7. QED
    BY <2>6 DEF r, n
<1>5. CASE arrived < p + n
  <2>1. SUFFICES ASSUME Len(u) = n PROVE u = w
    BY <1>5
  <2>2. CASE n = 0
    <3>1. u = << >>
      <4> HIDE DEF r
      <4>1. u = SubSeq(r, 1, 0)
        BY <1>2, <2>2 DEF UpTo
      <4>2. QED
        BY <1>2, <4>1
    <3>2. w = << >>
      BY <2>2
    <3>3. QED
      BY <3>1, <3>2
  <2>3. CASE n # 0
    <3>1. Len(r) < n
      <4>1. CASE p <= arrived
        <5>1. Len(r) = arrived - p
          BY <4>1, RestThere
        <5> HIDE DEF r, n
        <5>2. QED
          BY <1>1, <1>5, <5>1
      <4>2. CASE arrived <= p
        <5>1. r = << >>
          BY <4>2, RestBeyond
        <5> HIDE DEF r, n
        <5>2. QED
          BY <1>1, <2>3, <5>1
      <4>3. QED
        BY <1>1, <4>1, <4>2
    <3> HIDE DEF r, n
    <3>2. u = SubSeq(r, 1, Len(r))
      <4>1. ~ (n <= Len(r))
        BY <1>1, <1>2, <3>1
      <4>2. QED
        BY <4>1 DEF UpTo
    <3>3. Len(u) = Len(r)
      BY <1>2, <3>2
    <3>4. QED
      BY <1>1, <1>2, <2>1, <3>1, <3>3
  <2>4. QED
    BY <2>2, <2>3
<1>6. QED
  BY <1>1, <1>4, <1>5

(* consumeNewline leaves the reader before the end of a line, or after it. *)
LEMMA NewlineDropped ==
  ASSUME Ranges, NEW p \in Nat, EolAt(p)
  PROVE  DropNewline(Rest(p)) \in {Rest(p), Rest(p + Len(sdk.eol))}
<1> DEFINE r == Rest(p)
<1>1. CASE r = << >> \/ Head(r) # NL
  BY <1>1 DEF DropNewline
<1>2. CASE r # << >> /\ Head(r) = NL
  <2>1. p < arrived /\ arrived \in Nat
    <3>1. ~ (arrived <= p)
      BY <1>2, RestBeyond
    <3>2. arrived \in Nat
      BY DEF Ranges
    <3>3. QED
      BY <3>1, <3>2
  <2>2. r[1] = sdk.body[p + 1] /\ r \in Seq(Bytes)
    <3>1. p <= arrived /\ 1 \in 1 .. arrived - p
      BY <2>1
    <3>2. QED
      BY <3>1, RestThere
  <2>3. Head(r) = r[1]
    BY <1>2, <2>2
  <2>4. Len(sdk.eol) = 1
    <3>1. Len(sdk.eol) \in {1, 2}
      BY EolFacts DEF Ranges
    <3>2. Len(sdk.eol) = 2 => sdk.body[p + 1] = CR
      BY DEF EolAt
    <3>3. sdk.body[p + 1] = NL
      BY <1>2, <2>2, <2>3
    <3>4. QED
      BY <3>1, <3>2, <3>3, TokenFacts
  <2>5. After(1, r) = Rest(p + 1)
    BY AfterRest DEF Ranges
  <2> HIDE DEF r
  <2>6. Tail(r) = After(1, r)
    <3>1. 1 + 1 = 2
      OBVIOUS
    <3>2. Tail(r) = SubSeq(r, 2, Len(r))
      BY <1>2, <2>2
    <3>3. QED
      BY <3>1, <3>2 DEF After
  <2>7. DropNewline(r) = Rest(p + Len(sdk.eol))
    BY <1>2, <2>4, <2>5, <2>6 DEF DropNewline
  <2>8. QED
    BY <2>7 DEF r
<1>3. QED
  BY <1>1, <1>2

(* Where the reader is at a header. *)
LEMMA AtItemHeader ==
  ASSUME IInv, NEW length, ItemHeader(length)
  PROVE  \E m \in 0 .. Items - 1 :
           /\ items = Got(m) /\ sdk.items[m + 1].length = length
           /\ AfterLine(rest) = Rest(PayloadStart(m + 1))
           /\ AtEOF(rest) <=> arrived < PayloadStart(m + 1)
<1>1. status = "item" /\ IsObject(Line(rest)) /\ HeaderLength(Line(rest)) = length
  BY DEF ItemHeader
<1>2. PICK m \in 0 .. Items :
        /\ items = Got(m)
        /\ Nothing(m) \/ AtLineEnd(m) \/ AtHalfHeader(m) \/ AtHeader(m)
  BY <1>1, AtItem
<1>3. AtHeader(m) /\ sdk.items[m + 1].length = length
  BY <1>1, <1>2, SeenAs
<1>4. m \in 0 .. Items - 1
  <2>1. Items \in Nat
    BY Places DEF IInv
  <2>2. QED
    BY <1>3, <2>1 DEF AtHeader
<1>5. QED
  BY <1>2, <1>3, <1>4 DEF AtHeader

(* The length of an item that has one is that of its payload. *)
LEMMA LengthOf ==
  ASSUME NEW item \in Item, NEW n, item.length = {n}
  PROVE  n = Len(item.payload)
  BY ItemFacts DEF NoLength

(* A payload that comes with a length is read as a whole. *)
LEMMA ReadsExplicit ==
  ASSUME IInv, NEW n, ReadExplicit(n)
  PROVE  Reading'
<1> DEFINE after == AfterLine(rest)
<1>1. /\ ItemHeader({n}) /\ Len(UpTo(n, after)) = n
      /\ items' = Append(items, [length |-> {n}, payload |-> UpTo(n, after)])
      /\ rest' = DropNewline(After(n, after))
      /\ status' = (IF AtEOF(rest) THEN "done" ELSE "item")
      /\ UNCHANGED <<sdk, arrived>>
  BY DEF ReadExplicit, Complete, TakeExplicit
<1>2. PICK m \in 0 .. Items - 1 :
        /\ items = Got(m) /\ sdk.items[m + 1].length = {n}
        /\ after = Rest(PayloadStart(m + 1))
        /\ AtEOF(rest) <=> arrived < PayloadStart(m + 1)
  BY <1>1, AtItemHeader
<1> HIDE DEF after
<1>3. WellWritten /\ arrived \in 0 .. Len(sdk.body)
  BY DEF IInv
<1>4. Ranges /\ Items \in Nat /\ arrived \in Nat
  BY <1>3, Places
<1> DEFINE p == PayloadStart(m + 1)
           w == Payload(m + 1)
<1>5. /\ m + 1 \in 0 .. Items /\ sdk.items[m + 1] \in Item /\ w \in Seq(Bytes)
      /\ p \in Nat /\ End(m + 1) = p + Len(w) /\ Start(m + 2) = End(m + 1) + Len(sdk.eol)
      /\ ItemAt(m + 1)
  BY <1>3, ItemPlaces
<1>6. p <= End(m + 1) /\ End(m + 1) \in Nat
  BY <1>3, PlaceOrder
<1>7. n = Len(w)
  BY <1>2, <1>5, LengthOf DEF Payload
<1>8. PayloadAt(p, w) /\ EolAt(End(m + 1))
  BY <1>5 DEF ItemAt, PayloadStart, Payload
<1>9. items' = Got(m + 1)
  <2>1. UpTo(n, after) = w
    BY <1>1, <1>2, <1>4, <1>5, <1>7, <1>8, PayloadRead
  <2>2. [length |-> {n}, payload |-> w] = sdk.items[m + 1]
    BY <1>2, <1>5, ItemRecord DEF Payload
  <2>3. Append(Got(m), sdk.items[m + 1]) = Got(m + 1)
    BY <1>3, OneMore
  <2>4. QED
    BY <1>1, <1>2, <2>1, <2>2, <2>3
<1>10. rest' \in {Rest(End(m + 1)), Rest(Start(m + 2))}
  <2>1. n \in Nat
    BY <1>5, <1>7
  <2>2. After(n, after) = Rest(End(m + 1))
    BY <1>2, <1>4, <1>5, <1>7, <2>1, AfterRest DEF Ranges
  <2>3. DropNewline(Rest(End(m + 1))) \in {Rest(End(m + 1)), Rest(End(m + 1) + Len(sdk.eol))}
    BY <1>4, <1>6, <1>8, NewlineDropped
  <2>4. QED
    BY <1>1, <1>5, <2>2, <2>3
<1>11. (m + 1) + 1 = m + 2
  BY <1>4
<1>12. CASE AtEOF(rest)
  <2>1. status' = "done" /\ arrived < End(m + 1)
    <3>1. status' = "done" /\ arrived < p
      BY <1>1, <1>2, <1>12
    <3> HIDE DEF p, End
    <3>2. QED
      BY <1>4, <1>5, <1>6, <3>1
  <2>2. m + 1 < Items => arrived < End((m + 1) + 1)
    BY <1>3, <1>4, <1>5, <1>6, <2>1, LaterEnd
  <2>3. QED
    BY <1>1, <1>5, <1>9, <2>1, <2>2, ToDone
<1>13. CASE ~AtEOF(rest)
  <2>1. status' = "item"
    BY <1>1, <1>13
  <2>2. QED
    BY <1>1, <1>5, <1>9, <1>10, <1>11, <2>1, ToItem
<1>14. QED
  BY <1>12, <1>13

(* One of which not enough arrived was cut. *)
LEMMA RefusesShort ==
  ASSUME IInv, NEW n, RefuseShortPayload(n)
  PROVE  Reading'
<1> DEFINE after == AfterLine(rest)
<1>1. /\ ItemHeader({n}) /\ Len(UpTo(n, after)) # n
      /\ status' = "failed" /\ items' = << >> /\ UNCHANGED <<sdk, arrived>>
  BY DEF RefuseShortPayload, Complete, Refuse
<1>2. PICK m \in 0 .. Items - 1 :
        sdk.items[m + 1].length = {n} /\ after = Rest(PayloadStart(m + 1))
  BY <1>1, AtItemHeader
<1> HIDE DEF after
<1>3. WellWritten /\ arrived \in 0 .. Len(sdk.body)
  BY DEF IInv
<1>4. Ranges
  BY <1>3, Places
<1> DEFINE p == PayloadStart(m + 1)
           w == Payload(m + 1)
<1>5. /\ sdk.items[m + 1] \in Item /\ w \in Seq(Bytes)
      /\ p \in Nat /\ End(m + 1) = p + Len(w) /\ ItemAt(m + 1)
  BY <1>3, ItemPlaces
<1>6. n = Len(w)
  BY <1>2, <1>5, LengthOf DEF Payload
<1>7. PayloadAt(p, w)
  BY <1>5 DEF ItemAt, PayloadStart, Payload
<1>8. arrived < End(m + 1)
  BY <1>1, <1>2, <1>4, <1>5, <1>6, <1>7, PayloadRead
<1>9. ~Whole
  BY <1>3, <1>8, NotWhole
<1>10. QED
  BY <1>1, <1>9, ToFailed

(* A payload that comes without one is read to its end or the cut. *)
LEMMA ReadsImplicit ==
  ASSUME IInv, ReadImplicit
  PROVE  Reading'
<1> DEFINE after == AfterLine(rest)
<1>1. /\ ItemHeader(NoLength)
      /\ items' = Append(items, [length |-> NoLength, payload |-> Line(after)])
      /\ rest' = AfterLine(after)
      /\ status' = (IF AtEOF(after) THEN "done" ELSE "item")
      /\ UNCHANGED <<sdk, arrived>>
  BY DEF ReadImplicit
<1>2. PICK m \in 0 .. Items - 1 :
        /\ items = Got(m) /\ sdk.items[m + 1].length = NoLength
        /\ after = Rest(PayloadStart(m + 1))
  BY <1>1, AtItemHeader
<1> HIDE DEF after
<1>3. WellWritten /\ arrived \in 0 .. Len(sdk.body)
  BY DEF IInv
<1>4. Ranges /\ Items \in Nat /\ arrived \in Nat
  BY <1>3, Places
<1> DEFINE p == PayloadStart(m + 1)
           w == Payload(m + 1)
<1>5. /\ m + 1 \in 0 .. Items /\ sdk.items[m + 1] \in Item /\ w \in Seq(Bytes)
      /\ p \in Nat /\ End(m + 1) = p + Len(w) /\ Start(m + 2) = End(m + 1) + Len(sdk.eol)
  BY <1>3, ItemPlaces
<1>6. End(m + 1) \in Nat /\ (m + 1) + 1 = m + 2 /\ Len(w) \in Nat /\ m + 1 # 0 /\ (m + 1) - 1 = m
  BY <1>3, <1>4, PlaceOrder
<1>7. LineAt(p, w)
  BY <1>2, <1>3, PayloadIsLine
<1>8. CASE End(m + 1) <= arrived
  <2>1. /\ Line(after) = w /\ AfterLine(after) = Rest(Start(m + 2))
        /\ AtEOF(after) <=> arrived < Start(m + 2)
    <3>1. p + Len(w) <= arrived /\ p + Len(w) + Len(sdk.eol) = Start(m + 2)
      BY <1>5, <1>8
    <3> HIDE DEF p, w
    <3>2. /\ Line(Rest(p)) = w /\ AfterLine(Rest(p)) = Rest(p + Len(w) + Len(sdk.eol))
          /\ AtEOF(Rest(p)) <=> arrived < p + Len(w) + Len(sdk.eol)
      BY <1>4, <1>5, <1>7, <3>1, LineRead
    <3>3. QED
      BY <1>2, <3>1, <3>2 DEF p
  <2>2. items' = Got(m + 1)
    <3>1. [length |-> NoLength, payload |-> w] = sdk.items[m + 1]
      BY <1>2, <1>5, ItemRecord DEF Payload
    <3>2. Append(Got(m), sdk.items[m + 1]) = Got(m + 1)
      BY <1>3, OneMore
    <3>3. QED
      BY <1>1, <1>2, <2>1, <3>1, <3>2
  <2>3. CASE AtEOF(after)
    <3>1. status' = "done" /\ arrived < Start(m + 2)
      BY <1>1, <2>1, <2>3
    <3>2. m + 1 < Items => arrived < End((m + 1) + 1)
      BY <1>3, <1>4, <1>5, <1>6, <3>1, LaterEnd
    <3>3. QED
      BY <1>1, <1>5, <2>2, <3>1, <3>2, ToDone
  <2>4. CASE ~AtEOF(after)
    <3>1. status' = "item" /\ rest' = Rest(Start((m + 1) + 1))
      BY <1>1, <1>6, <2>1, <2>4
    <3>2. QED
      BY <1>1, <1>5, <2>2, <3>1, ToItem
  <2>5. QED
    BY <2>3, <2>4
<1>9. CASE arrived < End(m + 1)
  <2>1. AtEOF(after) /\ \E k \in 0 .. Len(w) : Line(after) = SubSeq(w, 1, k)
    <3>1. CASE p <= arrived
      <4>1. arrived < p + Len(w) /\ arrived - p \in 0 .. Len(w)
        BY <1>4, <1>5, <1>6, <1>9, <3>1
      <4>2. AtEOF(after) /\ Line(after) = SubSeq(w, 1, arrived - p)
        BY <1>2, <1>4, <1>5, <1>7, <3>1, <4>1, LineCut
      <4>3. QED
        BY <4>1, <4>2
    <3>2. CASE arrived <= p
      <4>1. after = << >>
        BY <1>2, <1>4, <1>5, <3>2, RestBeyond
      <4>2. SubSeq(w, 1, 0) = << >>
        BY <1>5
      <4>3. 0 \in 0 .. Len(w)
        BY <1>6
      <4>4. QED
        BY <4>1, <4>2, <4>3, EmptyLine
    <3>3. QED
      BY <1>4, <1>5, <3>1, <3>2
  <2>2. ~Whole
    BY <1>3, <1>9, NotWhole
  <2>3. CutItem(m + 1, items')
    BY <1>1, <1>2, <1>6, <2>1, <2>2 DEF CutItem
  <2>4. m + 1 < Items => arrived < End((m + 1) + 1)
    BY <1>3, <1>4, <1>5, <1>6, <1>9, LaterEnd
  <2>5. status' = "done"
    BY <1>1, <2>1
  <2>6. QED
    BY <1>1, <1>5, <2>3, <2>4, <2>5, ToDone
<1>10. QED
  BY <1>4, <1>6, <1>8, <1>9

-------------------------------------------------------------------------------
(* The steps of the SDK. *)
LEMMA Joined ==
  ASSUME NEW a \in Seq(Bytes), NEW b \in Seq(Bytes)
  PROVE  /\ a \o b \in Seq(Bytes) /\ Len(a \o b) = Len(a) + Len(b)
         /\ \A k \in 1 .. Len(a) : (a \o b)[k] = a[k]
         /\ \A k \in 1 .. Len(b) : (a \o b)[Len(a) + k] = b[k]
  OBVIOUS

(* What the body becomes. *)
LEMMA BodyExtended ==
  ASSUME WellWritten, NEW item \in Item, WriteItem(item)
  PROVE  LET n == Len(sdk.body)
             e == Len(sdk.eol)
             l == Len(item.payload)
         IN /\ n \in Nat /\ e \in {1, 2} /\ l \in Nat
            /\ sdk'.body \in Seq(Bytes) /\ Len(sdk'.body) = n + 2 + e + l + e
            /\ sdk'.ends = Append(sdk.ends, n + 2 + e + l)
            /\ sdk'.items = Append(sdk.items, item) /\ sdk'.eol = sdk.eol
            /\ sdk' = [items |-> sdk'.items, ends |-> sdk'.ends, eol |-> sdk'.eol, body |-> sdk'.body]
            /\ \A k \in 1 .. n : sdk'.body[k] = sdk.body[k]
            /\ sdk'.body[n + 1] = Open(item.length) /\ sdk'.body[n + 2] = Close
            /\ \A k \in 1 .. e : sdk'.body[n + 2 + k] = sdk.eol[k]
            /\ \A k \in 1 .. l : sdk'.body[n + 2 + e + k] = item.payload[k]
            /\ \A k \in 1 .. e : sdk'.body[n + 2 + e + l + k] = sdk.eol[k]
<1> DEFINE a == sdk.body
           o == Object(item.length)
           f == sdk.eol
           w == item.payload
           b1 == a \o o
           b2 == b1 \o f
           b3 == b2 \o w
           b4 == b3 \o f
<1>1. sdk \in [items : Seq(Item), ends : Seq(Nat), eol : {<<NL>>, <<CR, NL>>}, body : Seq(Bytes)]
  BY DEF WellWritten, Typed
<1>2. /\ sdk'.items = Append(sdk.items, item) /\ sdk'.eol = sdk.eol
      /\ sdk'.ends = Append(sdk.ends, Len(b3)) /\ sdk'.body = b4
      /\ sdk' = [items |-> sdk'.items, ends |-> sdk'.ends, eol |-> sdk'.eol, body |-> sdk'.body]
  <2>1. sdk' = [sdk EXCEPT !.items = Append(@, item), !.ends = Append(@, Len(b3)), !.body = b4]
    BY DEF WriteItem
  <2> HIDE DEF a, o, f, w, b1, b2, b3, b4
  <2>2. QED
    BY <1>1, <2>1
<1>3. /\ a \in Seq(Bytes) /\ f \in Seq(Bytes) /\ Len(f) \in {1, 2} /\ w \in Seq(Bytes)
  BY <1>1, EolFacts, ItemFacts
<1>4. o \in Seq(Bytes) /\ Len(o) = 2 /\ o[1] = Open(item.length) /\ o[2] = Close
  <2>1. item.length \in SUBSET Nat
    BY ItemFacts
  <2>2. QED
    BY <2>1, ObjectSeq
<1> HIDE DEF a, o, f, w, b1, b2, b3, b4
<1>5. /\ b1 \in Seq(Bytes) /\ Len(b1) = Len(a) + 2
      /\ \A k \in 1 .. Len(a) : b1[k] = a[k]
      /\ \A k \in 1 .. 2 : b1[Len(a) + k] = o[k]
  <2>1. /\ b1 \in Seq(Bytes) /\ Len(b1) = Len(a) + Len(o)
        /\ \A k \in 1 .. Len(a) : b1[k] = a[k]
        /\ \A k \in 1 .. Len(o) : b1[Len(a) + k] = o[k]
    BY <1>3, <1>4, Joined DEF b1
  <2>2. QED
    BY <1>4, <2>1
<1>6. /\ b2 \in Seq(Bytes) /\ Len(b2) = Len(b1) + Len(f)
      /\ \A k \in 1 .. Len(b1) : b2[k] = b1[k]
      /\ \A k \in 1 .. Len(f) : b2[Len(b1) + k] = f[k]
  BY <1>3, <1>5, Joined DEF b2
<1>7. /\ b3 \in Seq(Bytes) /\ Len(b3) = Len(b2) + Len(w)
      /\ \A k \in 1 .. Len(b2) : b3[k] = b2[k]
      /\ \A k \in 1 .. Len(w) : b3[Len(b2) + k] = w[k]
  BY <1>3, <1>6, Joined DEF b3
<1>8. /\ b4 \in Seq(Bytes) /\ Len(b4) = Len(b3) + Len(f)
      /\ \A k \in 1 .. Len(b3) : b4[k] = b3[k]
      /\ \A k \in 1 .. Len(f) : b4[Len(b3) + k] = f[k]
  BY <1>3, <1>7, Joined DEF b4
<1> DEFINE n == Len(a)
           e == Len(f)
           l == Len(w)
<1>9. n \in Nat /\ e \in {1, 2} /\ l \in Nat
  BY <1>3
<1>10. Len(b1) = n + 2 /\ Len(b2) = n + 2 + e /\ Len(b3) = n + 2 + e + l /\ Len(b4) = n + 2 + e + l + e
  BY <1>5, <1>6, <1>7, <1>8
<1> HIDE DEF n, e, l
<1>11. \A k \in 1 .. n + 2 : b4[k] = b1[k]
  <2>1. \A k \in 1 .. n + 2 : k \in 1 .. Len(b1) /\ k \in 1 .. Len(b2) /\ k \in 1 .. Len(b3)
    BY <1>9, <1>10
  <2>2. QED
    BY <1>6, <1>7, <1>8, <2>1
<1>12. \A k \in 1 .. n : b4[k] = a[k]
  <2>1. \A k \in 1 .. n : k \in 1 .. n + 2 /\ k \in 1 .. Len(a)
    BY <1>9 DEF n
  <2>2. QED
    BY <1>5, <1>11, <2>1
<1>13. b4[n + 1] = Open(item.length) /\ b4[n + 2] = Close
  <2>1. n + 1 \in 1 .. n + 2 /\ n + 2 \in 1 .. n + 2 /\ 1 \in 1 .. 2 /\ 2 \in 1 .. 2
    BY <1>9
  <2>2. b1[n + 1] = o[1] /\ b1[n + 2] = o[2]
    BY <1>5, <2>1 DEF n
  <2>3. QED
    BY <1>4, <1>11, <2>1, <2>2
<1>14. \A k \in 1 .. e : b4[n + 2 + k] = f[k]
  <2>1. SUFFICES ASSUME NEW k \in 1 .. e PROVE b4[n + 2 + k] = f[k]
    OBVIOUS
  <2>2. n + 2 + k \in 1 .. Len(b2) /\ n + 2 + k \in 1 .. Len(b3) /\ k \in 1 .. Len(f)
    BY <1>9, <1>10 DEF e
  <2>3. b2[n + 2 + k] = f[k]
    BY <1>6, <1>10, <2>2
  <2>4. QED
    BY <1>7, <1>8, <2>2, <2>3
<1>15. \A k \in 1 .. l : b4[n + 2 + e + k] = w[k]
  <2>1. SUFFICES ASSUME NEW k \in 1 .. l PROVE b4[n + 2 + e + k] = w[k]
    OBVIOUS
  <2>2. n + 2 + e + k \in 1 .. Len(b3) /\ k \in 1 .. Len(w)
    BY <1>9, <1>10 DEF l
  <2>3. b3[n + 2 + e + k] = w[k]
    BY <1>7, <1>10, <2>2
  <2>4. QED
    BY <1>8, <2>2, <2>3
<1>16. \A k \in 1 .. e : b4[n + 2 + e + l + k] = f[k]
  BY <1>8, <1>10 DEF e
<1>17. QED
  BY <1>2, <1>8, <1>9, <1>10, <1>12, <1>13, <1>14, <1>15, <1>16 DEF a, f, w, n, e, l

(* What has been written stays, with the places where it is. *)
Kept ==
  /\ \A i \in 0 .. Items : End(i)' = End(i)
  /\ \A i \in 1 .. Items + 1 : Start(i)' = Start(i) /\ PayloadStart(i)' = PayloadStart(i)
  /\ \A i \in 1 .. Items : sdk'.items[i] = sdk.items[i]
  /\ \A p \in Nat : p + Len(sdk.eol) <= Len(sdk.body) => (EolAt(p) => EolAt(p)')
  /\ \A i \in 1 .. Items : ItemAt(i)'
  /\ ObjectAt(0, NoLength)'

(* It stays in front of another item. *)
LEMMA WrittenKept ==
  ASSUME IInv, status = "writing", NEW item \in Item, WriteItem(item)
  PROVE  Kept
<1>1. WellWritten /\ arrived \in 0 .. Len(sdk.body)
  BY DEF IInv
<1> DEFINE n == Len(sdk.body)
           e == Len(sdk.eol)
<1>2. /\ n \in Nat /\ e \in {1, 2} /\ Items \in Nat /\ sdk'.eol = sdk.eol
      /\ sdk'.items = Append(sdk.items, item)
      /\ \A k \in 1 .. n : sdk'.body[k] = sdk.body[k]
  BY <1>1, BodyExtended, Places
<1>3. /\ sdk'.ends = Append(sdk.ends, n + 2 + e + Len(item.payload)) /\ Len(item.payload) \in Nat
  BY <1>1, BodyExtended
<1>4. sdk.items \in Seq(Item) /\ sdk.ends \in Seq(Nat) /\ Len(sdk.ends) = Len(sdk.items)
  BY <1>1 DEF WellWritten, Typed
<1>5. \A i \in 0 .. Items : End(i)' = End(i)
  <2>1. SUFFICES ASSUME NEW i \in 0 .. Items PROVE End(i)' = End(i)
    OBVIOUS
  <2>2. CASE i = 0
    BY <2>2 DEF End
  <2>3. CASE i # 0
    <3>1. i \in 1 .. Len(sdk.ends)
      BY <1>2, <1>4, <2>3 DEF Items
    <3> DEFINE x == n + 2 + e + Len(item.payload)
               s == sdk.ends
    <3>2. x \in Nat
      <4> DEFINE l == Len(item.payload)
      <4>1. n \in Nat /\ e \in {1, 2} /\ l \in Nat
        BY <1>2, <1>3
      <4> HIDE DEF n, e, l
      <4>2. n + 2 + e + l \in Nat
        BY <4>1
      <4>3. QED
        BY <4>2 DEF l
    <3>3. s \in Seq(Nat) /\ i \in 1 .. Len(s) /\ sdk'.ends = Append(s, x)
      BY <1>3, <1>4, <3>1
    <3> HIDE DEF x, s
    <3>4. sdk'.ends[i] = s[i]
      BY <3>2, <3>3
    <3>5. QED
      BY <2>3, <3>4 DEF End, s
  <2>4. QED
    BY <2>2, <2>3
<1>6. \A i \in 1 .. Items + 1 : Start(i)' = Start(i) /\ PayloadStart(i)' = PayloadStart(i)
  <2>1. \A i \in 1 .. Items + 1 : i - 1 \in 0 .. Items
    BY <1>2
  <2>2. \A i \in 1 .. Items + 1 : Start(i)' = Start(i)
    <3> HIDE DEF End
    <3>1. QED
      BY <1>2, <1>5, <2>1 DEF Start
  <2>3. QED
    BY <1>2, <2>2 DEF PayloadStart
<1>7. \A i \in 1 .. Items : sdk'.items[i] = sdk.items[i]
  BY <1>2, <1>4 DEF Items
<1>8. \A p \in Nat : p + e <= n => (EolAt(p) => EolAt(p)')
  <2>1. SUFFICES ASSUME NEW p \in Nat, p + e <= n, EolAt(p) PROVE EolAt(p)'
    OBVIOUS
  <2>2. e = 1 => p + 1 \in 1 .. n
    BY <1>2, <2>1
  <2>3. e = 2 => p + 1 \in 1 .. n /\ p + 2 \in 1 .. n
    BY <1>2, <2>1
  <2>4. e = 1 => sdk'.body[p + 1] = NL
    BY <1>2, <2>1, <2>2 DEF EolAt
  <2>5. e = 2 => sdk'.body[p + 1] = CR /\ sdk'.body[p + 2] = NL
    BY <1>2, <2>1, <2>3 DEF EolAt
  <2>6. QED
    BY <1>2, <2>4, <2>5 DEF EolAt
<1>9. ASSUME NEW p \in Nat, NEW length, p + 2 + e <= n, ObjectAt(p, length)
      PROVE  ObjectAt(p, length)'
  <2>1. p + 1 \in 1 .. n /\ p + 2 \in 1 .. n /\ p + 2 \in Nat
    <3>1. n \in Nat /\ e \in {1, 2} /\ p + 2 + e <= n
      BY <1>2, <1>9
    <3> HIDE DEF n, e
    <3>2. QED
      BY <3>1
  <2>2. sdk'.body[p + 1] = Open(length) /\ sdk'.body[p + 2] = Close
    BY <1>2, <1>9, <2>1 DEF ObjectAt
  <2>3. EolAt(p + 2)'
    <3>1. EolAt(p + 2)
      BY <1>9 DEF ObjectAt
    <3>2. QED
      BY <1>8, <1>9, <2>1, <3>1
  <2>4. QED
    BY <2>2, <2>3 DEF ObjectAt
<1>10. ASSUME NEW i \in 1 .. Items
       PROVE  ItemAt(i)'
  <2>1. PICK m \in 0 .. Items - 1 : m + 1 = i
    <3>1. i - 1 \in 0 .. Items - 1 /\ (i - 1) + 1 = i
      BY <1>2
    <3>2. QED
      BY <3>1
  <2>2. PICK a \in Nat, b \in Nat, c \in Nat, w \in Seq(Bytes), l \in SUBSET Nat :
          a = Start(i) /\ b = PayloadStart(i) /\ c = End(i) /\ w = Payload(i) /\ l = sdk.items[i].length
    <3>1. Start(i) \in Nat /\ PayloadStart(i) \in Nat /\ End(i) \in Nat
      BY <1>1, <2>1, PlaceOrder
    <3>2. Payload(i) \in Seq(Bytes) /\ sdk.items[i] \in Item
      BY <1>1, <2>1, ItemPlaces
    <3>3. sdk.items[i].length \in SUBSET Nat
      BY <3>2, ItemFacts
    <3> HIDE DEF Start, PayloadStart, End, Payload
    <3>4. QED
      BY <3>1, <3>2, <3>3
  <2>3. /\ b = a + 2 + e /\ c = b + Len(w) /\ c + e <= n /\ ItemAt(i)
    BY <1>1, <2>1, <2>2, ItemPlaces
  <2>4. ObjectAt(a, l) /\ PayloadAt(b, w) /\ EolAt(c)
    BY <2>2, <2>3 DEF ItemAt, Payload
  <2>5. Start(i)' = a /\ End(i)' = c /\ sdk'.items[i] = sdk.items[i]
    <3>1. i \in 0 .. Items /\ i \in 1 .. Items + 1
      BY <1>2
    <3>2. QED
      BY <1>5, <1>6, <1>7, <2>2, <3>1
  <2>6. Len(w) \in Nat /\ a + 2 + e <= n /\ \A k \in 1 .. Len(w) : b + k \in 1 .. n
    <3> DEFINE x == Len(w)
    <3>1. /\ n \in Nat /\ e \in {1, 2} /\ x \in Nat /\ b = a + 2 + e /\ c = b + x /\ c + e <= n
      <4>1. x \in Nat
        OBVIOUS
      <4> HIDE DEF n, e, x
      <4>2. QED
        BY <1>2, <2>3, <4>1 DEF x
    <3> HIDE DEF n, e, x
    <3>2. a + 2 + e <= n /\ \A k \in 1 .. x : b + k \in 1 .. n
      BY <3>1
    <3>3. QED
      BY <3>1, <3>2 DEF x
  <2>7. ObjectAt(a, l)'
    BY <1>9, <2>4, <2>6
  <2>8. PayloadAt(b, w)'
    <3>1. \A k \in 1 .. Len(w) : sdk'.body[b + k] = w[k]
      BY <1>2, <2>4, <2>6 DEF PayloadAt
    <3>2. QED
      BY <3>1 DEF PayloadAt
  <2>9. EolAt(c)'
    BY <1>8, <2>3, <2>4
  <2>10. QED
    <3>1. /\ (Start(i) + 2 + Len(sdk.eol))' = b /\ sdk'.items[i].length = l /\ sdk'.items[i].payload = w
      BY <1>2, <2>2, <2>3, <2>5 DEF Payload
    <3>2. ObjectAt(Start(i), sdk.items[i].length)'
      BY <2>5, <2>7, <3>1 DEF ObjectAt, EolAt
    <3>3. PayloadAt(Start(i) + 2 + Len(sdk.eol), sdk.items[i].payload)'
      BY <2>8, <3>1 DEF PayloadAt
    <3>4. EolAt(End(i))'
      BY <2>5, <2>9 DEF EolAt
    <3>5. (End(i) = Start(i) + 2 + Len(sdk.eol) + Len(sdk.items[i].payload))'
      BY <2>3, <2>5, <3>1
    <3>6. QED
      BY <3>2, <3>3, <3>4, <3>5 DEF ItemAt
<1>11. ObjectAt(0, NoLength)'
  <2>1. ObjectAt(0, NoLength)
    BY <1>1 DEF WellWritten
  <2>2. 0 + 2 + e <= n
    <3>1. 0 \in 0 .. Items
      BY <1>2
    <3>2. End(0) = 2 /\ End(0) + e <= n
      BY <1>1, <3>1, Places
    <3>3. QED
      BY <3>2
  <2>3. QED
    BY <1>9, <2>1, <2>2
<1>12. QED
  BY <1>5, <1>6, <1>7, <1>8, <1>10, <1>11 DEF Kept

(* The body, n bytes long, gets an item with l bytes of payload. *)
Extended(item, n, e, l) ==
  /\ n = Len(sdk.body) /\ e = Len(sdk.eol) /\ l = Len(item.payload)
  /\ Len(sdk'.body) = n + 2 + e + l + e
  /\ sdk'.ends = Append(sdk.ends, n + 2 + e + l)
  /\ sdk'.items = Append(sdk.items, item) /\ sdk'.eol = sdk.eol
  /\ sdk'.body[n + 1] = Open(item.length) /\ sdk'.body[n + 2] = Close
  /\ \A k \in 1 .. e : sdk'.body[n + 2 + k] = sdk.eol[k]
  /\ \A k \in 1 .. l : sdk'.body[n + 2 + e + k] = item.payload[k]
  /\ \A k \in 1 .. e : sdk'.body[n + 2 + e + l + k] = sdk.eol[k]

(* The item written is where it should be. *)
LEMMA LastWritten ==
  ASSUME IInv, status = "writing", NEW item \in Item, WriteItem(item), NEW N \in Nat, N = Items
  PROVE  /\ ItemAt(N + 1)'
         /\ End(N + 1)' \in Nat /\ End(N + 1)' > End(N)
         /\ Len(sdk'.body) = End(N + 1)' + Len(sdk'.eol)
<1>1. WellWritten /\ arrived \in 0 .. Len(sdk.body)
  BY DEF IInv
<1>2. /\ End(N) \in Nat /\ Len(sdk.body) = End(N) + Len(sdk.eol)
      /\ Start(N + 1) = End(N) + Len(sdk.eol)
  <2>1. N \in 0 .. Items
    OBVIOUS
  <2>2. QED
    BY <1>1, <2>1, Places
<1>3. PICK n \in Nat, e \in {1, 2}, l \in Nat : Extended(item, n, e, l)
  <2> DEFINE n == Len(sdk.body)
             e == Len(sdk.eol)
             l == Len(item.payload)
  <2>1. n \in Nat /\ e \in {1, 2} /\ l \in Nat
    BY <1>1, BodyExtended
  <2>2. Extended(item, n, e, l)
    BY <1>1, BodyExtended DEF Extended
  <2> HIDE DEF n, e, l
  <2>3. QED
    BY <2>1, <2>2
<1>4. /\ n = Len(sdk.body) /\ e = Len(sdk.eol) /\ l = Len(item.payload)
      /\ Len(sdk'.body) = n + 2 + e + l + e
      /\ sdk'.ends = Append(sdk.ends, n + 2 + e + l)
      /\ sdk'.items = Append(sdk.items, item) /\ sdk'.eol = sdk.eol
      /\ sdk'.body[n + 1] = Open(item.length) /\ sdk'.body[n + 2] = Close
      /\ \A k \in 1 .. e : sdk'.body[n + 2 + k] = sdk.eol[k]
      /\ \A k \in 1 .. l : sdk'.body[n + 2 + e + k] = item.payload[k]
      /\ \A k \in 1 .. e : sdk'.body[n + 2 + e + l + k] = sdk.eol[k]
  BY <1>3 DEF Extended
<1>5. sdk.items \in Seq(Item) /\ sdk.ends \in Seq(Nat) /\ Len(sdk.ends) = N /\ Len(sdk.items) = N
  BY <1>1 DEF WellWritten, Typed, Items
<1>6. sdk.eol \in {<<NL>>, <<CR, NL>>}
  BY <1>1 DEF WellWritten, Typed
<1> DEFINE i == N + 1
           x == n + 2 + e + l
<1>7. x \in Nat /\ i \in Nat \ {0} /\ i # 0
  BY <1>2
<1> HIDE DEF x
<1>8. End(i)' = x
  <2>1. sdk'.ends[i] = x
    <3> DEFINE s == sdk.ends
    <3>1. s \in Seq(Nat) /\ i = Len(s) + 1 /\ sdk'.ends = Append(s, x)
      BY <1>4, <1>5 DEF x
    <3> HIDE DEF s, i
    <3>2. QED
      BY <1>7, <3>1
  <2>2. QED
    BY <1>7, <2>1 DEF End
<1>9. Start(i)' = n
  <2>1. Start(i)' = Start(i)
    <3>1. Kept
      BY WrittenKept
    <3>2. i \in 1 .. Items + 1
      OBVIOUS
    <3> HIDE DEF i, Start
    <3>3. QED
      BY <3>1, <3>2 DEF Kept
  <2>2. QED
    BY <1>2, <1>4, <2>1
<1>10. sdk'.items[i] = item
  <2> DEFINE s == sdk.items
  <2>1. s \in Seq(Item) /\ i = Len(s) + 1 /\ sdk'.items = Append(s, item)
    BY <1>4, <1>5
  <2> HIDE DEF s, i
  <2>2. QED
    BY <2>1
<1>11. \A p \in Nat : (\A k \in 1 .. e : sdk'.body[p + k] = sdk.eol[k]) => EolAt(p)'
  <2>1. SUFFICES ASSUME NEW p \in Nat, \A k \in 1 .. e : sdk'.body[p + k] = sdk.eol[k]
                 PROVE  EolAt(p)'
    OBVIOUS
  <2>2. e = 1 => sdk'.body[p + 1] = NL
    <3>1. 1 \in 1 .. e
      OBVIOUS
    <3>2. QED
      BY <1>4, <1>6, <2>1, <3>1, EolFacts
  <2>3. e = 2 => sdk'.body[p + 1] = CR /\ sdk'.body[p + 2] = NL
    <3>1. e = 2 => 1 \in 1 .. e /\ 2 \in 1 .. e
      OBVIOUS
    <3>2. QED
      BY <1>4, <1>6, <2>1, <3>1, EolFacts
  <2>4. QED
    BY <1>4, <2>2, <2>3 DEF EolAt
<1>12. EolAt(n + 2)' /\ EolAt(x)'
  <2>1. n + 2 \in Nat
    OBVIOUS
  <2>2. EolAt(n + 2)'
    BY <1>4, <1>11, <2>1
  <2>3. \A k \in 1 .. e : sdk'.body[x + k] = sdk.eol[k]
    BY <1>4 DEF x
  <2>4. EolAt(x)'
    BY <1>7, <1>11, <2>3
  <2>5. QED
    BY <2>2, <2>4
<1> HIDE DEF i
<1>13. ItemAt(i)'
  <2>1. ObjectAt(n, item.length)'
    BY <1>4, <1>12 DEF ObjectAt
  <2>2. (Start(i) + 2 + Len(sdk.eol))' = n + 2 + e
    BY <1>4, <1>9
  <2>3. ObjectAt(Start(i), sdk.items[i].length)'
    BY <1>9, <1>10, <2>1 DEF ObjectAt, EolAt
  <2>4. PayloadAt(Start(i) + 2 + Len(sdk.eol), sdk.items[i].payload)'
    BY <1>4, <1>10, <2>2 DEF PayloadAt
  <2>5. EolAt(End(i))'
    BY <1>8, <1>12 DEF EolAt
  <2>6. (End(i) = Start(i) + 2 + Len(sdk.eol) + Len(sdk.items[i].payload))'
    BY <1>4, <1>8, <1>10, <2>2 DEF x
  <2>7. QED
    BY <2>3, <2>4, <2>5, <2>6 DEF ItemAt
<1>14. x > End(N) /\ Len(sdk'.body) = x + Len(sdk'.eol)
  <2> DEFINE c == End(N)
  <2>1. c \in Nat /\ n = c + e /\ Len(sdk'.body) = n + 2 + e + l + e /\ Len(sdk'.eol) = e
    BY <1>2, <1>4
  <2> HIDE DEF c
  <2>2. x > c
    BY <2>1 DEF x
  <2>3. QED
    BY <2>1, <2>2 DEF c, x
<1>15. QED
  BY <1>7, <1>8, <1>13, <1>14 DEF i

(* An item more and the body is what it should be. *)
LEMMA Writes ==
  ASSUME IInv, status = "writing", NEW item \in Item, WriteItem(item)
  PROVE  WellWritten'
<1>1. WellWritten /\ arrived \in 0 .. Len(sdk.body)
  BY DEF IInv
<1>2. Items \in Nat /\ \A i \in 0 .. Items : End(i) \in Nat /\ End(i) <= End(Items)
  BY <1>1, Places
<1>3. Kept
  BY WrittenKept
<1>4. PICK N \in Nat : N = Items
  BY <1>2
<1>5. /\ N = Items /\ ItemAt(N + 1)' /\ End(N + 1)' \in Nat /\ End(N + 1)' > End(N)
      /\ Len(sdk'.body) = End(N + 1)' + Len(sdk'.eol)
  BY <1>4, LastWritten
<1>6. Len(sdk'.items) = N + 1 /\ Len(sdk'.ends) = N + 1 /\ Typed'
  <2>1. sdk \in [items : Seq(Item), ends : Seq(Nat), eol : {<<NL>>, <<CR, NL>>}, body : Seq(Bytes)]
    BY <1>1 DEF WellWritten, Typed
  <2>2. Len(sdk.ends) = N /\ Len(sdk.items) = N
    BY <1>1, <1>5 DEF WellWritten, Typed, Items
  <2>3. PICK x \in Nat :
          /\ sdk'.ends = Append(sdk.ends, x) /\ sdk'.items = Append(sdk.items, item)
          /\ sdk'.eol = sdk.eol /\ sdk'.body \in Seq(Bytes)
          /\ sdk' = [items |-> sdk'.items, ends |-> sdk'.ends, eol |-> sdk'.eol, body |-> sdk'.body]
    <3> DEFINE n == Len(sdk.body)
               e == Len(sdk.eol)
               l == Len(item.payload)
               x == n + 2 + e + l
    <3>1. /\ n \in Nat /\ e \in {1, 2} /\ l \in Nat
          /\ sdk'.ends = Append(sdk.ends, x) /\ sdk'.items = Append(sdk.items, item)
          /\ sdk'.eol = sdk.eol /\ sdk'.body \in Seq(Bytes)
          /\ sdk' = [items |-> sdk'.items, ends |-> sdk'.ends, eol |-> sdk'.eol, body |-> sdk'.body]
      BY <1>1, BodyExtended
    <3> HIDE DEF n, e, l
    <3>2. x \in Nat
      BY <3>1
    <3> HIDE DEF x
    <3>3. QED
      BY <3>1, <3>2
  <2>4. sdk'.items \in Seq(Item) /\ Len(sdk'.items) = N + 1
    <3> DEFINE s == sdk.items
    <3>1. s \in Seq(Item) /\ Len(s) = N /\ sdk'.items = Append(s, item)
      BY <2>1, <2>2, <2>3
    <3> HIDE DEF s
    <3>2. QED
      BY <3>1
  <2>5. sdk'.ends \in Seq(Nat) /\ Len(sdk'.ends) = N + 1
    <3> DEFINE s == sdk.ends
    <3>1. s \in Seq(Nat) /\ Len(s) = N /\ sdk'.ends = Append(s, x)
      BY <2>1, <2>2, <2>3
    <3> HIDE DEF s
    <3>2. QED
      BY <3>1
  <2>6. sdk' \in [items : Seq(Item), ends : Seq(Nat), eol : {<<NL>>, <<CR, NL>>}, body : Seq(Bytes)]
    <3>1. sdk'.eol \in {<<NL>>, <<CR, NL>>}
      BY <2>1, <2>3
    <3> DEFINE a == sdk'.items
               b == sdk'.ends
               c == sdk'.eol
               d == sdk'.body
    <3>2. a \in Seq(Item) /\ b \in Seq(Nat) /\ c \in {<<NL>>, <<CR, NL>>} /\ d \in Seq(Bytes)
      BY <2>3, <2>4, <2>5, <3>1
    <3>3. sdk' = [items |-> a, ends |-> b, eol |-> c, body |-> d]
      BY <2>3
    <3> HIDE DEF a, b, c, d
    <3>4. QED
      BY <3>2, <3>3
  <2>7. Len(sdk'.body) = End(Len(sdk.items))' + Len(sdk'.eol)
    <3>1. End(Len(sdk.items))' = End(N + 1)'
      BY <2>4 DEF End
    <3>2. QED
      BY <1>5, <3>1
  <2>8. QED
    BY <2>4, <2>5, <2>6, <2>7 DEF Typed
<1>7. ObjectAt(0, NoLength)'
  BY <1>3 DEF Kept
<1>8. \A i \in 1 .. N + 1 : ItemAt(i)'
  <2>1. ItemAt(N + 1)'
    BY <1>5
  <2>2. \A i \in 1 .. N : ItemAt(i)'
    BY <1>3, <1>5 DEF Kept
  <2>3. \A i \in 1 .. N + 1 : i \in 1 .. N \/ i = N + 1
    OBVIOUS
  <2>4. QED
    BY <2>1, <2>2, <2>3
<1>9. \A i, j \in 0 .. N + 1 : i < j => End(i)' < End(j)'
  <2>1. SUFFICES ASSUME NEW i \in 0 .. N + 1, NEW j \in 0 .. N + 1, i < j
                 PROVE  End(i)' < End(j)'
    OBVIOUS
  <2>2. i \in 0 .. N /\ End(i)' = End(i)
    <3>1. i \in 0 .. N
      BY <2>1
    <3>2. QED
      BY <1>3, <1>5, <3>1 DEF Kept
  <2>3. CASE j \in 0 .. N
    <3>1. End(j)' = End(j)
      BY <1>3, <1>5, <2>3 DEF Kept
    <3>2. End(i) < End(j)
      BY <1>1, <1>5, <2>1, <2>2, <2>3 DEF WellWritten, Items
    <3>3. QED
      BY <2>2, <3>1, <3>2
  <2>4. CASE j = N + 1
    <3>1. End(j)' \in Nat /\ End(j)' > End(N)
      BY <1>5, <2>4
    <3>2. End(i) \in Nat /\ End(N) \in Nat /\ End(i) <= End(N)
      <4>1. N \in 0 .. N
        OBVIOUS
      <4>2. QED
        BY <1>2, <1>5, <2>2, <4>1
    <3> HIDE DEF End
    <3>3. QED
      BY <2>2, <3>1, <3>2
  <2>5. QED
    BY <2>3, <2>4
<1>10. QED
  BY <1>6, <1>7, <1>8, <1>9 DEF WellWritten

-------------------------------------------------------------------------------
(* The invariant holds when an SDK begins, *)
LEMMA InitReads == Init => IInv
<1>1. SUFFICES ASSUME Init PROVE IInv
  OBVIOUS
<1>2. PICK f \in {<<NL>>, <<CR, NL>>} :
        sdk = [items |-> << >>, ends |-> << >>, eol |-> f, body |-> Object(NoLength) \o f]
  BY <1>1 DEF Init
<1>3. arrived = 0 /\ rest = << >> /\ items = << >> /\ status = "writing"
  BY <1>1 DEF Init
<1> DEFINE o == Object(NoLength)
           b == o \o f
           e == Len(f)
<1>4. o \in Seq(Bytes) /\ Len(o) = 2 /\ o[1] = Open(NoLength) /\ o[2] = Close
  <2>1. NoLength \in SUBSET Nat
    BY DEF NoLength
  <2>2. QED
    BY <2>1, ObjectSeq
<1>5. /\ sdk.eol = f /\ sdk.eol \in {<<NL>>, <<CR, NL>>} /\ sdk.body = b
      /\ sdk.items = << >> /\ sdk.ends = << >>
  BY <1>2
<1>6. /\ f \in Seq(Bytes) /\ e \in {1, 2} /\ (e = 1 => f[1] = NL)
      /\ e = 2 => f[1] = CR /\ f[2] = NL
  BY <1>5, EolFacts
<1> HIDE DEF o
<1>7. /\ b \in Seq(Bytes) /\ Len(b) = Len(o) + e
      /\ \A k \in 1 .. Len(o) : b[k] = o[k]
      /\ \A k \in 1 .. e : b[Len(o) + k] = f[k]
  BY <1>4, <1>6, Joined
<1> HIDE DEF b, e
<1>8. Len(b) = 2 + e /\ b[1] = Open(NoLength) /\ b[2] = Close /\ \A k \in 1 .. e : b[2 + k] = f[k]
  <2>1. 1 \in 1 .. 2 /\ 2 \in 1 .. 2
    OBVIOUS
  <2>2. QED
    BY <1>4, <1>7, <2>1
<1>9. ObjectAt(0, NoLength)
  <2>1. sdk.body[0 + 1] = Open(NoLength) /\ sdk.body[0 + 2] = Close
    BY <1>5, <1>8
  <2>2. EolAt(0 + 2)
    <3>1. e = 1 => 1 \in 1 .. e
      OBVIOUS
    <3>2. e = 2 => 1 \in 1 .. e /\ 2 \in 1 .. e
      OBVIOUS
    <3>3. 0 + 2 = 2 /\ Len(sdk.eol) = e
      BY <1>5 DEF e
    <3>4. e = 1 => sdk.body[2 + 1] = NL
      BY <1>5, <1>6, <1>8, <3>1
    <3>5. e = 2 => sdk.body[2 + 1] = CR /\ sdk.body[2 + 2] = NL
      BY <1>5, <1>6, <1>8, <3>2
    <3>6. EolAt(2)
      BY <3>3, <3>4, <3>5 DEF EolAt
    <3>7. QED
      BY <3>3, <3>6
  <2>3. QED
    BY <2>1, <2>2 DEF ObjectAt
<1>10. Typed
  <2>1. sdk \in [items : Seq(Item), ends : Seq(Nat), eol : {<<NL>>, <<CR, NL>>}, body : Seq(Bytes)]
    <3>1. << >> \in Seq(Item) /\ << >> \in Seq(Nat)
      OBVIOUS
    <3> DEFINE EOLs == {<<NL>>, <<CR, NL>>}
    <3>2. f \in EOLs /\ b \in Seq(Bytes) /\ sdk = [items |-> << >>, ends |-> << >>, eol |-> f, body |-> b]
      BY <1>2, <1>5, <1>7
    <3> HIDE DEF EOLs
    <3>3. sdk \in [items : Seq(Item), ends : Seq(Nat), eol : EOLs, body : Seq(Bytes)]
      BY <3>1, <3>2
    <3>4. QED
      BY <3>3 DEF EOLs
  <2>2. Len(sdk.items) = 0 /\ Len(sdk.ends) = 0
    BY <1>5
  <2>3. Len(sdk.body) = End(Len(sdk.items)) + Len(sdk.eol)
    BY <1>5, <1>8, <2>2 DEF End, e
  <2>4. QED
    BY <2>1, <2>2, <2>3 DEF Typed
<1>11. WellWritten
  <2>1. Len(sdk.items) = 0
    BY <1>5
  <2>2. \A k \in 1 .. Len(sdk.items) : FALSE
    BY <2>1
  <2>3. \A k, j \in 0 .. Len(sdk.items) : ~ (k < j)
    BY <2>1
  <2>4. QED
    BY <1>9, <1>10, <2>2, <2>3 DEF WellWritten
<1>12. arrived \in 0 .. Len(sdk.body)
  <2>1. Len(sdk.body) \in Nat
    BY <1>5, <1>7
  <2>2. QED
    BY <1>3, <2>1
<1>13. Reading
  BY <1>3 DEF Reading
<1>14. QED
  BY <1>11, <1>12, <1>13 DEF IInv

(* when the body arrives, *)
LEMMA ArriveReads ==
  ASSUME IInv, NEW n \in 0 .. Len(sdk.body), Arrive(n)
  PROVE  IInv'
<1>1. /\ status = "writing" /\ arrived' = n /\ rest' = UpTo(n, sdk.body) /\ status' = "header"
      /\ UNCHANGED <<sdk, items>>
  BY DEF Arrive
<1>2. items' = << >>
  BY <1>1 DEF IInv, Reading
<1>3. rest' = Rest(0)'
  <2>1. 0 + 1 = 1 /\ n <= Len(sdk.body)
    BY Places DEF IInv
  <2>2. rest' = SubSeq(sdk.body, 1, n)
    BY <1>1, <2>1 DEF UpTo
  <2>3. Rest(0)' = SubSeq(sdk.body, 1, n)
    BY <1>1, <2>1 DEF Rest
  <2>4. QED
    BY <2>2, <2>3
<1>4. WellWritten'
  <2>1. WellWritten /\ sdk' = sdk
    BY <1>1 DEF IInv
  <2>2. QED
    BY <2>1 DEF WellWritten, Typed, ObjectAt, ItemAt, PayloadAt, EolAt, Start, End
<1>5. (arrived \in 0 .. Len(sdk.body))'
  BY <1>1
<1>6. Reading'
  BY <1>1, <1>2, <1>3 DEF Reading
<1>7. QED
  BY <1>4, <1>5, <1>6 DEF IInv

(* when an item is written *)
LEMMA WriteReads ==
  ASSUME IInv, NEW item \in Item, WriteItem(item)
  PROVE  IInv'
<1>1. /\ status = "writing" /\ UNCHANGED <<arrived, rest, items, status>>
  BY DEF WriteItem
<1>2. arrived = 0 /\ rest = << >> /\ items = << >>
  BY <1>1 DEF IInv, Reading
<1>3. WellWritten'
  BY <1>1, Writes
<1>4. (arrived \in 0 .. Len(sdk.body))'
  <2>1. sdk'.body \in Seq(Bytes)
    BY <1>3 DEF WellWritten, Typed
  <2>2. Len(sdk'.body) \in Nat
    BY <2>1
  <2>3. QED
    BY <1>1, <1>2, <2>2
<1>5. Reading'
  BY <1>1, <1>2 DEF Reading
<1>6. QED
  BY <1>3, <1>4, <1>5 DEF IInv

(* The invariant stays where the reader steps. *)
LEMMA ReaderKeeps ==
  ASSUME IInv, UNCHANGED <<sdk, arrived>>, Reading'
  PROVE  IInv'
<1>1. WellWritten'
  <2>1. WellWritten /\ sdk' = sdk
    BY DEF IInv
  <2>2. QED
    BY <2>1 DEF WellWritten, Typed, ObjectAt, ItemAt, PayloadAt, EolAt, Start, End
<1>2. (arrived \in 0 .. Len(sdk.body))'
  BY DEF IInv
<1>3. QED
  BY <1>1, <1>2 DEF IInv

(* and in every step. *)
LEMMA NextReads == IInv /\ [Next]_vars => IInv'
<1>1. SUFFICES ASSUME IInv, [Next]_vars PROVE IInv'
  OBVIOUS
<1>2. ASSUME NEW item \in Item, WriteItem(item) PROVE IInv'
  BY <1>1, <1>2, WriteReads
<1>3. ASSUME NEW n \in 0 .. Len(sdk.body), Arrive(n) PROVE IInv'
  BY <1>1, <1>3, ArriveReads
<1>4. CASE ReadEnvelopeHeader
  <2>1. status = "header" /\ UNCHANGED <<sdk, arrived>>
    BY <1>4 DEF ReadEnvelopeHeader
  <2>2. QED
    BY <1>1, <1>4, <2>1, ReadsHeader, ReaderKeeps
<1>5. CASE RefuseEnvelopeHeader
  <2>1. status = "header" /\ UNCHANGED <<sdk, arrived>>
    BY <1>5 DEF RefuseEnvelopeHeader, Refuse
  <2>2. QED
    BY <1>1, <1>5, <2>1, RefusesHeader, ReaderKeeps
<1>6. CASE EndOfBody
  <2>1. UNCHANGED <<sdk, arrived>>
    BY <1>6 DEF EndOfBody
  <2>2. QED
    BY <1>1, <1>6, <2>1, ReadsEnd, ReaderKeeps
<1>7. CASE BlankLine
  <2>1. UNCHANGED <<sdk, arrived>>
    BY <1>7 DEF BlankLine
  <2>2. QED
    BY <1>1, <1>7, <2>1, ReadsBlank, ReaderKeeps
<1>8. CASE RefuseItemHeader
  <2>1. UNCHANGED <<sdk, arrived>>
    BY <1>8 DEF RefuseItemHeader, Refuse
  <2>2. QED
    BY <1>1, <1>8, <2>1, RefusesItem, ReaderKeeps
<1>9. ASSUME NEW n \in Lengths, ReadExplicit(n) PROVE IInv'
  <2>1. UNCHANGED <<sdk, arrived>>
    BY <1>9 DEF ReadExplicit
  <2>2. QED
    BY <1>1, <1>9, <2>1, ReadsExplicit, ReaderKeeps
<1>10. ASSUME NEW n \in Lengths, RefuseShortPayload(n) PROVE IInv'
  <2>1. UNCHANGED <<sdk, arrived>>
    BY <1>10 DEF RefuseShortPayload, Refuse
  <2>2. QED
    BY <1>1, <1>10, <2>1, RefusesShort, ReaderKeeps
<1>11. CASE ReadImplicit
  <2>1. UNCHANGED <<sdk, arrived>>
    BY <1>11 DEF ReadImplicit
  <2>2. QED
    BY <1>1, <1>11, <2>1, ReadsImplicit, ReaderKeeps
<1>12. CASE UNCHANGED vars
  <2>1. UNCHANGED <<sdk, arrived, rest, items, status>>
    BY <1>12 DEF vars
  <2>2. Reading'
    <3>1. Reading
      BY <1>1 DEF IInv
    <3>2. QED
      BY <2>1, <3>1 DEF Reading, Finished, CutItem, Got, Place, Rest, Start, End, Items, Payload, Whole
  <2>3. QED
    BY <1>1, <2>1, <2>2, ReaderKeeps
<1>13. QED
  BY <1>1, <1>2, <1>3, <1>4, <1>5, <1>6, <1>7, <1>8, <1>9, <1>10, <1>11, <1>12 DEF Next

(* So it always holds. *)
LEMMA Reads == Spec => []IInv
  BY InitReads, NextReads, PTL DEF Spec

-------------------------------------------------------------------------------
(* What was read as a whole is a prefix of what was put in. *)
LEMMA GotFacts ==
  ASSUME WellWritten, arrived \in 0 .. Len(sdk.body), NEW m \in 0 .. Items
  PROVE  /\ Got(m) \in Seq(Item) /\ Len(Got(m)) = m
         /\ \A i \in 1 .. m : Got(m)[i] = sdk.items[i] /\ i \in DOMAIN sdk.items
         /\ m = Items => Got(m) = sdk.items
<1> DEFINE s == sdk.items
<1>1. s \in Seq(Item) /\ m \in Nat /\ m <= Len(s) /\ (m = Items => m = Len(s))
  <2>1. s \in Seq(Item)
    BY DEF WellWritten, Typed
  <2>2. QED
    BY <2>1 DEF Items
<1> DEFINE g == SubSeq(s, 1, m)
<1> HIDE DEF s
<1>2. g \in Seq(Item) /\ Len(g) = m /\ \A i \in 1 .. m : g[i] = s[i] /\ i \in DOMAIN s
  BY <1>1
<1>3. m = Items => g = s
  BY <1>1
<1>4. g = Got(m)
  BY DEF Got, s
<1> HIDE DEF g
<1>5. QED
  BY <1>2, <1>3, <1>4 DEF s

(* ParseEnvelope reads an envelope that arrived as a whole to the items that *)
(* were put in.                                                              *)
THEOREM ReadBack == Spec => []RoundTrip
<1>1. IInv => RoundTrip
  <2>1. SUFFICES ASSUME IInv, Whole PROVE status # "failed" /\ (status = "done" => items = sdk.items)
    BY DEF RoundTrip
  <2>2. WellWritten /\ arrived \in 0 .. Len(sdk.body) /\ Items \in Nat
    BY <2>1, Places DEF IInv
  <2>3. status # "failed"
    BY <2>1 DEF IInv, Reading
  <2>4. ASSUME status = "done" PROVE items = sdk.items
    <3>1. PICK m \in 0 .. Items : Finished(m)
      BY <2>1, <2>4 DEF IInv, Reading
    <3>2. ~ (m < Items)
      <4>1. SUFFICES ASSUME m < Items PROVE FALSE
        OBVIOUS
      <4>2. m \in 0 .. Items - 1 /\ arrived < End(m + 1)
        BY <2>2, <3>1, <4>1 DEF Finished
      <4>3. QED
        BY <2>1, <2>2, <4>2, NotWhole
    <3>3. m = Items
      BY <2>2, <3>2
    <3>4. items = Got(m)
      BY <2>1, <3>1 DEF Finished, CutItem
    <3>5. QED
      BY <2>2, <3>3, <3>4, GotFacts
  <2>5. QED
    BY <2>3, <2>4
<1>2. QED
  BY <1>1, Reads, PTL

(* Every item of which all bytes arrived is read. *)
LEMMA AllArrivedRead ==
  ASSUME WellWritten, arrived \in 0 .. Len(sdk.body), NEW m \in 0 .. Items,
         m < Items => arrived < End(m + 1), NEW i \in DOMAIN sdk.items, sdk.ends[i] <= arrived
  PROVE  i <= m
<1>1. sdk.items \in Seq(Item) /\ Items \in Nat /\ arrived \in Nat
  BY Places DEF WellWritten, Typed
<1>2. i \in 1 .. Items
  BY <1>1 DEF Items
<1>3. SUFFICES ASSUME m < i PROVE FALSE
  BY <1>2
<1>4. m + 1 \in 0 .. Items /\ i \in 0 .. Items /\ m < Items /\ (m + 1 = i \/ m + 1 < i)
  BY <1>1, <1>2, <1>3
<1>5. End(m + 1) \in Nat /\ End(i) \in Nat
  BY <1>4, Places
<1>6. m + 1 < i => End(m + 1) < End(i)
  BY <1>4 DEF WellWritten, Items
<1>7. End(i) <= arrived
  BY <1>2 DEF End
<1>8. arrived < End(m + 1)
  BY <1>4
<1> DEFINE x == End(m + 1)
           y == End(i)
<1>9. x \in Nat /\ y \in Nat /\ arrived \in Nat /\ (x = y \/ x < y) /\ y <= arrived /\ arrived < x
  BY <1>1, <1>4, <1>5, <1>6, <1>7, <1>8
<1> HIDE DEF x, y
<1>10. QED
  BY <1>9

(* ParseEnvelope never takes a payload's bytes for an item, however the body *)
(* was cut.                                                                  *)
THEOREM CutRead == Spec => []CutHarmless
<1> DEFINE Fits(i) ==
             /\ i \in DOMAIN sdk.items
             /\ items[i].length = sdk.items[i].length
             /\ \/ items[i].payload = sdk.items[i].payload
                \/ /\ i = Len(items) /\ items[i].length = NoLength /\ status = "done"
                   /\ ~Whole /\ Prefixed(items[i].payload, sdk.items[i].payload)
<1>1. ASSUME WellWritten, arrived \in 0 .. Len(sdk.body), NEW m \in 0 .. Items, items = Got(m)
      PROVE  Len(items) = m /\ \A i \in DOMAIN items : Fits(i)
  <2>1. /\ items \in Seq(Item) /\ Len(items) = m
        /\ \A i \in 1 .. m : items[i] = sdk.items[i] /\ i \in DOMAIN sdk.items
    BY <1>1, GotFacts
  <2>2. DOMAIN items = 1 .. m
    BY <2>1
  <2>3. QED
    BY <2>1, <2>2
<1>2. ASSUME WellWritten, arrived \in 0 .. Len(sdk.body), NEW m \in 0 .. Items, CutItem(m, items), status = "done"
      PROVE  Len(items) = m /\ \A i \in DOMAIN items : Fits(i)
  <2>1. m \in Nat /\ m # 0 /\ m - 1 \in 0 .. Items /\ m - 1 \in Nat /\ (m - 1) + 1 = m /\ m \in 1 .. Items
    BY <1>2, Places DEF CutItem
  <2>2. PICK n \in 0 .. Len(Payload(m)) :
          items = Append(Got(m - 1), [length |-> NoLength, payload |-> SubSeq(Payload(m), 1, n)])
    BY <1>2 DEF CutItem
  <2> DEFINE g == Got(m - 1)
             r == [length |-> NoLength, payload |-> SubSeq(Payload(m), 1, n)]
  <2>3. /\ g \in Seq(Item) /\ Len(g) = m - 1
        /\ \A i \in 1 .. m - 1 : g[i] = sdk.items[i] /\ i \in DOMAIN sdk.items
    BY <1>2, <2>1, GotFacts
  <2>4. r.length = NoLength /\ Prefixed(r.payload, sdk.items[m].payload)
    BY DEF Prefixed, Payload
  <2>5. items = Append(g, r)
    BY <2>2
  <2> HIDE DEF g, r
  <2>6. Len(items) = m /\ DOMAIN items = 1 .. m /\ items[m] = r /\ \A i \in 1 .. m - 1 : items[i] = g[i]
    <3>1. g \in Seq(Item \cup {r}) /\ r \in Item \cup {r}
      BY <2>3
    <3>2. QED
      BY <2>1, <2>3, <2>5, <3>1
  <2>7. Fits(m)
    <3>1. m \in DOMAIN sdk.items
      <4>1. sdk.items \in Seq(Item)
        BY <1>2 DEF WellWritten, Typed
      <4>2. QED
        BY <2>1, <4>1 DEF Items
    <3>2. sdk.items[m].length = NoLength /\ ~Whole
      BY <1>2 DEF CutItem
    <3>3. QED
      BY <1>2, <2>4, <2>6, <3>1, <3>2
  <2>8. \A i \in 1 .. m - 1 : Fits(i)
    BY <2>3, <2>6
  <2>9. \A i \in 1 .. m : i = m \/ i \in 1 .. m - 1
    BY <2>1
  <2>10. QED
    BY <2>6, <2>7, <2>8, <2>9
<1>3. ASSUME WellWritten, arrived \in 0 .. Len(sdk.body), items = << >>
      PROVE  \A i \in DOMAIN items : Fits(i)
  BY <1>3
<1>4. IInv => CutHarmless
  <2>1. SUFFICES ASSUME IInv PROVE CutHarmless
    OBVIOUS
  <2>2. WellWritten /\ arrived \in 0 .. Len(sdk.body)
    BY <2>1 DEF IInv
  <2>3. CASE status = "done"
    <3>1. PICK m \in 0 .. Items : Finished(m)
      BY <2>1, <2>3 DEF IInv, Reading
    <3>2. Len(items) = m /\ \A i \in DOMAIN items : Fits(i)
      BY <1>1, <1>2, <2>2, <2>3, <3>1 DEF Finished
    <3>3. \A i \in DOMAIN sdk.items : sdk.ends[i] <= arrived => i <= m
      BY <2>2, <3>1, AllArrivedRead DEF Finished
    <3>4. QED
      BY <3>2, <3>3 DEF CutHarmless
  <2>4. CASE status = "item"
    <3>1. PICK m \in 0 .. Items : items = Got(m)
      BY <2>1, <2>4 DEF IInv, Reading
    <3>2. \A i \in DOMAIN items : Fits(i)
      BY <1>1, <2>2, <3>1
    <3>3. QED
      BY <2>4, <3>2 DEF CutHarmless
  <2>5. CASE status \in {"writing", "header", "failed"}
    <3>1. items = << >> /\ status # "done"
      BY <2>1, <2>5 DEF IInv, Reading
    <3>2. \A i \in DOMAIN items : Fits(i)
      BY <1>3, <2>2, <3>1
    <3>3. QED
      BY <3>1, <3>2 DEF CutHarmless
  <2>6. QED
    BY <2>1, <2>3, <2>4, <2>5 DEF IInv, Reading
<1>5. QED
  BY <1>4, Reads, PTL

===============================================================================
