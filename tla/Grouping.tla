------------------------------ MODULE Grouping ------------------------------
(***************************************************************************)
(* Fingerprint and Title of internal/grouping, on the events ParseEvent    *)
(* yields, and the issues a project's events end up in.                    *)
(*                                                                         *)
(* A text is a name, and NUL occurs in none.  The SHA-256 of the joined    *)
(* components is taken to be the joined components: no two are alike.      *)
(***************************************************************************)
EXTENDS EventParsing, FiniteSets

CONSTANTS
  Sent,         \* what SDKs mean and in which form they write it
  Broken,       \* what they write that is no event's JSON
  MaxEvents     \* bound: events that are stored or skipped

VARIABLES
  issues,   \* the issues, by fingerprint: their title and the events in them
  skipped   \* what did not parse

vars == <<issues, skipped>>

NoTrace == [json |-> "no stacktrace"]
NoFrames == << >>

(* What an SDK means, whose frames, exceptions and threads are records.  The  *)
(* text of the fingerprint's separator is no part of it.                      *)
Texts == STRING \ {"NUL"}

SomeFrame == [module : Texts, function : Texts, in_app : BOOLEAN, lineno : Int]
SomeTrace == {NoTrace} \cup [json : {"stacktrace"}, frames : Seq(SomeFrame)]
SomeException == [type : Texts, value : Texts, stacktrace : SomeTrace]
SomeThread == [id : Texts, current : BOOLEAN, stacktrace : SomeTrace]

IsMeant(m) ==
  /\ m.text \in Texts /\ m.at \in Int
  /\ m.exceptions \in Seq(SomeException) /\ m.threads \in Seq(SomeThread)
  /\ m.tags = [key \in DOMAIN m.tags |-> m.tags[key]] /\ IsFiniteSet(DOMAIN m.tags)

ASSUME SentAssumption == \A sent \in Sent : IsMeant(sent.meant) /\ sent.form \in Forms

-------------------------------------------------------------------------------
(* Operators named ...Slip are near misses of the definition they precede.  *)
(* No specification uses them: put in its place, each breaks a property.    *)
filterInApp(frames) ==
  LET out[n \in 0 .. Len(frames)] ==
        IF n = 0 THEN << >>
        ELSE IF frames[n].in_app THEN Append(out[n - 1], frames[n]) ELSE out[n - 1]
  IN  out[Len(frames)]

Site(frame) == <<frame.module, frame.function>>

CollapseSlip(frames) ==    \* any repetition, not only of the frame before
  FoldLeft(LAMBDA out, f : IF Site(f) \in Range(out) THEN out ELSE Append(out, Site(f)),
           << >>, frames)

(* Consecutive frames of one site count once. *)
Collapse(frames) ==
  LET out[n \in 0 .. Len(frames)] ==
        IF n = 0 THEN << >>
        ELSE IF out[n - 1] # << >> /\ Last(out[n - 1]) = Site(frames[n])
             THEN out[n - 1] ELSE Append(out[n - 1], Site(frames[n]))
  IN  out[Len(frames)]

frameComponents(frames) ==
  LET inApp == filterInApp(frames)
      target == IF inApp # << >> THEN inApp ELSE frames
  IN  FlattenSeq(Collapse(target))

(* The frames of the thread marked current, else of the first that has any.  *)
currentThreadFrames(threads) ==
  LET traced == {n \in DOMAIN threads : threads[n].stacktrace # NoTrace}
      current == {n \in traced : threads[n].current}
  IN  CASE current # {} -> threads[Min(current)].stacktrace.frames
        [] current = {} /\ traced # {} -> threads[Min(traced)].stacktrace.frames
        [] OTHER -> NoFrames

primary(ev) == Last(ev.exception)

components(ev) ==
  IF ev.exception # << >>
  THEN <<"exception", primary(ev).type>> \o
         (IF primary(ev).stacktrace # NoTrace
          THEN frameComponents(primary(ev).stacktrace.frames) ELSE << >>)
  ELSE <<"message", MessageText(ev.message)>> \o
         frameComponents(currentThreadFrames(ev.threads))

Characters(text) == IF text = "" THEN << >> ELSE <<text>>

(* strings.Join with NUL *)
Join(parts) ==
  FlattenSeq([n \in DOMAIN parts |->
    IF n = 1 THEN Characters(parts[n]) ELSE <<"NUL">> \o Characters(parts[n])])

Fingerprint(ev) == Join(components(ev))

TitleSlip(ev) ==    \* the root cause
  IF ev.exception # << >> THEN <<Head(ev.exception).type, Head(ev.exception).value>>
  ELSE <<MessageText(ev.message)>>

(* Type and value, the type alone, the message, or nothing to say. *)
Title(ev) ==
  LET named == ev.exception # << >> /\ (primary(ev).type # "" \/ primary(ev).value # "")
      text == MessageText(ev.message)
  IN  CASE named /\ primary(ev).value # "" -> <<primary(ev).type, primary(ev).value>>
        [] named /\ primary(ev).value = "" -> <<primary(ev).type>>
        [] ~named /\ text # "" -> <<text>>
        [] OTHER -> <<"(no message)">>

-------------------------------------------------------------------------------
Occurrence(sent) ==
  [meant |-> sent.meant, event |-> ParseEvent(Written(sent.meant, sent.form))]

Grouped == UNION {issues[fp].events : fp \in DOMAIN issues}

Room == Cardinality(Grouped) + Cardinality(skipped) < MaxEvents

NewIssue(o) == [title |-> Title(o.event), events |-> {o}]

(* ServeEnvelope groups an event, and SaveEvent stores it with the issue of   *)
(* its fingerprint, whose title is that of its first event.                   *)
Receive(sent) ==
  /\ Room
  /\ Parsable(Written(sent.meant, sent.form))
  /\ LET new == Occurrence(sent)
         fp == Fingerprint(new.event)
     IN  issues' = Put(issues, fp,
           IF fp \in DOMAIN issues
           THEN [issues[fp] EXCEPT !.events = @ \cup {new}] ELSE NewIssue(new))
  /\ UNCHANGED skipped

(* What does not parse is left out; the envelope's other items go on. *)
Skip(json) ==
  /\ Room
  /\ ~Parsable(json)
  /\ skipped' = skipped \cup {json}
  /\ UNCHANGED issues

Init == issues = << >> /\ skipped = {}

Next ==
  \/ \E sent \in Sent : \/ Receive(sent)
                        \/ Skip(Written(sent.meant, sent.form))
  \/ \E json \in Broken : Skip(json)

Spec == Init /\ [][Next]_vars

-------------------------------------------------------------------------------
(* What grouping is meant to do, said of what the SDKs meant.  *)
Counting(frames) ==
  IF \E n \in DOMAIN frames : frames[n].in_app
  THEN {n \in DOMAIN frames : frames[n].in_app} ELSE DOMAIN frames

(* Two stack traces are one call path if their frames can be matched, each   *)
(* with one or more of the other at the same site, without going backwards.  *)
SamePath(p, q) ==
  LET I == Counting(p)
      J == Counting(q)
  IN  \E match \in SUBSET {ij \in I \X J : Site(p[ij[1]]) = Site(q[ij[2]])} :
        /\ \A i \in I : \E j \in J : <<i, j>> \in match
        /\ \A j \in J : \E i \in I : <<i, j>> \in match
        /\ \A a, b \in match : a[1] < b[1] => a[2] <= b[2]

Frames(trace) == IF trace = NoTrace THEN NoFrames ELSE trace.frames

(* Of its threads with a trace, an event is about the one that comes first,  *)
(* those marked current before the others.                                   *)
Running(m) ==
  LET traced == {n \in DOMAIN m.threads : m.threads[n].stacktrace # NoTrace}
      Before(n, k) == IF m.threads[n].current = m.threads[k].current
                      THEN n < k ELSE m.threads[n].current
  IN  IF traced = {} THEN NoTrace
      ELSE m.threads[CHOOSE n \in traced :
                       \A k \in traced \ {n} : Before(n, k)].stacktrace

Outermost(m) == m.exceptions[Len(m.exceptions)]

Alike(m, n) ==
  IF m.exceptions # << >> /\ n.exceptions # << >>
  THEN /\ Outermost(m).type = Outermost(n).type
       /\ SamePath(Frames(Outermost(m).stacktrace), Frames(Outermost(n).stacktrace))
  ELSE /\ m.exceptions = << >> /\ n.exceptions = << >>
       /\ m.text = n.text
       /\ SamePath(Frames(Running(m)), Frames(Running(n)))

(* "same fingerprint => same issue": two events share an issue exactly when  *)
(* they are about the same bug.  Neither the form an SDK writes, nor how     *)
(* deep a recursion went, nor line numbers, library frames or inner causes   *)
(* tell them apart; a type, a message or another call path does.             *)
GroupedIffAlike ==
  \A fp, gp \in DOMAIN issues :
    \A o \in issues[fp].events, p \in issues[gp].events :
      (fp = gp) <=> Alike(o.meant, p.meant)

(* What is parsed is what the SDK meant, in whichever of the forms it was    *)
(* written, and no event is lost for its form.                               *)
FormsAgree ==
  /\ skipped \subseteq Broken
  /\ \A o \in Grouped :
       /\ MessageText(o.event.message) = o.meant.text
       /\ o.event.exception = o.meant.exceptions
       /\ o.event.threads = o.meant.threads
       /\ o.event.breadcrumbs = o.meant.breadcrumbs
       /\ o.event.tags = o.meant.tags
       /\ o.event.timestamp = [at |-> o.meant.at, zone |-> 0]
       /\ o.event.level = IF o.meant.level = "" THEN "error" ELSE o.meant.level

(* "the title always describes what was actually grouped on": the title an   *)
(* issue keeps from its first event says what all of its events share.       *)
TitleDescribesGroup ==
  \A fp \in DOMAIN issues : \A o \in issues[fp].events :
    IF o.meant.exceptions # << >>
    THEN issues[fp].title[1] = Outermost(o.meant).type
    ELSE issues[fp].title = <<IF o.meant.text = "" THEN "(no message)" ELSE o.meant.text>>
===============================================================================
