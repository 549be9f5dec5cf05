------------------------------ MODULE MCGrouping ------------------------------
(* Small instances of Grouping for TLC. *)
EXTENDS Grouping

Frame(m, f, in_app, line) == [module |-> m, function |-> f, in_app |-> in_app, lineno |-> line]

MCFrames ==
  { Frame("app", "run", TRUE, 1), Frame("app", "run", TRUE, 2),
    Frame("app", "load", TRUE, 1), Frame("lib", "load", FALSE, 1) }

Trace(frames) == [json |-> "stacktrace", frames |-> frames]

Traces(n) == {Trace(s) : s \in BoundedSeq(MCFrames, n)}

Exception(type, value, trace) == [type |-> type, value |-> value, stacktrace |-> trace]
Thread(current, trace) == [id |-> "", current |-> current, stacktrace |-> trace]

Event(text, exceptions, threads) ==
  [text |-> text, exceptions |-> exceptions, threads |-> threads, level |-> "",
   breadcrumbs |-> <<"crumb">>, tags |-> [os |-> "linux"], at |-> 5]

Run == Trace(<<Frame("app", "run", TRUE, 1)>>)
Load == Trace(<<Frame("", "load", FALSE, 3)>>)
Named == Trace(<<Frame("load", "", FALSE, 3)>>)

(* One exception with any trace of up to three frames. *)
Paths == {Event("", <<Exception("E", "v", t)>>, << >>) : t \in Traces(3)}

(* Chains of causes, exceptions without a trace or a value, a text beside. *)
Causes ==
  {Event(text, cause \o <<Exception(type, "", t)>>, << >>) :
     text \in {"", "x"}, cause \in {<< >>, <<Exception("F", "w", Run)>>},
     type \in {"E", "F"}, t \in {NoTrace, Trace(<< >>), Run}}

(* Messages, with the threads they were captured in. *)
Messages ==
  {Event(text, << >>, threads) : text \in {"", "x"},
     threads \in {<< >>} \cup {<<Thread(c, t), Thread(d, u)>> : c, d \in BOOLEAN,
                                t, u \in {NoTrace, Trace(<< >>), Load, Named}}}

Plain == [list |-> "bare", text |-> "string", id |-> "string", time |-> "number", offset |-> 0, tags |-> "object"]

InForms ==
  { Event("x", << >>, <<[Thread(TRUE, Run) EXCEPT !.id = "7"]>>),
    [Event("", <<Exception("E", "v", Run)>>, << >>) EXCEPT
       !.level = "warning", !.tags = [os |-> "linux", arch |-> "arm"]] }

(* The forms of a list, a text and tags in every combination, and of times. *)
MCForms ==
  {f \in Forms : \/ f.time = "text" /\ f.offset = 2 /\ f.id = "number"
                 \/ f = [Plain EXCEPT !.id = f.id, !.time = f.time, !.offset = f.offset]}

MCSent ==
  {[meant |-> m, form |-> Plain] : m \in Paths \cup Causes \cup Messages}
    \cup [meant : InForms, form : MCForms]

MCBroken ==
  LET json == Written(Event("x", << >>, << >>), Plain)
  IN  { [json EXCEPT !.message = Number(1)], [json EXCEPT !.logentry = Text("x")],
        [json EXCEPT !.threads = Number(1)], [json EXCEPT !.timestamp = Text("today")],
        [json EXCEPT !.tags = Text("os")] }
===============================================================================
