---------------------------- MODULE EventParsing ----------------------------
(***************************************************************************)
(* ParseEvent of internal/protocol: what becomes of the JSON of an event,  *)
(* whose fields SDKs write in different forms.  A JSON value is a record   *)
(* with the kind of value under json; a field that is absent is null, as   *)
(* encoding/json leaves its variable alone.  Fields that neither grouping  *)
(* nor a form of their own concerns are left out.                          *)
(***************************************************************************)
EXTENDS Integers, Sequences, SequencesExt

Null == [json |-> "null"]
Text(t) == [json |-> "string", text |-> t]
Number(n) == [json |-> "number", number |-> n]
Literal(t) == [json |-> "number", text |-> t]
RFC3339(local, offset) == [json |-> "string", local |-> local, offset |-> offset]
List(s) == [json |-> "array", items |-> s]
Obj(fields) == [json |-> "object", fields |-> fields]

-------------------------------------------------------------------------------
(* Threads, exceptions and breadcrumbs come as a bare array, or as an object *)
(* with the array under "values".                                            *)
Values(v) ==
  CASE v.json = "null" -> << >>
    [] v.json = "array" -> v.items
    [] OTHER -> v.fields.values

IsValues(v) == v.json \in {"null", "array", "object"}

(* What may be a number is kept as the text it was written as. *)
FlexString(v) == IF v.json = "null" THEN "" ELSE v.text

ThreadValues(v) ==
  [n \in DOMAIN Values(v) |-> [Values(v)[n] EXCEPT !.id = FlexString(@)]]

ExceptionValues(v) == Values(v)
BreadcrumbList(v) == Values(v)

NoMessage == [formatted |-> "", raw |-> ""]

Message(v) ==
  CASE v.json = "null" -> NoMessage
    [] v.json = "string" -> [formatted |-> v.text, raw |-> ""]
    [] OTHER -> [formatted |-> v.fields.formatted, raw |-> v.fields.message]

IsMessage(v) == v.json \in {"null", "string", "object"}

(* Message.String *)
MessageText(m) == IF m.formatted # "" THEN m.formatted ELSE m.raw

(* A near miss, as in the other modules: without UTC(). *)
TimestampSlip(v) ==
  CASE v.json = "null" -> [at |-> 0, zone |-> 0]
    [] v.json = "number" -> [at |-> v.number, zone |-> 0]
    [] OTHER -> [at |-> v.local - v.offset, zone |-> v.offset]

(* A number of seconds, or a text in some zone; the zone must not survive, as *)
(* the driver cannot read every zone back.  The zero time stands for none.    *)
Timestamp(v) ==
  CASE v.json = "null" -> [at |-> 0, zone |-> 0]
    [] v.json = "number" -> [at |-> v.number, zone |-> 0]
    [] OTHER -> [at |-> v.local - v.offset, zone |-> 0]

IsTimestamp(v) ==
  v.json \in {"null", "number"} \/ (v.json = "string" /\ "local" \in DOMAIN v)

Put(f, x, y) == [z \in DOMAIN f \cup {x} |-> IF z = x THEN y ELSE f[z]]

(* An object, or an array of pairs, in which a later pair of a key wins. *)
Tags(v) ==
  CASE v.json = "null" -> << >>
    [] v.json = "object" -> v.fields
    [] OTHER ->
         LET m[n \in 0 .. Len(v.items)] ==
               IF n = 0 THEN << >> ELSE Put(m[n - 1], v.items[n][1], v.items[n][2])
         IN  m[Len(v.items)]

IsTags(v) == v.json \in {"null", "array", "object"}

(* The fields that need no decision of the parser are as they come. *)
Parsable(json) ==
  /\ IsMessage(json.message) /\ json.logentry.json \in {"null", "object"}
  /\ IsValues(json.exception) /\ IsValues(json.threads) /\ IsValues(json.breadcrumbs)
  /\ IsTags(json.tags) /\ IsTimestamp(json.timestamp)

(* A message without text gives way to the logentry, if there is one. *)
Normalized(json) ==
  IF MessageText(Message(json.message)) = "" /\ json.logentry # Null
  THEN Message(json.logentry) ELSE Message(json.message)

ParseEvent(json) ==
  [message     |-> Normalized(json),
   level       |-> IF json.level = "" THEN "error" ELSE json.level,
   exception   |-> ExceptionValues(json.exception),
   threads     |-> ThreadValues(json.threads),
   breadcrumbs |-> BreadcrumbList(json.breadcrumbs),
   tags        |-> Tags(json.tags),
   timestamp   |-> Timestamp(json.timestamp)]

-------------------------------------------------------------------------------
(* SDKs: how they write what they mean, in every form one of them uses. *)
Forms == [list : {"bare", "wrapped", "omitted"},
          text : {"string", "formatted", "raw", "logentry", "logentry raw"},
          id : {"string", "number"}, time : {"number", "text"}, offset : {-1, 0, 2},
          tags : {"object", "pairs"}]

ListAs(form, s) ==
  CASE form = "wrapped" -> Obj([values |-> s])
    [] form = "omitted" /\ s = << >> -> Null
    [] OTHER -> List(s)

ThreadsAs(form, threads) ==
  ListAs(form.list, [n \in DOMAIN threads |-> [threads[n] EXCEPT !.id =
    IF @ = "" THEN Null ELSE IF form.id = "number" THEN Literal(@) ELSE Text(@)]])

(* A message is sent ready to be read, or as a template to be filled in. *)
Template(formatted, message) == Obj([formatted |-> formatted, message |-> message])

MessageAs(form, t) ==
  IF t = "" THEN Null
  ELSE CASE form = "string" -> Text(t)
         [] form = "formatted" -> Template(t, "template")
         [] form = "raw" -> Template("", t)
         [] OTHER -> Null

LogEntryAs(form, t) ==
  IF t = "" THEN Null
  ELSE CASE form = "logentry" -> Template(t, "template")
         [] form = "logentry raw" -> Template("", t)
         [] OTHER -> Null

(* As pairs, a tag may be preceded by an earlier value. *)
TagsAs(form, tags) ==
  IF form = "object" THEN Obj(tags)
  ELSE List(FlattenSeq([n \in DOMAIN SetToSeq(DOMAIN tags) |->
              LET key == SetToSeq(DOMAIN tags)[n]
              IN  <<<<key, "overwritten">>, <<key, tags[key]>>>>]))

Written(m, form) ==
  [message     |-> MessageAs(form.text, m.text),
   logentry    |-> LogEntryAs(form.text, m.text),
   level       |-> m.level,
   exception   |-> ListAs(form.list, m.exceptions),
   threads     |-> ThreadsAs(form, m.threads),
   breadcrumbs |-> ListAs(form.list, m.breadcrumbs),
   tags        |-> TagsAs(form.tags, m.tags),
   timestamp   |-> IF form.time = "number" THEN Number(m.at)
                   ELSE RFC3339(m.at + form.offset, form.offset)]
===============================================================================
