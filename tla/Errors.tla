------------------------------- MODULE Errors -------------------------------
(***************************************************************************)
(* How the explanation quoted in an APIError is found in the body of an    *)
(* unsuccessful response (src/errors.go).                                  *)
(*                                                                         *)
(* A JSON value is a record whose "json" is its type; of a text only its   *)
(* identity and whether it is empty matter.                                *)
(***************************************************************************)
EXTENDS Integers, Sequences, SequencesExt

NoValue         == [json |-> "absent"]
OtherValue      == [json |-> "other"]
Text(text)      == [json |-> "string", text |-> text]
Object(message) == [json |-> "object", message |-> message]
List(entries)   == [json |-> "list", entries |-> entries]

(* An entry of a detail list: its msg, and the path its loc renders to.    *)
Entry(msg, path) == [json |-> "entry", msg |-> msg, path |-> path]

(* A body: nothing, blanks, no JSON, a JSON string, an object, other JSON. *)
NoBytes == [form |-> "empty"]
Blank   == [form |-> "blank"]
Plain   == [form |-> "plain"]
Json(value) == [form |-> "json", value |-> value]
Said(error, message, detail) ==
  [form |-> "object", error |-> error, message |-> message, detail |-> detail]

(* What is quoted: a text, the body's validation entries as pairs of path  *)
(* and message, the body itself when there is more in it than blanks, or a *)
(* fixed text.                                                             *)
Quote(text)    == [from |-> "field", text |-> text]
Parts(entries) == [from |-> "entries", parts |-> entries]
WholeBody      == [from |-> "body"]
FixedText      == [from |-> "nothing"]

(* nested: a string, or an object that carries one as its message. *)
IsNested(value) ==
  \/ value.json = "string"
  \/ value.json = "object" /\ value.message.json = "string"
Nested(value) == IF value.json = "string" THEN value.text ELSE value.message.text

(* Mutant of ValidationMessage: it ends at the first entry without a msg. *)
ValidationMessage_Breaks(entries) ==
  LET bad   == {i \in DOMAIN entries : entries[i].json # "entry" \/ entries[i].msg.json # "string"}
      first == CHOOSE i \in bad : \A j \in bad : i <= j
  IN  IF bad = {} THEN entries ELSE SubSeq(entries, 1, first - 1)

(* validationMessage: the entries that have a msg, in order. *)
HasMessage(entry) == entry.json = "entry" /\ entry.msg.json = "string"

ValidationMessage(entries) ==
  FlattenSeq([i \in DOMAIN entries |-> IF HasMessage(entries[i]) THEN <<entries[i]>> ELSE <<>>])

(* Parts joined by "; " are empty only if there is none, or one and it is. *)
Silent(quote) ==
  CASE quote.from = "field"   -> quote.text = ""
    [] quote.from = "entries" ->
         \/ quote.parts = <<>>
         \/ Len(quote.parts) = 1 /\ quote.parts[1].msg.text = "" /\ quote.parts[1].path = ""
    [] OTHER -> FALSE

(* Mutant of MessageFromObject: message is looked at first. *)
MessageFromObject_MessageFirst(body) ==
  IF body.message.json = "string" THEN Quote(body.message.text)
  ELSE IF IsNested(body.error) THEN Quote(Nested(body.error))
  ELSE IF IsNested(body.detail) THEN Quote(Nested(body.detail))
  ELSE IF body.detail.json = "list" THEN Parts(ValidationMessage(body.detail.entries))
  ELSE Quote("")

(* messageFromObject; message has to be a string itself. *)
MessageFromObject(body) ==
  IF IsNested(body.error) THEN Quote(Nested(body.error))
  ELSE IF body.message.json = "string" THEN Quote(body.message.text)
  ELSE IF IsNested(body.detail) THEN Quote(Nested(body.detail))
  ELSE IF body.detail.json = "list" THEN Parts(ValidationMessage(body.detail.entries))
  ELSE Quote("")

(* messageFromJSON; a body that is no JSON, or of another type, has none.  *)
MessageFromJSON(body) ==
  IF body.form = "json" /\ body.value.json = "string" THEN Quote(body.value.text)
  ELSE IF body.form = "object" THEN MessageFromObject(body)
  ELSE Quote("")

(* The body as text, without the blanks around it. *)
Trimmed(body) == IF body = Blank THEN Quote("") ELSE WholeBody

(* Mutant of ExtractMessage: a message found is quoted even if empty. *)
ExtractMessage_Silent(body) ==
  IF body = NoBytes THEN FixedText
  ELSE IF body.form \in {"json", "object"} THEN MessageFromJSON(body)
  ELSE Trimmed(body)

ExtractMessage(body) ==
  IF body = NoBytes THEN FixedText
  ELSE IF ~Silent(MessageFromJSON(body)) THEN MessageFromJSON(body)
  ELSE Trimmed(body)

(***************************************************************************)
(* truncate.  A text is the sequence of its bytes, told apart by whether   *)
(* they begin a rune; the result is how many of them are kept.             *)
(***************************************************************************)
Bytes(widths) ==
  FlattenSeq([i \in DOMAIN widths |-> [j \in 1..widths[i] |-> IF j = 1 THEN "start" ELSE "more"]])

(* Mutant of Truncate: the byte before the cut is the one looked at. *)
Truncate_OffByOne(text, limit) ==
  IF Len(text) <= limit THEN Len(text)
  ELSE CHOOSE cut \in 0..limit :
         /\ cut = 0 \/ text[cut] = "start"
         /\ \A later \in (cut + 1)..limit : text[later] # "start"

Truncate(text, limit) ==
  IF Len(text) <= limit THEN Len(text)
  ELSE CHOOSE cut \in 0..limit :
         /\ cut = 0 \/ text[cut + 1] = "start"
         /\ \A later \in (cut + 1)..limit : text[later + 1] # "start"
=============================================================================
