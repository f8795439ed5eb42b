---------------------------- MODULE MCSystemOne ----------------------------
(***************************************************************************)
(* Instances of SystemOne for TLC: a few questions of every form, valid    *)
(* and not, and the answers that tell the checks apart.                    *)
(***************************************************************************)
EXTENDS SystemOne

Noul(instructions) ==
  [form |-> "noul", instructions |-> instructions, true |-> "null", false |-> "null"]
Choice(criteria)   == [form |-> "choice", criteria |-> criteria]
Score(descriptions) == [form |-> "score", criteria |-> descriptions]
Raw(type)          == [form |-> "raw", type |-> type, criteria |-> "some"]

Pair   == Choice({1, 2})
Rated  == Score(<<"some", "some">>)
Asking == Noul("some")

(* A field map: the fields listed in good are good, the others absent. *)
State(good, mistyped, folded) ==
  [field \in Fields |-> IF field \in mistyped THEN "mistyped"
                        ELSE IF field \in folded THEN "folded"
                        ELSE IF field \in good THEN "good" ELSE "absent"]

OnWire(type, fields, first, choice, legend, probabilities) ==
  [type |-> type, fields |-> fields, first |-> first, choice |-> choice,
   keys |-> [legend |-> legend, probabilities |-> probabilities]]

NoulWire(fields, first) == OnWire("noul", fields, first, 1, {}, {})
ChoiceFields == {"choice", "confidence", "probabilities"}
ScoreFields  == {"score", "confidence", "legend", "probabilities"}

GoodNoul   == NoulWire(State({"noul"}, {}, {}), NoField)
Folded     == NoulWire(State({}, {"score"}, {"noul"}), "score")
Untagged   == OnWire("", State({"noul"}, {}, {}), NoField, 1, {}, {})
Vision     == OnWire("vision", State({}, {}, {}), NoField, 1, {}, {})
OffList    == OnWire("choice", State(ChoiceFields, {}, {}), NoField, 3, {}, {1, 3})
GoodScore  == OnWire("score", State(ScoreFields, {}, {}), NoField, 1, {0, 1}, {0, 1})
NoLegend   == OnWire("score", State(ScoreFields, {}, {}), NoField, 1, {}, {0, 1})
OffRubric  == OnWire("score", State(ScoreFields, {}, {}), NoField, 1, {0, 1}, {0, 5})

AllGood == [model |-> "good", usage |-> "good"]

JunkKeys == {-7}

(* decode: one question of every form, and the answers with at most two    *)
(* flaws: a field its kind uses absent or of the wrong type, or one field  *)
(* it ignores of the wrong type.  Any wrong field may come first.          *)
Stray(type) == IF type = "score" THEN "choice" ELSE "score"

Settings(type) ==
  LET candidates == {field \in Fields : Uses(type, field)} \cup {Stray(type)}
  IN  {[field \in Fields |-> CASE field = one -> flaw
                              [] field = two /\ field # one -> other
                              [] OTHER -> IF Uses(type, field) THEN "good" ELSE "absent"] :
         one \in candidates, two \in candidates,
         flaw \in {"absent", "mistyped"}, other \in {"absent", "mistyped"}}

Answering(type, choice, levels) ==
  {wire \in {OnWire(type, fields, first, choice, {0}, levels) :
               fields \in Settings(type), first \in Fields \cup {NoField}} : IsWire(wire)}

DecodePool  == {Asking, Pair, Rated, Raw("vision"), Raw("noul"), Noul("empty"), NilQuestion}
DecodeWires ==
  Answering("noul", 1, {}) \cup Answering("choice", 1, {1, 2})
    \cup Answering("score", 1, {0, 1}) \cup Answering("score", 1, {0, -7})
    \cup {OffList, OffRubric, Untagged, Vision, GoodScore, NoLegend}
DecodeTops  == {AllGood, [AllGood EXCEPT !.model = "absent"],
                [AllGood EXCEPT !.usage = "absent"], [AllGood EXCEPT !.usage = "mistyped"]}

OtherQuestions == {<<Rated>>}

FoldedWires == {GoodNoul, Folded}

(* A choice answer with a null among its probabilities. *)
Nulled ==
  OnWire("choice", [State(ChoiceFields, {}, {}) EXCEPT !.probabilities = "nulled"],
         NoField, 1, {}, {1, 2})

NulledWires == {GoodNoul, Nulled}
=============================================================================
