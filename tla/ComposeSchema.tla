---------------------------- MODULE ComposeSchema ---------------------------
(***************************************************************************)
(* The two walks down the JSON schema of Compose files: completion asks    *)
(* which attributes may stand at the cursor (schema.go), hover what the    *)
(* attribute under the cursor is for (hover.go).                           *)
(*                                                                         *)
(* A schema has types, a description, the names of properties, patterns    *)
(* that other names match, alternatives, the schema of its items and the   *)
(* definition that it refers to; what is optional is a sequence of at most *)
(* one.                                                                    *)
(***************************************************************************)
EXTENDS Naturals, SequencesExt

NoProperties == [a \in {} |-> a]

Schema ==
  [types |-> {}, description |-> "", properties |-> NoProperties, pattern |-> <<>>,
   oneOf |-> <<>>, items |-> <<>>, ref |-> <<>>, enum |-> {}]

Of(type, description)        == [Schema EXCEPT !.types = {type}, !.description = description]
Object(properties, text)     == [Of("object", text) EXCEPT !.properties = properties]
Pattern(schema, text)        == [Of("object", text) EXCEPT !.pattern = <<schema>>]
Array(items, text)           == [Of("array", text) EXCEPT !.items = <<items>>]
OneOf(schemas, text)         == [Schema EXCEPT !.oneOf = schemas, !.description = text]
RefTo(schema)                == [Schema EXCEPT !.ref = <<schema>>]
EnumOf(values, text)         == [Of("string", text) EXCEPT !.enum = values]

(* What a reference stands for.                                            *)
Target(s) == IF s.ref = <<>> THEN s ELSE s.ref[1]

HasProperties(s) == DOMAIN s.properties # {}

(* The first alternative that is an object (with properties).              *)
FirstObject(ss)   == SelectInSeq(ss, LAMBDA s : "object" \in s.types)
FirstWithProps(ss) == SelectInSeq(ss, LAMBDA s : "object" \in s.types /\ HasProperties(s))

Attributes == "attributes"   \* the attributes that may stand here
Value      == "value"        \* the value of an attribute with this schema
None       == "none"

Result(offer, schema, depth) == [offer |-> offer, schema |-> schema, depth |-> depth]

(* recurseNodeProperties.  keys are the keys above the cursor and those    *)
(* that lead to the text in front of it: inside says how many of them the  *)
(* cursor is to the right of.  sameLine: it is on the line of the last of  *)
(* those.  The result offers the properties of a schema, or its values,    *)
(* and says how many of the keys count from then on.                       *)
RECURSIVE RecurseNodeProperties(_, _, _, _, _)
RecurseNodeProperties(keys, inside, sameLine, k, s) ==
  LET Deeper(schema, n) == RecurseNodeProperties(keys, inside, sameLine, k + n, schema)
      Here(offer, schema) == Result(offer, schema, Len(keys))
      prop  == s.properties[keys[k + 1]]
      r     == Target(prop)
      after == Len(keys) > k + 1
      \* an alternative of an object whose names follow a pattern
      Named(schema, n) ==
        LET p == schema.pattern[1]
            o == FirstObject(p.oneOf)
        IN  IF o # 0 THEN Deeper(p.oneOf[o], 2) ELSE Deeper(p, n)
      o == FirstObject(prop.oneOf)
  IN  CASE Len(keys) = k -> IF inside < k THEN Here(None, Schema) ELSE Here(Attributes, s)
        [] Len(keys) # k /\ inside = k -> Result(Attributes, s, k)
        [] Len(keys) # k /\ inside # k /\ keys[k + 1] \notin DOMAIN s.properties -> Here(Attributes, s)
        [] OTHER ->
             CASE prop.ref # <<>> /\ HasProperties(r) -> Deeper(r, 1)
               [] prop.ref # <<>> /\ ~HasProperties(r) /\ after /\ r.pattern # <<>>
                     /\ FirstObject(r.pattern[1].oneOf) # 0 -> Named(r, 2)
               [] prop.ref # <<>> /\ ~HasProperties(r) /\ r.items # <<>>
                     /\ FirstWithProps(r.items[1].oneOf) # 0 ->
                    Deeper(r.items[1].oneOf[FirstWithProps(r.items[1].oneOf)], 1)
               [] o # 0 /\ HasProperties(prop.oneOf[o]) -> Deeper(prop.oneOf[o], 1)
               [] o # 0 /\ ~HasProperties(prop.oneOf[o]) /\ prop.oneOf[o].pattern # <<>> ->
                    IF after THEN Named(prop.oneOf[o], 1) ELSE Here(None, Schema)
               [] prop.items # <<>> /\ FirstWithProps(prop.items[1].oneOf) # 0 ->
                    Deeper(prop.items[1].oneOf[FirstWithProps(prop.items[1].oneOf)], 1)
               [] prop.items # <<>> /\ FirstWithProps(prop.items[1].oneOf) = 0 -> Deeper(prop.items[1], 1)
               [] OTHER -> IF inside <= k THEN Here(Attributes, prop)
                           ELSE IF sameLine /\ inside = k + 1 THEN Here(Value, prop) ELSE Deeper(prop, 1)

(* nodeProperties: below the second key, a name that follows the pattern   *)
(* of a top-level attribute.                                               *)
NodeProperties(schema, keys, inside, sameLine) ==
  IF \/ keys[1] \notin DOMAIN schema.properties
     \/ schema.properties[keys[1]].pattern = <<>>
     \/ schema.properties[keys[1]].pattern[1].ref = <<>>
  THEN Result(None, Schema, Len(keys))
  ELSE RecurseNodeProperties(keys, inside, sameLine, 2, Target(schema.properties[keys[1]].pattern[1]))

(* createSchemaItems: the labels on offer, and their documentation.        *)
SchemaItems(found) ==
  CASE found.offer = Attributes -> {[label |-> a, text |-> Target(found.schema.properties[a]).description] :
                                      a \in DOMAIN found.schema.properties}
    [] found.offer = Value -> {[label |-> v, text |-> found.schema.description] : v \in found.schema.enum}
    [] OTHER -> {}

-----------------------------------------------------------------------------
(* An array is not entered (mutant).                                       *)
EnterWithoutItems(s, key) ==
  LET a == Target(s)
  IN  IF FirstObject(a.oneOf) # 0 THEN a.oneOf[FirstObject(a.oneOf)] ELSE a

(* hover: one step for each key down to the attribute under the cursor.    *)
(* An array is entered through its items, and an alternative through the   *)
(* first that is an object.                                                *)
Enter(s, key) ==
  LET a == Target(s)
      items == Target(a.items[1])
      o == SelectInSeq(items.oneOf, LAMBDA n : "object" \in n.types /\ key \in DOMAIN n.properties)
      b == CASE a.items # <<>> /\ key \in DOMAIN items.properties -> items
             [] a.items # <<>> /\ key \notin DOMAIN items.properties /\ o # 0 -> items.oneOf[o]
             [] OTHER -> a
  IN  IF FirstObject(b.oneOf) # 0 THEN b.oneOf[FirstObject(b.oneOf)] ELSE b

HoverStep(s, key) ==
  LET e == Enter(s, key)
  IN  CASE key \in DOMAIN e.properties -> Target(e.properties[key])
        [] key \notin DOMAIN e.properties /\ e.pattern # <<>> -> Target(e.pattern[1])
        [] OTHER -> e

(* The description and the values that hover shows for an attribute: the   *)
(* last key is the one under the cursor.                                   *)
SchemaHover(schema, keys) ==
  LET above == FoldLeft(HoverStep, schema, Front(keys))
      e == Enter(above, Last(keys))
  IN  IF Last(keys) \in DOMAIN e.properties
      THEN [text |-> Target(e.properties[Last(keys)]).description,
            values |-> Target(e.properties[Last(keys)]).enum]
      ELSE [text |-> "", values |-> {}]

=============================================================================
