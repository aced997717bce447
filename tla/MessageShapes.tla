---------------------------- MODULE MessageShapes ----------------------------
(* How the messages of the browser APIs are described: the Field and
   Definition types of the page's Protobuf adapter.  A field has a number on
   the wire, the name of its type, a rule (one value, a repeated field, a map
   with string keys) and two options of the adapter: required, and nullable
   (null travels as the field's name in null_fields). *)
LOCAL INSTANCE TLC

Field(id, type, rule, required, nullable) ==
    [id |-> id, type |-> type, rule |-> rule, required |-> required, nullable |-> nullable]

Required(id, type) == Field(id, type, "one", TRUE, FALSE)
Optional(id, type) == Field(id, type, "one", FALSE, FALSE)
Nullable(id, type) == Field(id, type, "one", FALSE, TRUE)
RequiredNullable(id, type) == Field(id, type, "one", TRUE, TRUE)
Many(id, type) == Field(id, type, "many", TRUE, FALSE)
OptionalMany(id, type) == Field(id, type, "many", FALSE, FALSE)
MapOf(id, type) == Field(id, type, "map", TRUE, FALSE)
NullableMapOf(id, type) == Field(id, type, "map", FALSE, TRUE)

NoFields == [x \in {} |-> x]

(* Every message with a nullable field lists in field 2046 which are null. *)
WithNulls(fields) ==
    IF \E k \in DOMAIN fields : fields[k].nullable
    THEN fields @@ [null_fields |-> OptionalMany(2046, "string")]
    ELSE fields

Definition(fields, array, evidence, oneof) ==
    [fields |-> WithNulls(fields), array |-> array, evidence |-> evidence, oneof |-> oneof]

Message(fields) == Definition(fields, FALSE, FALSE, FALSE)

(* Further keys are allowed and travel as JSON values in field 1000. *)
EvidenceMessage(fields) ==
    Definition(fields @@ [evidence_fields |-> Field(1000, "Value", "map", FALSE, FALSE)],
               FALSE, TRUE, FALSE)

(* The application sees a list, the wire a message with the items. *)
Array(type) == Definition([items |-> OptionalMany(1, type)], TRUE, FALSE, FALSE)

(* Setting one member clears the others. *)
OneOf(fields) == Definition(fields, FALSE, FALSE, TRUE)
=============================================================================
