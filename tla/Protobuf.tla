------------------------------- MODULE Protobuf -------------------------------
(* The binary protocol between a page and its API: the generated codec of the
   page, the adapter above it, and the adapter of the backend.

   An application's value is a tagged tuple: <<"null">>, <<"str", s>>,
   <<"bool", b>>, <<"num", n>>, <<"float", n>> (a number the backend did not
   take back for an integer), <<"list", sequence>> or <<"obj", function>>;
   a field that is undefined is not in the function's domain.
   A codec's message maps the fields that are set to a scalar, to
   <<"msg", message>>, to <<"many", sequence>> or to <<"map", function>>.
   The wire is a sequence of entries: number, wire type, body.  Bytes, lengths
   and the depth limit are left out.

   Peers are "page" and "backend".  S is the registry of the messages. *)
EXTENDS Integers, SequencesExt, TLC

CONSTANT Bits   \* of a double's mantissa: 53 in JavaScript, a few here

ASSUME BitsAssumption == Bits \in Nat \ {0, 1}

Null == <<"null">>
NoEntries == [x \in {} |-> x]

(* The integers up to this limit are exact and have no other neighbour. *)
SafeMax == 2^Bits - 1
Magnitude(n) == IF n < 0 THEN -n ELSE n
(* Faulty variant: one more. *)
AlmostSafe(n) == Magnitude(n) <= SafeMax + 1
Safe(n) == Magnitude(n) <= SafeMax

(* An integer as a double of Bits bits, for magnitudes up to 2^(Bits + 1): the
   even ones survive, an odd one rounds to the nearest multiple of four. *)
Rounded(n) ==
    LET m == Magnitude(n) IN
    IF m <= 2^Bits \/ m % 2 = 0 THEN n
    ELSE (IF n < 0 THEN -1 ELSE 1) * (IF m % 4 = 1 THEN m - 1 ELSE m + 1)

SetAsSeq(set) == FoldSet(LAMBDA x, seq : Append(seq, x), <<>>, set)
ElementsOf(v, rule) ==
    CASE rule = "one"  -> {v}
      [] rule = "many" -> {v[2][i] : i \in DOMAIN v[2]}
      [] rule = "map"  -> {v[2][k] : k \in DOMAIN v[2]}
-----------------------------------------------------------------------------
(* The codec.  Encoding writes the fields that are set in the order of their
   numbers; decoding takes the entries in any order. *)

WireType(type) ==
    CASE type \in {"int64", "bool", "enum"} -> 0
      [] type = "double" -> 1
      [] OTHER -> 2

RECURSIVE EncodeMessage(_, _, _)

Entry(S, id, type, content) ==
    [num |-> id, wire |-> WireType(type),
     body |-> IF type \in DOMAIN S
              THEN <<"bytes", EncodeMessage(S, type, content[2])>>
              ELSE content]

MapEntry(S, field, key, content) ==
    [num |-> field.id, wire |-> 2,
     body |-> <<"bytes", <<Entry(S, 1, "string", <<"str", key>>),
                           Entry(S, 2, field.type, content)>> >>]

EncodeField(S, field, content) ==
    CASE field.rule = "one"  -> <<Entry(S, field.id, field.type, content)>>
      [] field.rule = "many" -> [i \in DOMAIN content[2] |->
                                   Entry(S, field.id, field.type, content[2][i])]
      [] field.rule = "map"  -> LET keys == SetAsSeq(DOMAIN content[2]) IN
                                [i \in DOMAIN keys |->
                                   MapEntry(S, field, keys[i], content[2][keys[i]])]

EncodeMessage(S, name, msg) ==
    LET fields == S[name].fields
        order == SortSeq(SetAsSeq(DOMAIN msg), LAMBDA a, b : fields[a].id < fields[b].id)
    IN FlattenSeq([i \in DOMAIN order |-> EncodeField(S, fields[order[i]], msg[order[i]])])

(* The field an entry belongs to: its number is known and its wire type right. *)
Owns(field, entry) ==
    /\ field.id = entry.num
    /\ entry.wire = IF field.rule = "map" THEN 2 ELSE WireType(field.type)

KnownIn(S, name, entry) == \E k \in DOMAIN S[name].fields : Owns(S[name].fields[k], entry)

RECURSIVE DecodeInto(_, _, _, _)

(* A body on its own, on top of what the field held: messages are merged. *)
DecodeBody(S, type, body, old) ==
    IF type \in DOMAIN S THEN <<"msg", DecodeInto(S, type, old, body[2])>> ELSE body

PutMapEntry(S, field, body, old) ==
    LET key == body[2][1].body[2]
        item == DecodeBody(S, field.type, body[2][2].body, NoEntries)
    IN <<"map", (key :> item) @@ old>>

Put(S, name, msg, entry) ==
    LET def == S[name]
        k == CHOOSE x \in DOMAIN def.fields : Owns(def.fields[x], entry)
        field == def.fields[k]
        isSet == k \in DOMAIN msg
        new == CASE field.rule = "one" ->
                      DecodeBody(S, field.type, entry.body,
                                 IF isSet /\ field.type \in DOMAIN S THEN msg[k][2] ELSE NoEntries)
                 [] field.rule = "many" ->
                      <<"many", Append(IF isSet THEN msg[k][2] ELSE <<>>,
                                       DecodeBody(S, field.type, entry.body, NoEntries))>>
                 [] field.rule = "map" ->
                      PutMapEntry(S, field, entry.body, IF isSet THEN msg[k][2] ELSE NoEntries)
    IN (k :> new) @@ (IF def.oneof THEN NoEntries ELSE msg)

(* What is unknown is skipped. *)
DecodeInto(S, name, target, wire) ==
    FoldLeft(LAMBDA msg, entry : IF KnownIn(S, name, entry) THEN Put(S, name, msg, entry) ELSE msg,
             target, wire)

DecodeMessage(S, name, wire) == DecodeInto(S, name, NoEntries, wire)
-----------------------------------------------------------------------------
(* JSON values as messages and back. *)

RECURSIVE ToValue(_)
ToStruct(v) == [fields |-> <<"map", [k \in DOMAIN v[2] |-> <<"msg", ToValue(v[2][k])>>]>>]
ToValue(v) ==
    CASE v[1] = "null" -> [nullValue |-> <<"num", 0>>]
      [] v[1] = "str"  -> [stringValue |-> v]
      [] v[1] \in {"num", "float"} -> [numberValue |-> <<"num", Rounded(v[2])>>]
      [] v[1] = "bool" -> [boolValue |-> v]
      [] v[1] = "list" -> [listValue |-> <<"msg", [values |-> <<"many",
                             [i \in DOMAIN v[2] |-> <<"msg", ToValue(v[2][i])>>]>>]>>]
      [] v[1] = "obj"  -> [structValue |-> <<"msg", ToStruct(v)>>]

(* The backend takes the numbers it can trust back for integers. *)
FromNumber(peer, n) == IF peer = "backend" /\ ~Safe(n) THEN <<"float", n>> ELSE <<"num", n>>

RECURSIVE FromValue(_, _)
FromStruct(peer, msg) ==
    <<"obj", IF "fields" \in DOMAIN msg
             THEN [k \in DOMAIN msg.fields[2] |-> FromValue(peer, msg.fields[2][k][2])]
             ELSE NoEntries>>
FromList(peer, msg) ==
    <<"list", IF "values" \in DOMAIN msg
              THEN [i \in DOMAIN msg.values[2] |-> FromValue(peer, msg.values[2][i][2])]
              ELSE <<>> >>
FromValue(peer, msg) ==
    CASE "nullValue" \in DOMAIN msg   -> Null
      [] "stringValue" \in DOMAIN msg -> msg.stringValue
      [] "numberValue" \in DOMAIN msg -> FromNumber(peer, msg.numberValue[2])
      [] "boolValue" \in DOMAIN msg   -> msg.boolValue
      [] "listValue" \in DOMAIN msg   -> FromList(peer, msg.listValue[2])
      [] "structValue" \in DOMAIN msg -> FromStruct(peer, msg.structValue[2])
-----------------------------------------------------------------------------
(* The adapters, writing: convert(name, value, true) of the page, pack() of
   the backend.  Adapted is the message they make of a value they accept. *)

Adapters == {"null_fields", "evidence_fields"}
OwnFields(def) == DOMAIN def.fields \ Adapters
IsMessage(S, name) == name \in DOMAIN S /\ name \notin {"Struct", "Value"}
Source(def, v) == IF def.array THEN [items |-> v] ELSE v[2]
Given(f, k) == k \in DOMAIN f /\ f[k] # Null
SaidNull(def, f) == {k \in OwnFields(def) : k \in DOMAIN f /\ f[k] = Null /\ def.fields[k].nullable}

(* A missing list or map is an empty one for the page, an error for the backend. *)
MustBeWritten(peer, field) ==
    /\ field.required /\ ~field.nullable
    /\ peer = "page" => field.rule = "one"

RECURSIVE Accepts(_, _, _, _)
Accepts(peer, S, name, v) ==
    IF ~IsMessage(S, name) THEN peer = "page" /\ name = "int64" => Safe(v[2])
    ELSE LET def == S[name]
             f == Source(def, v)
         IN /\ def.evidence \/ DOMAIN f \subseteq DOMAIN def.fields
            /\ \A k \in OwnFields(def) \ SaidNull(def, f) :
                  IF Given(f, k)
                  THEN \A item \in ElementsOf(f[k], def.fields[k].rule) :
                          Accepts(peer, S, def.fields[k].type, item)
                  ELSE ~MustBeWritten(peer, def.fields[k])

RECURSIVE Adapted(_, _, _)
AdaptedField(S, field, v) ==
    CASE field.rule = "one"  -> Adapted(S, field.type, v)
      [] field.rule = "many" -> <<"many", [i \in DOMAIN v[2] |-> Adapted(S, field.type, v[2][i])]>>
      [] field.rule = "map"  -> <<"map", [k \in DOMAIN v[2] |-> Adapted(S, field.type, v[2][k])]>>

NullNames(names) ==
    IF names = {} THEN NoEntries
    ELSE LET order == SetAsSeq(names) IN
         [null_fields |-> <<"many", [i \in DOMAIN order |-> <<"str", order[i]>>]>>]

Extras(def, f) ==
    IF ~def.evidence THEN NoEntries
    ELSE [evidence_fields |-> <<"map", [k \in DOMAIN f \ DOMAIN def.fields |->
                                          <<"msg", ToValue(f[k])>>]>>]

Adapted(S, name, v) ==
    CASE name = "Value"  -> <<"msg", ToValue(v)>>
      [] name = "Struct" -> <<"msg", ToStruct(v)>>
      [] IsMessage(S, name) ->
           LET def == S[name]
               f == Source(def, v)
           IN <<"msg", [k \in {x \in OwnFields(def) : Given(f, x)} |->
                          AdaptedField(S, def.fields[k], f[k])]
                       @@ Extras(def, f) @@ NullNames(SaidNull(def, f))>>
      [] OTHER -> v
-----------------------------------------------------------------------------
(* The adapters, reading: convert(name, value, false) of the page, unpack()
   of the backend. *)

NamesIn(msg) ==
    IF "null_fields" \in DOMAIN msg THEN [i \in DOMAIN msg.null_fields[2] |-> msg.null_fields[2][i][2]]
    ELSE <<>>
NullsIn(msg) == ToSet(NamesIn(msg))

MustBeRead(peer, field) ==
    /\ field.required /\ field.rule = "one"
    /\ peer = "page" => ~field.nullable

ExtrasIn(msg) ==
    IF "evidence_fields" \in DOMAIN msg THEN msg.evidence_fields[2] ELSE NoEntries

(* Only the backend asks whether the list of null fields makes sense. *)
NullsMakeSense(def, msg) ==
    /\ IsInjective(NamesIn(msg))
    /\ \A k \in NullsIn(msg) : k \in DOMAIN def.fields /\ def.fields[k].nullable /\ k \notin DOMAIN msg

RECURSIVE Understands(_, _, _, _)
Understands(peer, S, name, content) ==
    IF ~IsMessage(S, name)
    THEN peer = "page" /\ name = "int64" => Safe(Rounded(content[2]))
    ELSE LET def == S[name]
             msg == content[2]
         IN /\ peer = "backend" => NullsMakeSense(def, msg)
            /\ DOMAIN ExtrasIn(msg) \cap DOMAIN def.fields = {}
            /\ \A k \in OwnFields(def) \ NullsIn(msg) :
                  IF k \in DOMAIN msg
                  THEN \A item \in ElementsOf(msg[k], def.fields[k].rule) :
                          Understands(peer, S, def.fields[k].type, item)
                  ELSE ~MustBeRead(peer, def.fields[k])

RECURSIVE Read(_, _, _, _)
ReadField(peer, S, field, msg, k) ==
    IF k \in NullsIn(msg) THEN Null
    ELSE CASE field.rule = "one"  -> Read(peer, S, field.type, msg[k])
           [] field.rule = "many" ->
                <<"list", IF k \in DOMAIN msg
                          THEN [i \in DOMAIN msg[k][2] |-> Read(peer, S, field.type, msg[k][2][i])]
                          ELSE <<>> >>
           [] field.rule = "map" ->
                <<"obj", IF k \in DOMAIN msg
                         THEN [x \in DOMAIN msg[k][2] |-> Read(peer, S, field.type, msg[k][2][x])]
                         ELSE NoEntries>>

Read(peer, S, name, content) ==
    CASE name = "Value"  -> FromValue(peer, content[2])
      [] name = "Struct" -> FromStruct(peer, content[2])
      [] IsMessage(S, name) ->
           LET def == S[name]
               msg == content[2]
               shown == {k \in OwnFields(def) :
                           \/ k \in DOMAIN msg \/ k \in NullsIn(msg)
                           \/ def.fields[k].rule # "one"}
               extras == ExtrasIn(msg)
               value == [k \in shown |-> ReadField(peer, S, def.fields[k], msg, k)]
                        @@ [k \in DOMAIN extras |-> FromValue(peer, extras[k][2])]
           IN IF def.array THEN value.items ELSE <<"obj", value>>
      [] name = "int64" /\ peer = "page" -> <<"num", Rounded(content[2])>>
      [] OTHER -> content

(* The backend refuses a request with anything unknown in it, at any depth. *)
RECURSIVE HasUnknown(_, _, _)
HasUnknown(S, name, wire) ==
    \E i \in DOMAIN wire :
       \/ ~KnownIn(S, name, wire[i])
       \/ \E k \in DOMAIN S[name].fields :
             /\ Owns(S[name].fields[k], wire[i])
             /\ S[name].fields[k].type \in DOMAIN S
             /\ HasUnknown(S, S[name].fields[k].type,
                           IF S[name].fields[k].rule = "map"
                           THEN wire[i].body[2][2].body[2] ELSE wire[i].body[2])
=============================================================================
