--------------------------- MODULE ProtocolExchange ---------------------------
(* One message of a page's API on its way: a peer composes a value, its
   adapter and codec write it, the other peer, which may be older or newer,
   reads it.  The page writes requests, the backend responses.  Every part of
   a message goes through the same operations, so parts travel on their own
   as well. *)
EXTENDS Protobuf, FiniteSets

CONSTANT Apps   \* the applications of this instance

Research == INSTANCE ResearchMessages
Live     == INSTANCE LiveMessages
DataHub  == INSTANCE DataHubMessages

Registry == [research |-> Research!Messages, live |-> Live!Messages, data_hub |-> DataHub!Messages]
Calls    == [research |-> Research!Calls, live |-> Live!Calls, data_hub |-> DataHub!Calls]

AppsAssumption == Apps \subseteq DOMAIN Calls
ASSUME AppsAssumption

VARIABLES app, writer, name, sent, phase, route, wire, got
vars == <<app, writer, name, sent, phase, route, wire, got>>

(* The messages of the application, S in what follows. *)
Messages == Registry[app]
reader == IF writer = "page" THEN "backend" ELSE "page"
-----------------------------------------------------------------------------
(* What each peer writes: the inputs of the calls, their outputs and the
   refusal every call may answer, and the messages these are made of. *)
PartsOf(S, m) == {S[m].fields[k].type : k \in DOMAIN S[m].fields} \cap DOMAIN S

Roots(a, peer) ==
    IF peer = "page" THEN {call[3] : call \in Calls[a]} ELSE {call[4] : call \in Calls[a]} \cup {"Error"}

RECURSIVE WithParts(_, _)
WithParts(S, messages) ==
    LET more == messages \cup UNION {PartsOf(S, m) : m \in messages} IN
    IF more = messages THEN messages ELSE WithParts(S, more)

Written(S, roots) == WithParts(S, roots) \ {"Struct", "Value", "ListValue"}

(* The values composed of a message: all of its fields, only what it needs,
   empty and zero values, and the first with one field missing, null or, for a
   number, at the limit of what is exact, or with a key too many. *)
Json(full) ==
    IF full THEN [list |-> <<"list", <<Null, <<"num", 2>>, <<"bool", FALSE>>, <<"str", "">> >> >>,
                  object |-> <<"obj", [n |-> <<"num", SafeMax + 1>>, f |-> <<"num", 2 * SafeMax>>]>>]
    ELSE NoEntries

RECURSIVE Sample(_, _, _)
SampleField(S, field, mode) ==
    CASE field.rule = "one"  -> Sample(S, field.type, mode)
      [] field.rule = "many" -> <<"list", IF mode = "full"
                                          THEN <<Sample(S, field.type, "full"), Sample(S, field.type, "bare")>>
                                          ELSE <<>> >>
      [] field.rule = "map"  -> <<"obj", IF mode = "full" THEN [x |-> Sample(S, field.type, "full")]
                                         ELSE NoEntries>>

Sample(S, type, mode) ==
    CASE type = "string" -> <<"str", IF mode = "zero" THEN "" ELSE "text">>
      [] type = "int64"  -> <<"num", IF mode = "zero" THEN 0 ELSE 2>>
      [] type = "bool"   -> <<"bool", mode # "zero">>
      [] type = "Struct" -> <<"obj", Json(mode = "full")>>
      [] type = "Value"  -> IF mode = "full" THEN <<"obj", Json(TRUE)>> ELSE <<"str", "">>
      [] IsMessage(S, type) ->
           LET def == S[type]
               keys == {k \in OwnFields(def) : mode # "bare" \/ def.fields[k].required}
               f == [k \in keys |-> IF mode = "bare" /\ def.fields[k].nullable THEN Null
                                    ELSE SampleField(S, def.fields[k], mode)]
           IN IF def.array THEN SampleField(S, def.fields.items, mode) ELSE <<"obj", f>>

Limits == {SafeMax, SafeMax + 1, SafeMax + 2, -SafeMax, -(SafeMax + 1)}

Composed(S, m) ==
    LET def == S[m]
        full == Sample(S, m, "full")
        numbers == {k \in OwnFields(def) : def.fields[k].type = "int64" /\ def.fields[k].rule = "one"}
    IN {Sample(S, m, mode) : mode \in {"full", "bare", "zero"}} \cup
       IF def.array THEN {}
       ELSE {<<"obj", [x \in DOMAIN full[2] \ {k} |-> full[2][x]]>> : k \in OwnFields(def)}
            \cup {<<"obj", [full[2] EXCEPT ![k] = Null]>> : k \in OwnFields(def)}
            \cup {<<"obj", [full[2] EXCEPT ![k] = <<"num", n>>]>> : k \in numbers, n \in Limits}
            \cup {<<"obj", full[2] @@ [novel |-> v]>> : v \in {Null, <<"num", 2>>, <<"obj", Json(TRUE)>>}}

Compose(S) ==
    /\ name \in Written(S, Roots(app, writer))
    /\ sent \in Composed(S, name)

Init ==
    /\ app \in Apps
    /\ writer \in {"page", "backend"}
    /\ Compose(Messages)
    /\ phase = "composed"
    /\ route = "plain"
    /\ wire = <<>>
    /\ got = Null

(* encodeRequest of the page, pack of the backend. *)
WriteMessage(S) ==
    /\ phase = "composed"
    /\ IF Accepts(writer, S, name, sent)
       THEN /\ phase' = "on_wire"
            /\ wire' = EncodeMessage(S, name, Adapted(S, name, sent)[2])
       ELSE /\ phase' = "not_written"
            /\ UNCHANGED wire
    /\ UNCHANGED <<app, writer, name, sent, route, got>>

(* The writer is built from a newer schema: it adds a field the reader does
   not know, to the message or to the parts of it. *)
Newcomer == [num |-> 900, wire |-> 2, body |-> <<"str", "new">>]

RECURSIVE Extended(_, _, _)
Extended(S, m, w) ==
    Append([i \in DOMAIN w |->
              LET owners == {k \in DOMAIN S[m].fields : Owns(S[m].fields[k], w[i])}
                  field == S[m].fields[CHOOSE k \in owners : TRUE]
              IN IF field.rule # "map" /\ IsMessage(S, field.type)
                 THEN [w[i] EXCEPT !.body = <<"bytes", Extended(S, field.type, @[2])>>]
                 ELSE w[i]],
           Newcomer)

(* Another encoder writes the fields in another order; the items of a repeated
   field keep theirs. *)
Reordered(w) == SortSeq(w, LAMBDA a, b : a.num > b.num)

EvolveWire(S) ==
    /\ phase = "on_wire" /\ route = "plain"
    /\ \/ route' = "newer_part" /\ wire' = SubSeq(Extended(S, name, wire), 1, Len(wire)) /\ wire' # wire
       \/ route' = "newer" /\ wire' = Append(wire, Newcomer)
       \/ route' = "newer_null" /\ "null_fields" \in DOMAIN S[name].fields
          /\ wire' = Append(wire, [Newcomer EXCEPT !.num = 2046])
       \/ route' = "reordered" /\ wire' = Reordered(wire)
    /\ UNCHANGED <<app, writer, name, sent, phase, got>>

(* decodeResponse of the page, decode of the backend. *)
ReadMessage(S) ==
    /\ phase = "on_wire"
    /\ LET content == <<"msg", DecodeMessage(S, name, wire)>> IN
       IF /\ reader = "backend" => ~HasUnknown(S, name, wire)
          /\ Understands(reader, S, name, content)
       THEN phase' = "delivered" /\ got' = Read(reader, S, name, content)
       ELSE phase' = "not_read" /\ UNCHANGED got
    /\ UNCHANGED <<app, writer, name, sent, route, wire>>

Write    == WriteMessage(Messages)
Evolve   == EvolveWire(Messages)
ReadWire == ReadMessage(Messages)

Next == Write \/ Evolve \/ ReadWire

Spec == Init /\ [][Next]_vars
-----------------------------------------------------------------------------
(* What the two adapters together promise of a value. *)

(* A field may be missing, or null without a way to say so. *)
MayLack(peer, field) ==
    \/ ~field.required
    \/ peer = "page" /\ field.rule # "one"
    \/ peer = "backend" /\ field.nullable

RECURSIVE Conforms(_, _, _, _)
Conforms(S, peer, type, v) ==
    IF ~IsMessage(S, type) THEN type = "int64" => Safe(v[2])
    ELSE LET def == S[type]
             f == Source(def, v)
         IN /\ def.evidence \/ DOMAIN f \subseteq DOMAIN def.fields
            /\ \A k \in OwnFields(def) :
                 \/ Given(f, k) /\ \A item \in ElementsOf(f[k], def.fields[k].rule) :
                                        Conforms(S, peer, def.fields[k].type, item)
                 \/ k \in DOMAIN f /\ f[k] = Null /\ def.fields[k].nullable
                 \/ ~Given(f, k) /\ MayLack(peer, def.fields[k])

RECURSIVE MeantJson(_, _)
MeantJson(peer, v) ==
    CASE v[1] = "num"  -> FromNumber(peer, Rounded(v[2]))
      [] v[1] = "list" -> <<"list", [i \in DOMAIN v[2] |-> MeantJson(peer, v[2][i])]>>
      [] v[1] = "obj"  -> <<"obj", [k \in DOMAIN v[2] |-> MeantJson(peer, v[2][k])]>>
      [] OTHER -> v

RECURSIVE Meant(_, _, _, _)
MeantField(S, peer, field, v) ==
    CASE v = Null -> Null
      [] field.rule = "one"  -> Meant(S, peer, field.type, v)
      [] field.rule = "many" -> <<"list", [i \in DOMAIN v[2] |-> Meant(S, peer, field.type, v[2][i])]>>
      [] field.rule = "map"  -> <<"obj", [k \in DOMAIN v[2] |-> Meant(S, peer, field.type, v[2][k])]>>

(* The reader's value: what was said, lists and maps that were not are empty. *)
Meant(S, peer, type, v) ==
    IF type \in {"Struct", "Value"} THEN MeantJson(peer, v)
    ELSE IF ~IsMessage(S, type) THEN v
    ELSE LET def == S[type]
             f == Source(def, v)
             said == {k \in OwnFields(def) : Given(f, k)} \cup SaidNull(def, f)
             empty == {k \in OwnFields(def) \ said : def.fields[k].rule # "one"}
             value == [k \in said |-> MeantField(S, peer, def.fields[k], f[k])]
                      @@ [k \in empty |-> IF def.fields[k].rule = "many" THEN <<"list", <<>> >>
                                          ELSE <<"obj", NoEntries>>]
                      @@ [k \in DOMAIN f \ DOMAIN def.fields |-> MeantJson(peer, f[k])]
         IN IF def.array THEN value.items ELSE <<"obj", value>>

FromNewer == route \in {"newer", "newer_part", "newer_null"}

AsMeant(S) ==
    /\ Conforms(S, writer, name, sent)
    /\ got = Meant(S, reader, name, sent)
    /\ ~(FromNewer /\ reader = "backend")

(* What arrives is what was composed: no field lost, none mistaken for another,
   absent, null, empty and zero kept apart, no number changed but those inside
   JSON beyond the limit; nothing arrives that the schema does not allow, and no
   request with something in it that the backend would ignore.  The rules of
   convert in the adapter and of pack and unpack, over the generated codec. *)
DeliveredAsMeant == phase = "delivered" => AsMeant(Messages)

(* What the schema allows is never refused, in whatever order its fields come,
   and a page understands the responses of a newer backend. *)
RefusedForCause ==
    phase \in {"not_written", "not_read"} =>
        \/ ~Conforms(Messages, writer, name, sent)
        \/ FromNewer /\ reader = "backend"

(* Between page and backend nothing changes its meaning, and only what has none
   is refused. *)
ExchangeIsFaithful == DeliveredAsMeant /\ RefusedForCause
=============================================================================
