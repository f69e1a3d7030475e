------------------------------- MODULE Schemas -------------------------------
(***************************************************************************)
(* The schema of a table in its several forms: Debezium fields (core's      *)
(* schema.rs), Arrow fields (core's arrow.rs, and arrow_bridge.rs for the   *)
(* way back), Avro JSON (serde's avro.rs), the envelope around the columns  *)
(* (arrow.rs, builder.rs, envelope.rs), and the comparison and evolution of *)
(* schemas (evolution.rs).                                                  *)
(*                                                                         *)
(* A type is its name, as DebeziumSchemaType::from_str and as_str undo each *)
(* other: a name that is none of Known is Unknown with that text. A dotted  *)
(* name is the sequence of its parts.                                       *)
(***************************************************************************)
EXTENDS Integers, Sequences, SequencesExt

CONSTANT Null           \* Option::None

\* None is no Some: neither of a flag nor of the parameters of a decimal.
ASSUME NullAssumption == Null \notin BOOLEAN \cup [precision : 0..255, scale : -128..127]

Known == {"struct", "array", "map", "string", "bytes", "int8", "int16", "int32",
          "int64", "float", "double", "boolean", "decimal", "timestamp", "date",
          "time", "microtimestamp", "microtime", "nanotimestamp", "nanotime", "json"}

-----------------------------------------------------------------------------
(* Debezium fields                                                         *)

\* DebeziumField::new. A type is one name, or a list as in ["string", "null"].
NewField(name, type) ==
  [name |-> name, list |-> FALSE, types |-> <<type>>, optional |-> Null,
   title |-> Null, doc |-> Null, params |-> Null, fields |-> Null]

StructField(name, fields) == [NewField(name, "struct") EXCEPT !.fields = fields]
Optional(field) == [field EXCEPT !.optional = TRUE]
Named(field, title) == [field EXCEPT !.title = title]

ResolveType(field) == IF field.types = <<>> THEN "unresolved" ELSE field.types[1]

OrElse(value, default) == IF value = Null THEN default ELSE value

\* is_optional looks at a list of types before it looks at the flag; nothing else
\* that reads the flag knows of the list.
IsOptional(field) ==
  IF field.list THEN "null" \in Range(field.types) ELSE OrElse(field.optional, FALSE)

-----------------------------------------------------------------------------
(* Arrow                                                                   *)

\* u8 and i8 of the precision and scale, and what stands for one that is absent
\* or does not parse.
Precision(params) ==
  IF params # Null /\ params.precision \in 0..255 THEN params.precision ELSE 38
Scale(params) == IF params # Null /\ params.scale \in -128..127 THEN params.scale ELSE 0

ArrowTypes ==
  [int8 |-> <<"Int8">>, int16 |-> <<"Int16">>, int32 |-> <<"Int32">>,
   int64 |-> <<"Int64">>, float |-> <<"Float32">>, double |-> <<"Float64">>,
   boolean |-> <<"Boolean">>, bytes |-> <<"Binary">>, date |-> <<"Date64">>,
   timestamp |-> <<"Timestamp", "us">>, microtimestamp |-> <<"Timestamp", "us">>,
   nanotimestamp |-> <<"Timestamp", "ns">>, time |-> <<"Time64", "us">>,
   microtime |-> <<"Time64", "us">>, nanotime |-> <<"Time64", "ns">>]

\* Strings, JSON, structures and whatever is unknown become text.
ToArrowType(type, params) ==
  CASE type = "decimal"            -> <<"Decimal128", Precision(params), Scale(params)>>
    [] type \in DOMAIN ArrowTypes  -> ArrowTypes[type]
    [] OTHER                       -> <<"Utf8">>

\* debezium_field_to_arrow: a field that says nothing of it is nullable.
ToArrow(field) ==
  [name |-> field.name, type |-> ToArrowType(ResolveType(field), field.params),
   nullable |-> OrElse(field.optional, TRUE), doc |-> field.doc]

\* Wrong variant: times in microseconds are taken for the unit-less types.
FromArrowTypeCoarse(type) ==
  CASE type[1] = "Decimal128"        -> "decimal"
    [] type = <<"Utf8">>             -> "string"
    [] type = <<"Timestamp", "us">>  -> "timestamp"
    [] type = <<"Time64", "us">>     -> "time"
    [] OTHER -> CHOOSE name \in DOMAIN ArrowTypes : ArrowTypes[name] = type

\* arrow_type_to_debezium on the types the mapping above produces.
FromArrowType(type) ==
  CASE type[1] = "Decimal128"        -> "decimal"
    [] type = <<"Utf8">>             -> "string"
    [] type = <<"Timestamp", "us">>  -> "microtimestamp"
    [] type = <<"Time64", "us">>     -> "microtime"
    [] OTHER -> CHOOSE name \in DOMAIN ArrowTypes : ArrowTypes[name] = type

FromArrow(arrow) ==
  [NewField(arrow.name, FromArrowType(arrow.type)) EXCEPT
     !.optional = arrow.nullable, !.doc = arrow.doc,
     !.params = IF arrow.type[1] = "Decimal128"
                THEN [precision |-> arrow.type[2], scale |-> arrow.type[3]] ELSE Null]

\* SchemaBridge, both ways.
DebeziumToArrow(fields) == [i \in DOMAIN fields |-> ToArrow(fields[i])]
ArrowToDebezium(arrow) == [i \in DOMAIN arrow |-> FromArrow(arrow[i])]

-----------------------------------------------------------------------------
(* Avro                                                                    *)

AvroTypes ==
  [bytes |-> <<"bytes">>, int8 |-> <<"int">>, int16 |-> <<"int">>, int32 |-> <<"int">>,
   int64 |-> <<"long">>, float |-> <<"float">>, double |-> <<"double">>,
   boolean |-> <<"boolean">>, date |-> <<"int", "date">>,
   timestamp |-> <<"long", "timestamp-micros">>,
   microtimestamp |-> <<"long", "timestamp-micros">>,
   nanotimestamp |-> <<"long", "timestamp-nanos">>, time |-> <<"long", "time-micros">>,
   microtime |-> <<"long", "time-micros">>, nanotime |-> <<"long", "time-nanos">>,
   array |-> <<"array", "string">>, map |-> <<"map", "string">>]

\* convert_field_to_avro; Nested(_) converts the fields of a struct. The precision
\* and scale of a decimal are taken over as they stand. The entry of an optional
\* field is a bare union: its name is not in it.
AvroEntry(field, Nested(_)) ==
  LET type == ResolveType(field)
      avro == CASE type = "struct"           -> <<"record", field.title, Nested(field.fields)>>
                [] type = "decimal"          -> <<"bytes", "decimal", field.params>>
                [] type \in DOMAIN AvroTypes -> AvroTypes[type]
                [] OTHER                     -> <<"string">>
  IN  IF OrElse(field.optional, FALSE) THEN [union |-> TRUE, type |-> avro]
      ELSE [union |-> FALSE, field |-> field.name, type |-> avro]

\* Structs of structs of columns, as deep as the envelope goes. A struct without
\* a list of fields is an error.
Convertible(field) == ResolveType(field) = "struct" => field.fields # Null
AvroOfLeaves(fields) ==
  [i \in DOMAIN fields |-> AvroEntry(fields[i], LAMBDA nested : <<>>)]
AvroOf(fields) == [i \in DOMAIN fields |-> AvroEntry(fields[i], AvroOfLeaves)]

ToAvro(fields) ==
  IF \A i \in DOMAIN fields :
       /\ Convertible(fields[i])
       /\ ResolveType(fields[i]) = "struct" =>
            \A j \in DOMAIN fields[i].fields : Convertible(fields[i].fields[j])
  THEN [ok |-> TRUE, fields |-> AvroOf(fields)] ELSE [ok |-> FALSE]

-----------------------------------------------------------------------------
(* The envelope                                                            *)

\* The fields of a source: ten that all have, and the last ones.
SourceFields(last) ==
  LET s == << "version", "connector", "name", "ts_ms", "snapshot", "db", "schema",
              "table", "txId", "lsn" >> \o last
      field(name) ==
        NewField(name, IF name \in {"ts_ms", "txId", "lsn", "xmin", "pos"}
                       THEN "int64" ELSE "string")
      required == {"version", "connector", "name", "ts_ms", "db", "table"}
  IN  [i \in DOMAIN s |-> IF s[i] \in required THEN field(s[i]) ELSE Optional(field(s[i]))]

\* make_source_schema_fields says of each field whether it is optional.
ArrowSource ==
  LET s == SourceFields(<< "xmin", "file", "pos" >>)
  IN  [i \in DOMAIN s |-> [s[i] EXCEPT !.optional = OrElse(@, FALSE)]]

\* Every column becomes optional and gets a name of its own in both images.
Image(name, title, columns) ==
  Optional(Named(StructField(name,
    [i \in DOMAIN columns |->
       [columns[i] EXCEPT !.optional = TRUE, !.title = Append(title, columns[i].name)]]),
    title))

TransactionField ==
  Optional(StructField("transaction",
    << NewField("id", "string"), NewField("total_order", "int64"),
       NewField("data_collections_order", "int64") >>))

\* The images, the source, the operation and its time.
AroundColumns(connector, source, title, columns) ==
  << Image("before", title, columns), Image("after", title, columns),
     [Named(StructField("source", source), <<"io", "debezium", "connector", connector, "Source">>)
        EXCEPT !.optional = FALSE],
     [NewField("op", "string") EXCEPT !.optional = FALSE],
     Optional(NewField("ts_ms", "int64")) >>

\* make_envelope_schema; the title begins with the connector.
ArrowEnvelope(title, columns) == AroundColumns(Head(title), ArrowSource, title, columns)

\* build_envelope_schema, which has a transaction as well.
EnvelopeFields(connector, title, columns) ==
  Append(AroundColumns(connector,
                       SourceFields(<< "file", "pos", "gtid", "resume_token" >>), title, columns),
         Named(TransactionField, Append(title, "Envelope")))

\* SchemaBuilder::new_envelope and with_column, which adds the columns as they are.
BuiltEnvelope(connector, title, columns) ==
  << Optional(Named(StructField("before", columns), title)),
     Optional(Named(StructField("after", columns), title)),
     Named(StructField("source", SourceFields(<< "file", "pos", "gtid" >>)),
           <<"io", "debezium", "connector", connector, "Source">>),
     NewField("op", "string"), Optional(NewField("ts_ms", "int64")), TransactionField >>

-----------------------------------------------------------------------------
(* Evolution; a schema is the sequence of its fields                        *)

\* field_map: the last field of a name is the one that counts.
FieldMap(fields) ==
  [name \in {fields[i].name : i \in DOMAIN fields} |->
     fields[Max({i \in DOMAIN fields : fields[i].name = name})]]

\* Wrong variant: a field that differs in any way counts as added.
AddedOrChanged(source, target) ==
  LET s == FieldMap(source)  t == FieldMap(target)
  IN  {t[name] : name \in {n \in DOMAIN t : n \notin DOMAIN s \/ s[n] # t[n]}}

Added(source, target) ==
  LET s == FieldMap(source)  t == FieldMap(target)
  IN  {t[name] : name \in DOMAIN t \ DOMAIN s}

Removed(source, target) == Added(target, source)

Common(source, target) == DOMAIN FieldMap(source) \cap DOMAIN FieldMap(target)

Retyped(source, target) ==
  LET s == FieldMap(source)  t == FieldMap(target)
  IN  {name \in Common(source, target) : ResolveType(s[name]) # ResolveType(t[name])}

\* The flags are compared as they stand: absent and false are two.
Renulled(source, target) ==
  LET s == FieldMap(source)  t == FieldMap(target)
  IN  {name \in Common(source, target) : s[name].optional # t[name].optional}

\* The changes SchemaEvolution::diff reports; it looks at no nested field.
Changed(source, target) ==
  \/ Added(source, target) # {} \/ Removed(source, target) # {}
  \/ Retyped(source, target) # {} \/ Renulled(source, target) # {}

IsBreaking(source, target) ==
  \/ Removed(source, target) # {} \/ Retyped(source, target) # {}
  \/ \E name \in Renulled(source, target) :
       /\ FieldMap(source)[name].optional = FALSE
       /\ FieldMap(target)[name].optional = TRUE

\* Wrong variant: the columns are taken over as announced, those gone put last.
EvolveAdopting(policy, current, source) ==
  CASE policy = "Fail" /\ Changed(current, source) -> {[ok |-> FALSE]}
    [] ~Changed(current, source) -> {[ok |-> TRUE, fields |-> current]}
    [] OTHER -> {[ok |-> TRUE, fields |-> source \o more] :
                   more \in SetToSeqs(Removed(current, source))}

\* Wrong variant: Fail refuses breaking changes only, and passes over the others.
EvolveIfSafe(policy, current, source) ==
  CASE policy = "Fail" /\ IsBreaking(current, source) -> {[ok |-> FALSE]}
    [] policy = "Fail" \/ ~Changed(current, source) -> {[ok |-> TRUE, fields |-> current]}
    [] OTHER -> {[ok |-> TRUE, fields |-> current \o more] :
                   more \in SetToSeqs(Added(current, source))}

\* What evolve may return: an error, or the current schema with the fields that are
\* new behind it, in the order in which the hash map yields them.
Evolve(policy, current, source) ==
  CASE policy = "Fail" /\ Changed(current, source) -> {[ok |-> FALSE]}
    [] ~Changed(current, source) -> {[ok |-> TRUE, fields |-> current]}
    [] OTHER -> {[ok |-> TRUE, fields |-> current \o more] :
                   more \in SetToSeqs(Added(current, source))}

=============================================================================
