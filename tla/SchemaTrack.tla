----------------------------- MODULE SchemaTrack -----------------------------
(***************************************************************************)
(* A client of opencdc-schema and opencdc-serde that keeps the schema of a  *)
(* table: it evolves the schema whenever the source announces the table     *)
(* anew (SchemaEvolution), registers its Avro form (SchemaRegistryClient)   *)
(* and publishes messages under the id it got (SchemaRegistryWireFormat);   *)
(* a reader looks up the schema of a message by that id.                    *)
(*                                                                         *)
(* The registry is external. It may refuse, it may be slow: a request that  *)
(* the client has given up (timeout_secs) may be carried out afterwards.    *)
(***************************************************************************)
EXTENDS Schemas

CONSTANTS Tables,       \* what the source announces: sequences of columns
          Policies,     \* of EvolutionPolicy: "AutoAdd", "Warn", "Fail"
          FirstId,      \* the id of the first schema of the registry
          MaxAsks,      \* bound on the registrations
          MaxMessages   \* bound on the messages

Names(fields) == [i \in DOMAIN fields |-> fields[i].name]

\* No table has two columns of one name; the flag of a column is an Option<bool>.
ASSUME TrackAssumption ==
  /\ \A columns \in Tables :
       /\ columns \in Seq(Range(columns)) /\ IsInjective(Names(columns))
       /\ \A i \in DOMAIN columns : columns[i].optional \in BOOLEAN \cup {Null}
  /\ Policies \subseteq {"AutoAdd", "Warn", "Fail"}
  /\ FirstId \in Nat /\ MaxAsks \in Nat /\ MaxMessages \in Nat

VARIABLES policy,       \* of the SchemaEvolution in use
          current,      \* the schema kept
          seen,         \* each column of it as first announced
          evolved,      \* the last evolve: what was kept, announced, returned
          registry,     \* the schemas of the subject, in the order of their ids
          asks,         \* the schemas the client has asked to register
          waits,        \* it waits for the answer to the last of them
          net,          \* the registrations on their way
          reply,        \* the answer to the one it waits for, or Null
          held,         \* the id it got last and the schema it got it for
          topic,        \* the messages, each with the schema it was written with
          found         \* what a reader got for a message

clientVars == <<policy, current, seen, evolved>>
registryVars == <<registry, asks, waits, net, reply, held>>
vars == <<policy, current, seen, evolved, registry, asks, waits, net, reply, held,
          topic, found>>

-----------------------------------------------------------------------------
(* The wire format: a magic byte, the id in four bytes, the payload.        *)

BigEndian(n) ==
  LET high == n \div 256
      higher == high \div 256
  IN  << higher \div 256, higher % 256, high % 256, n % 256 >>

\* Wrong variant: the bytes of the id from the last to the first.
EncodeLittle(id, payload) == <<0>> \o Reverse(BigEndian(id)) \o payload

Encode(id, payload) == <<0>> \o BigEndian(id) \o payload

Decode(data) ==
  IF Len(data) < 5 \/ data[1] # 0 THEN [ok |-> FALSE]
  ELSE [ok |-> TRUE, payload |-> SubSeq(data, 6, Len(data)),
        id |-> 256 * (256 * (256 * data[2] + data[3]) + data[4]) + data[5]]

-----------------------------------------------------------------------------
Init ==
  /\ policy \in Policies
  /\ current \in Tables /\ seen = FieldMap(current)
  /\ evolved = [kept |-> current, source |-> current, ok |-> TRUE]
  /\ registry = <<>> /\ asks = <<>> /\ net = {} /\ waits = FALSE
  /\ reply = Null /\ held = Null
  /\ topic = <<>> /\ found = Null

\* What has been seen of each column, with the columns of another announcement.
SeenWith(source) ==
  [name \in DOMAIN seen \cup DOMAIN FieldMap(source) |->
     IF name \in DOMAIN seen THEN seen[name] ELSE FieldMap(source)[name]]

\* The source announces the table; the caller keeps what evolve returns.
Announce == \E source \in Tables : \E result \in Evolve(policy, current, source) :
  /\ evolved' = [kept |-> current, source |-> source, ok |-> result.ok]
  /\ current' = IF result.ok THEN result.fields ELSE current
  /\ seen' = IF result.ok THEN SeenWith(source) ELSE seen
  /\ UNCHANGED <<policy, registryVars, topic, found>>

\* register_subject up to its await.
Register ==
  /\ ~waits /\ Len(asks) < MaxAsks /\ ToAvro(current).ok
  /\ asks' = Append(asks, ToAvro(current).fields)
  /\ net' = net \cup {Len(asks) + 1}
  /\ waits' = TRUE /\ reply' = Null
  /\ UNCHANGED <<clientVars, registry, held, topic, found>>

\* What the registry makes of a schema (external): one it has keeps its id.
WithSchema(schema) ==
  IF schema \in Range(registry) THEN registry ELSE Append(registry, schema)
IdOf(schema, schemas) == FirstId + SelectInSeq(schemas, LAMBDA s : s = schema) - 1

RegistryServes == \E ask \in net : \E accepts \in BOOLEAN :
  /\ net' = net \ {ask}
  /\ registry' = IF accepts THEN WithSchema(asks[ask]) ELSE registry
  /\ reply' = IF waits /\ ask = Len(asks)
              THEN [success |-> accepts,
                    id |-> IF accepts THEN IdOf(asks[ask], registry') ELSE Null]
              ELSE reply
  /\ UNCHANGED <<clientVars, asks, waits, held, topic, found>>

\* A success has the id; a refusal leaves the client with the id it had.
Registered ==
  /\ waits /\ reply # Null
  /\ held' = IF reply.success THEN [id |-> reply.id, schema |-> asks[Len(asks)]] ELSE held
  /\ waits' = FALSE
  /\ UNCHANGED <<clientVars, registry, asks, net, reply, topic, found>>

\* The request fails, or its time is up.
RegisterFails ==
  /\ waits /\ waits' = FALSE
  /\ UNCHANGED <<clientVars, registry, asks, net, reply, held, topic, found>>

\* encode, with the schema that was registered.
Publish ==
  /\ held # Null /\ Len(topic) < MaxMessages
  /\ topic' = Append(topic, [data |-> Encode(held.id, <<1>>), schema |-> held.schema])
  /\ UNCHANGED <<clientVars, registryVars, found>>

\* get_schema_by_id refuses a reply that lacks one of four members.
SchemaReply(body) ==
  IF {"id", "version", "subject", "schema"} \subseteq DOMAIN body
  THEN [ok |-> TRUE, id |-> body.id, schema |-> body.schema] ELSE [ok |-> FALSE]

\* What a registry may reply for an id it has (external): some give the schema alone.
Bodies(id) ==
  LET schema == registry[id - FirstId + 1]
  IN  {[schema |-> schema],
       [schema |-> schema, id |-> id, version |-> id - FirstId + 1, subject |-> "value"]}

\* decode and get_schema_by_id, whose reply may also be lost or late.
Read == \E i \in DOMAIN topic :
  LET decoded == Decode(topic[i].data)
      lost == [ok |-> FALSE]
  IN  /\ found' \in {[message |-> i, result |-> r] :
           r \in {lost} \cup IF decoded.ok /\ decoded.id - FirstId + 1 \in DOMAIN registry
                             THEN {SchemaReply(body) : body \in Bodies(decoded.id)} ELSE {}}
      /\ UNCHANGED <<clientVars, registryVars, topic>>

Next == \/ Announce \/ Register \/ RegistryServes \/ Registered \/ RegisterFails
        \/ Publish \/ Read

Spec == Init /\ [][Next]_vars

-----------------------------------------------------------------------------
TypeOK ==
  /\ policy \in Policies /\ waits \in BOOLEAN
  /\ IsInjective(Names(current)) /\ DOMAIN seen = Range(Names(current))
  /\ net \subseteq DOMAIN asks
  /\ held # Null => held.schema \in Range(asks)

\* A column stays in the schema, in its place, as it was when it was first
\* announced: a drop, another type or another nullability is never adopted
\* (SchemaEvolution::evolve).
FirstSightWins ==
  /\ \A i \in DOMAIN current : current[i] = seen[current[i].name]
  /\ IsPrefix(evolved.kept, current) \/ ~evolved.ok

\* What Ok from evolve says: under Fail that the columns are those announced, with
\* types and flags; otherwise that every column is there, with the type announced
\* unless the difference is a breaking one (SchemaEvolution::diff and evolve).
OkFits ==
  evolved.ok =>
    /\ policy = "Fail" => ~Changed(current, evolved.source)
    /\ \A name \in DOMAIN FieldMap(evolved.source) :
         /\ name \in DOMAIN FieldMap(current)
         /\ IsBreaking(evolved.kept, evolved.source) \/
              ResolveType(FieldMap(current)[name]) = ResolveType(FieldMap(evolved.source)[name])

\* Types that Arrow keeps apart, and that SchemaBridge therefore brings back.
Kept == (DOMAIN ArrowTypes \ {"timestamp", "time"}) \cup {"string", "decimal"}

\* A trip through Arrow brings back the names, the notes and the types of Kept, and
\* another trip changes nothing (SchemaBridge).
ArrowBack ==
  LET arrow == DebeziumToArrow(current)
      back == ArrowToDebezium(arrow)
  IN  /\ DebeziumToArrow(back) = arrow
      /\ \A i \in DOMAIN current :
           /\ back[i].name = current[i].name /\ back[i].doc = current[i].doc
           /\ ResolveType(current[i]) \in Kept => ResolveType(back[i]) = ResolveType(current[i])

\* Avro and Arrow agree on what may be null wherever the field says so itself, and
\* an Avro entry has its column's name exactly when the column is not optional
\* (convert_field_to_avro and debezium_field_to_arrow).
AvroAgrees ==
  LET avro == ToAvro(current)
  IN  avro.ok => \A i \in DOMAIN current :
        /\ current[i].optional # Null => avro.fields[i].union = ToArrow(current[i]).nullable
        /\ avro.fields[i].union \/ avro.fields[i].field = current[i].name

\* No envelope lets a change of the columns be seen: diff compares the fields
\* before and after as structs and does not look into them.
EnvelopeHides ==
  LET title == <<"mysql", "db", "t">>
      source == evolved.source
  IN  /\ ~Changed(ArrowEnvelope(title, current), ArrowEnvelope(title, source))
      /\ ~Changed(EnvelopeFields("mysql", title, current), EnvelopeFields("mysql", title, source))
      /\ ~Changed(BuiltEnvelope("mysql", title, current), BuiltEnvelope("mysql", title, source))

FormsAgree == ArrowBack /\ AvroAgrees /\ EnvelopeHides

\* The id in a message leads to the schema its producer registered, however many
\* registrations timed out and were carried out late, and a reader that is
\* answered gets that schema (register_subject, encode, decode, get_schema_by_id).
Readable ==
  /\ \A i \in DOMAIN topic :
       LET decoded == Decode(topic[i].data)
       IN  /\ decoded.ok /\ decoded.id - FirstId + 1 \in DOMAIN registry
           /\ registry[decoded.id - FirstId + 1] = topic[i].schema
  /\ found # Null /\ found.result.ok => found.result.schema = topic[found.message].schema
=============================================================================
