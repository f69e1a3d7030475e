-------------------------- MODULE SchemaTrackProofs --------------------------
(***************************************************************************)
(* Proofs about SchemaTrack, for any tables and policy, any number of       *)
(* registrations and messages, and whatever comes late from the registry:   *)
(* the id of a message leads to the schema its producer registered; columns *)
(* that were seen stay; a registration that is Ok fits what came before;    *)
(* and the three forms of a schema agree.                                   *)
(***************************************************************************)
EXTENDS SchemaTrack, SequenceTheorems, DataInduction

USE DEF clientVars, registryVars, vars

-----------------------------------------------------------------------------
(* The wire format.                                                         *)

LEMMA DivMod ==
  ASSUME NEW n \in Nat
  PROVE  n \div 256 \in Nat /\ n % 256 \in Nat /\ n = 256 * (n \div 256) + (n % 256)
OBVIOUS

\* Four bytes, from the first to the last, are the number again.
LEMMA FourBytes ==
  ASSUME NEW n \in Nat
  PROVE  LET high == n \div 256
             higher == high \div 256
         IN  /\ {higher \div 256, higher % 256, high % 256, n % 256} \subseteq Nat
             /\ 256 * (256 * (256 * (higher \div 256) + (higher % 256)) + (high % 256)) + (n % 256) = n
<1> DEFINE high == n \div 256
           higher == high \div 256
           highest == higher \div 256
           low == n % 256
           mid == high % 256
           up == higher % 256
<1>1. high \in Nat /\ low \in Nat /\ n = 256 * high + low
  BY DivMod
<1>2. higher \in Nat /\ mid \in Nat /\ high = 256 * higher + mid
  BY <1>1, DivMod
<1>3. highest \in Nat /\ up \in Nat /\ higher = 256 * highest + up
  BY <1>2, DivMod
<1>4. 256 * (256 * (256 * highest + up) + mid) + low = n
  <2> HIDE DEF high, higher, highest, low, mid, up
  <2>1. 256 * (256 * highest + up) + mid = high
    BY <1>2, <1>3
  <2>2. QED
    BY <1>1, <2>1
<1>5. QED
  BY <1>1, <1>2, <1>3, <1>4

\* A byte, four more, and the rest behind them.
LEMMA FiveBytes ==
  ASSUME NEW a \in Nat, NEW b \in Nat, NEW c \in Nat, NEW d \in Nat, NEW e \in Nat,
         NEW rest \in Seq(Nat)
  PROVE  /\ <<a>> \o <<b, c, d, e>> \o rest = <<a, b, c, d, e>> \o rest
         /\ <<a, b, c, d, e>> \o rest \in Seq(Nat)
         /\ Len(<<a, b, c, d, e>> \o rest) = 5 + Len(rest)
         /\ \A i \in 1..5 : (<<a, b, c, d, e>> \o rest)[i] = <<a, b, c, d, e>>[i]
         /\ \A i \in 1..Len(rest) : (<<a, b, c, d, e>> \o rest)[5 + i] = rest[i]
<1> DEFINE head == <<a>>
           four == <<b, c, d, e>>
           five == <<a, b, c, d, e>>
<1>1. /\ head \in Seq(Nat) /\ four \in Seq(Nat) /\ five \in Seq(Nat)
      /\ Len(head) = 1 /\ Len(four) = 4 /\ Len(five) = 5
  OBVIOUS
<1>2. head \o four = five
  <2>1. \A i \in 1..5 : (head \o four)[i] = five[i]
    <3>1. (head \o four)[1] = a
      BY <1>1, ConcatProperties
    <3>2. \A i \in 2..5 : (head \o four)[i] = four[i - 1]
      BY <1>1, ConcatProperties
    <3>3. QED
      BY <3>1, <3>2
  <2>2. head \o four \in Seq(Nat) /\ Len(head \o four) = 5
    BY <1>1, ConcatProperties
  <2>3. QED
    BY <1>1, <2>1, <2>2, SeqEqual
<1> HIDE DEF five
<1>3. /\ five \o rest \in Seq(Nat) /\ Len(five \o rest) = 5 + Len(rest)
      /\ \A i \in 1..5 : (five \o rest)[i] = five[i]
      /\ \A i \in 1..Len(rest) : (five \o rest)[5 + i] = rest[i]
  <2>1. Len(rest) \in Nat
    OBVIOUS
  <2>2. \A i \in 1..Len(rest) : 5 + i \in 6..(5 + Len(rest)) /\ (5 + i) - 5 = i
    BY <2>1
  <2>3. five \in Seq(Nat) /\ rest \in Seq(Nat) /\ Len(five) = 5
    BY <1>1
  <2>4. /\ five \o rest \in Seq(Nat) /\ Len(five \o rest) = Len(five) + Len(rest)
        /\ \A i \in 1..(Len(five) + Len(rest)) :
              (five \o rest)[i] = IF i <= Len(five) THEN five[i] ELSE rest[i - Len(five)]
    BY <2>3, ConcatProperties, Zenon
  <2>5. \A i \in 1..5 : (five \o rest)[i] = five[i]
    BY <2>1, <2>3, <2>4
  <2>6. \A i \in 1..Len(rest) : (five \o rest)[5 + i] = rest[i]
    BY <2>1, <2>2, <2>3, <2>4
  <2>7. QED
    BY <2>3, <2>4, <2>5, <2>6
<1>4. QED
  BY <1>2, <1>3 DEF five

\* SchemaRegistryWireFormat's decode gets back what encode was given: for every id
\* the id, and for every payload the payload.
THEOREM DecodeEncode ==
  ASSUME NEW id \in Nat, NEW payload \in Seq(Nat)
  PROVE  LET decoded == Decode(Encode(id, payload))
         IN  decoded.ok /\ decoded.id = id /\ decoded.payload = payload
<1> DEFINE data == Encode(id, payload)
           high == id \div 256
           higher == high \div 256
           first == higher \div 256
           second == higher % 256
           third == high % 256
           fourth == id % 256
           five == <<0, first, second, third, fourth>>
<1>1. /\ first \in Nat /\ second \in Nat /\ third \in Nat /\ fourth \in Nat
      /\ 256 * (256 * (256 * first + second) + third) + fourth = id
  BY FourBytes
<1>2. data = <<0>> \o <<first, second, third, fourth>> \o payload
  BY DEF Encode, BigEndian
<1> HIDE DEF first, second, third, fourth, data
<1>3. /\ data \in Seq(Nat) /\ Len(data) = 5 + Len(payload)
      /\ \A i \in 1..5 : data[i] = five[i]
      /\ \A i \in 1..Len(payload) : data[5 + i] = payload[i]
  BY <1>1, <1>2, FiveBytes
<1>4. /\ data[1] = 0 /\ data[2] = first /\ data[3] = second
      /\ data[4] = third /\ data[5] = fourth /\ ~(Len(data) < 5)
  BY <1>3
<1>5. SubSeq(data, 6, Len(data)) = payload
  <2>1. /\ SubSeq(data, 6, Len(data)) \in Seq(Nat)
        /\ Len(SubSeq(data, 6, Len(data))) = Len(payload)
        /\ \A i \in 1..Len(payload) : SubSeq(data, 6, Len(data))[i] = data[6 + i - 1]
    BY <1>3, SubSeqProperties
  <2>2. \A i \in 1..Len(payload) : 6 + i - 1 = 5 + i
    OBVIOUS
  <2>3. \A i \in 1..Len(payload) : SubSeq(data, 6, Len(data))[i] = payload[i]
    BY <1>3, <2>1, <2>2
  <2> DEFINE rest == SubSeq(data, 6, Len(data))
  <2>4. rest \in Seq(Nat) /\ Len(rest) = Len(payload)
        /\ \A i \in 1..Len(payload) : rest[i] = payload[i]
    BY <2>1, <2>3
  <2> HIDE DEF rest
  <2>5. rest = payload
    BY <2>4, SeqEqual
  <2>6. QED
    BY <2>5 DEF rest
<1>6. Decode(data) = [ok |-> TRUE, payload |-> payload, id |-> id]
  BY <1>1, <1>4, <1>5 DEF Decode
<1>7. QED
  BY <1>6 DEF data

\* The same for the messages of a topic.
LEMMA IdBack ==
  ASSUME NEW id \in Nat
  PROVE  Decode(Encode(id, <<1>>)).ok /\ Decode(Encode(id, <<1>>)).id = id
<1>1. <<1>> \in Seq(Nat)
  OBVIOUS
<1>2. QED
  BY <1>1, DecodeEncode

-----------------------------------------------------------------------------
(* The inductive invariant.                                                 *)

\* A registry never has a schema twice.
Injective(s) == \A i, j \in DOMAIN s : s[i] = s[j] => i = j

\* An id is the one of a schema.
IsIdOf(id, schema, schemas) ==
  /\ id \in Nat
  /\ id - FirstId + 1 \in DOMAIN schemas
  /\ schemas[id - FirstId + 1] = schema

\* A success that is waited for is that of the last registration.
ReplyHolds ==
  waits /\ reply # Null /\ reply.success => IsIdOf(reply.id, asks[Len(asks)], registry)

HeldHolds == held # Null => IsIdOf(held.id, held.schema, registry)

TopicHolds == \A i \in DOMAIN topic :
  \E id \in Nat : /\ topic[i].data = Encode(id, <<1>>)
                  /\ IsIdOf(id, topic[i].schema, registry)

FoundHolds ==
  found # Null /\ found.result.ok =>
    found.message \in DOMAIN topic /\ found.result.schema = topic[found.message].schema

Inv ==
  /\ IsSeq(registry) /\ IsSeq(asks) /\ IsSeq(topic)
  /\ waits \in BOOLEAN
  /\ Injective(registry)
  /\ net \subseteq DOMAIN asks
  /\ ReplyHolds /\ HeldHolds /\ TopicHolds /\ FoundHolds

\* The schema that was added, or found, has its id, and no other loses it.
LEMMA Registering ==
  ASSUME Inv, NEW schema
  PROVE  LET new == WithSchema(schema)
         IN  /\ IsSeq(new) /\ Injective(new)
             /\ \A id, other : IsIdOf(id, other, registry) => IsIdOf(id, other, new)
             /\ IsIdOf(IdOf(schema, new), schema, new)
<1> DEFINE new == WithSchema(schema)
<1>1. /\ IsSeq(new) /\ Injective(new)
      /\ DOMAIN registry \subseteq DOMAIN new
      /\ \A i \in DOMAIN registry : new[i] = registry[i]
      /\ \E k \in DOMAIN new : new[k] = schema
  <2>1. CASE schema \in Range(registry)
    BY <2>1 DEF WithSchema, Inv, Range
  <2>2. CASE schema \notin Range(registry)
    <3>1. new = Append(registry, schema)
      BY <2>2 DEF WithSchema
    <3>2. /\ IsSeq(new) /\ Len(registry) \in Nat /\ DOMAIN registry = 1..Len(registry)
          /\ DOMAIN new = 1..(Len(registry) + 1)
          /\ \A i \in DOMAIN registry : new[i] = registry[i]
          /\ new[Len(registry) + 1] = schema
      BY <3>1, AppendAny DEF Inv
    <3> HIDE DEF new
    <3>3. \A i \in DOMAIN registry : registry[i] # schema
      BY <2>2 DEF Range
    <3>4. Injective(new)
      BY <3>2, <3>3 DEF Injective, Inv
    <3>5. QED
      BY <3>2, <3>4
  <2>3. QED
    BY <2>1, <2>2
<1> HIDE DEF new
<1>2. PICK k \in DOMAIN new : new[k] = schema
  BY <1>1
<1>3. Len(new) \in Nat /\ DOMAIN new = 1..Len(new)
  BY <1>1, LenProperties DEF IsSeq
<1>4. {i \in 1..Len(new) : new[i] = schema} = {k}
  BY <1>1, <1>2, <1>3 DEF Injective
<1>5. Min({k}) = k
  BY <1>3 DEF Min
<1>6. IdOf(schema, new) = FirstId + k - 1
  <2>1. SelectInSeq(new, LAMBDA s : s = schema) = k
    BY <1>4, <1>5 DEF SelectInSeq
  <2>2. QED
    BY <2>1 DEF IdOf
<1>7. IsIdOf(IdOf(schema, new), schema, new)
  BY <1>2, <1>3, <1>6, TrackAssumption DEF IsIdOf
<1>8. \A id, other : IsIdOf(id, other, registry) => IsIdOf(id, other, new)
  BY <1>1 DEF IsIdOf
<1>9. QED
  BY <1>1, <1>7, <1>8 DEF new

LEMMA InvInit == Init => Inv
<1> SUFFICES ASSUME Init
             PROVE  Inv
  OBVIOUS
<1>1. IsSeq(<<>>)
  BY DEF IsSeq
<1>2. DOMAIN <<>> = {}
  OBVIOUS
<1>3. /\ registry = <<>> /\ asks = <<>> /\ net = {} /\ waits = FALSE
      /\ reply = Null /\ held = Null /\ topic = <<>> /\ found = Null
  BY DEF Init
<1>4. Injective(registry) /\ TopicHolds
  BY <1>2, <1>3 DEF Injective, TopicHolds
<1>5. ReplyHolds /\ HeldHolds /\ FoundHolds
  BY <1>3 DEF ReplyHolds, HeldHolds, FoundHolds
<1>6. QED
  BY <1>1, <1>3, <1>4, <1>5 DEF Inv

LEMMA ServeKeeps ==
  ASSUME Inv, RegistryServes
  PROVE  Inv'
<1>1. PICK ask \in net, accepts \in BOOLEAN :
        /\ net' = net \ {ask}
        /\ registry' = IF accepts THEN WithSchema(asks[ask]) ELSE registry
        /\ reply' = IF waits /\ ask = Len(asks)
                    THEN [success |-> accepts,
                          id |-> IF accepts THEN IdOf(asks[ask], registry') ELSE Null]
                    ELSE reply
        /\ UNCHANGED <<asks, waits, held, topic, found>>
  BY DEF RegistryServes
<1>2. /\ IsSeq(registry') /\ Injective(registry')
      /\ \A id, other : IsIdOf(id, other, registry) => IsIdOf(id, other, registry')
      /\ accepts => IsIdOf(IdOf(asks[ask], registry'), asks[ask], registry')
  BY <1>1, Registering DEF Inv
<1>3. ReplyHolds'
  <2> SUFFICES ASSUME waits, reply' # Null, reply'.success
               PROVE  IsIdOf(reply'.id, asks[Len(asks)], registry')
    BY <1>1 DEF ReplyHolds
  <2>1. CASE ask = Len(asks)
    <3>1. accepts /\ reply'.id = IdOf(asks[ask], registry')
      BY <1>1, <2>1
    <3>2. QED
      BY <1>2, <2>1, <3>1
  <2>2. CASE ask # Len(asks)
    BY <1>1, <1>2, <2>2 DEF Inv, ReplyHolds
  <2>3. QED
    BY <2>1, <2>2
<1>4. HeldHolds'
  BY <1>1, <1>2 DEF Inv, HeldHolds
<1>5. TopicHolds'
  BY <1>1, <1>2 DEF Inv, TopicHolds
<1>6. FoundHolds'
  BY <1>1 DEF Inv, FoundHolds
<1>7. QED
  BY <1>1, <1>2, <1>3, <1>4, <1>5, <1>6 DEF Inv

LEMMA PublishKeeps ==
  ASSUME Inv, Publish
  PROVE  Inv'
<1> DEFINE message == [data |-> Encode(held.id, <<1>>), schema |-> held.schema]
<1>1. /\ held # Null /\ topic' = Append(topic, message)
      /\ UNCHANGED <<registry, asks, waits, net, reply, held, found>>
  BY DEF Publish
<1>2. /\ message.data = Encode(held.id, <<1>>) /\ message.schema = held.schema
  OBVIOUS
<1> HIDE DEF message
<1>3. /\ IsSeq(topic') /\ DOMAIN topic = 1..Len(topic) /\ Len(topic) \in Nat
      /\ DOMAIN topic' = 1..(Len(topic) + 1)
      /\ \A i \in DOMAIN topic : topic'[i] = topic[i]
      /\ topic'[Len(topic) + 1] = message
  BY <1>1, AppendAny DEF Inv
<1>4. TopicHolds'
  <2>1. IsIdOf(held.id, message.schema, registry) /\ held.id \in Nat
    BY <1>1, <1>2 DEF Inv, HeldHolds, IsIdOf
  <2>2. \A i \in DOMAIN topic : \E id \in Nat :
           topic'[i].data = Encode(id, <<1>>) /\ IsIdOf(id, topic'[i].schema, registry)
    BY <1>3 DEF Inv, TopicHolds
  <2>3. \E id \in Nat : message.data = Encode(id, <<1>>) /\ IsIdOf(id, message.schema, registry)
    BY <1>2, <2>1
  <2>4. QED
    BY <1>1, <1>3, <2>2, <2>3 DEF TopicHolds
<1>5. FoundHolds'
  BY <1>1, <1>3 DEF Inv, FoundHolds
<1>6. QED
  BY <1>1, <1>3, <1>4, <1>5 DEF Inv, ReplyHolds, HeldHolds

LEMMA ReadKeeps ==
  ASSUME Inv, Read
  PROVE  Inv'
<1>1. PICK i \in DOMAIN topic :
        LET decoded == Decode(topic[i].data)
            lost == [ok |-> FALSE]
        IN  found' \in {[message |-> i, result |-> r] :
               r \in {lost} \cup IF decoded.ok /\ decoded.id - FirstId + 1 \in DOMAIN registry
                                 THEN {SchemaReply(body) : body \in Bodies(decoded.id)} ELSE {}}
  BY DEF Read
<1>2. UNCHANGED <<registry, asks, waits, net, reply, held, topic>>
  BY DEF Read
<1>3. PICK id \in Nat :
        topic[i].data = Encode(id, <<1>>) /\ IsIdOf(id, topic[i].schema, registry)
  BY DEF Inv, TopicHolds
<1>4. Decode(topic[i].data).id = id
  BY <1>3, IdBack
<1>5. \A body \in Bodies(id) : SchemaReply(body).ok => SchemaReply(body).schema = topic[i].schema
  <2>1. registry[id - FirstId + 1] = topic[i].schema
    BY <1>3 DEF IsIdOf
  <2>2. \A body \in Bodies(id) : body.schema = topic[i].schema
    BY <2>1 DEF Bodies
  <2>3. \A body \in Bodies(id) : SchemaReply(body).ok => SchemaReply(body).schema = body.schema
    BY DEF SchemaReply
  <2>4. QED
    BY <2>2, <2>3
<1>6. FoundHolds'
  <2>1. PICK r : /\ found' = [message |-> i, result |-> r]
                 /\ r = [ok |-> FALSE] \/ r \in {SchemaReply(body) : body \in Bodies(id)}
    BY <1>1, <1>4
  <2>2. r.ok => r.schema = topic[i].schema
    BY <1>5, <2>1
  <2>3. QED
    BY <1>2, <2>1, <2>2 DEF FoundHolds
<1>7. QED
  BY <1>2, <1>6 DEF Inv, ReplyHolds, HeldHolds, TopicHolds

LEMMA InvNext == Inv /\ [Next]_vars => Inv'
<1> SUFFICES ASSUME Inv, [Next]_vars
             PROVE  Inv'
  OBVIOUS
<1>1. CASE Register
  <2>1. PICK schema : asks' = Append(asks, schema)
    BY <1>1 DEF Register
  <2>2. /\ net' = net \cup {Len(asks) + 1} /\ waits' = TRUE /\ reply' = Null
        /\ UNCHANGED <<registry, held, topic, found>>
    BY <1>1 DEF Register
  <2>3. IsSeq(asks') /\ net' \subseteq DOMAIN asks'
    BY <2>1, <2>2, AppendAny DEF Inv
  <2>4. QED
    BY <2>2, <2>3 DEF Inv, ReplyHolds, HeldHolds, TopicHolds, FoundHolds
<1>2. CASE Registered
  <2>1. /\ waits /\ reply # Null /\ waits' = FALSE
        /\ held' = IF reply.success THEN [id |-> reply.id, schema |-> asks[Len(asks)]] ELSE held
        /\ UNCHANGED <<registry, asks, net, reply, topic, found>>
    BY <1>2 DEF Registered
  <2>2. HeldHolds'
    BY <2>1 DEF Inv, ReplyHolds, HeldHolds
  <2>3. QED
    BY <2>1, <2>2 DEF Inv, ReplyHolds, TopicHolds, FoundHolds
<1>3. CASE Announce \/ RegisterFails \/ UNCHANGED vars
  <2>1. /\ UNCHANGED <<registry, asks, net, reply, held, topic, found>>
        /\ waits' \in {waits, FALSE}
    BY <1>3 DEF Announce, RegisterFails, Inv
  <2>2. waits' \in BOOLEAN /\ (waits' => waits)
    <3>1. CASE waits' = waits
      BY <3>1 DEF Inv
    <3>2. CASE waits' = FALSE
      BY <3>2
    <3>3. QED
      BY <2>1, <3>1, <3>2
  <2>3. ReplyHolds'
    BY <2>1, <2>2 DEF Inv, ReplyHolds
  <2>4. HeldHolds' /\ TopicHolds' /\ FoundHolds'
    BY <2>1 DEF Inv, HeldHolds, TopicHolds, FoundHolds
  <2>5. QED
    BY <2>1, <2>2, <2>3, <2>4 DEF Inv
<1>4. QED
  BY <1>1, <1>2, <1>3, ServeKeeps, PublishKeeps, ReadKeeps DEF Next

\* The id in a message leads to the schema its producer registered, and a reader
\* that is answered gets that schema.
THEOREM MessagesAreReadable == Spec => []Readable
<1>1. Inv => Readable
  <2> SUFFICES ASSUME Inv
               PROVE  Readable
    OBVIOUS
  <2>1. ASSUME NEW i \in DOMAIN topic
        PROVE  LET decoded == Decode(topic[i].data)
               IN  /\ decoded.ok /\ decoded.id - FirstId + 1 \in DOMAIN registry
                   /\ registry[decoded.id - FirstId + 1] = topic[i].schema
    BY IdBack DEF Inv, TopicHolds, IsIdOf
  <2>2. QED
    BY <2>1 DEF Inv, FoundHolds, Readable
<1>2. QED
  BY <1>1, InvInit, InvNext, PTL DEF Spec

-----------------------------------------------------------------------------
(* Schemas and their evolution.                                             *)

Distinct(fields) == \A i, j \in DOMAIN fields : fields[i].name = fields[j].name => i = j

\* What field_map holds.
LEMMA MapFacts ==
  ASSUME NEW fields, IsSeq(fields)
  PROVE  /\ DOMAIN FieldMap(fields) = {fields[i].name : i \in DOMAIN fields}
         /\ \A name \in DOMAIN FieldMap(fields) : \E i \in DOMAIN fields :
               fields[i].name = name /\ FieldMap(fields)[name] = fields[i]
<1>1. Len(fields) \in Nat /\ DOMAIN fields = 1..Len(fields)
  BY LenProperties DEF IsSeq
<1>2. ASSUME NEW name \in {fields[i].name : i \in DOMAIN fields}
      PROVE  \E i \in DOMAIN fields :
               fields[i].name = name /\ FieldMap(fields)[name] = fields[i]
  <2> DEFINE S == {i \in DOMAIN fields : fields[i].name = name}
  <2>1. S \in SUBSET (0..Len(fields)) /\ S # {}
    BY <1>1, <1>2
  <2>2. Max(S) \in S
    <3> HIDE DEF S
    <3>1. QED
      BY <1>1, <2>1, GreatestNumber
  <2>3. FieldMap(fields)[name] = fields[Max(S)]
    BY <1>2 DEF FieldMap
  <2>4. QED
    BY <2>2, <2>3
<1>3. DOMAIN FieldMap(fields) = {fields[i].name : i \in DOMAIN fields}
  BY DEF FieldMap
<1>4. QED
  BY <1>2, <1>3

\* ... of columns that have names of their own.
LEMMA MapOfDistinct ==
  ASSUME NEW fields, IsSeq(fields), Distinct(fields), NEW i \in DOMAIN fields
  PROVE  FieldMap(fields)[fields[i].name] = fields[i]
<1>1. fields[i].name \in DOMAIN FieldMap(fields)
  BY MapFacts
<1>2. PICK j \in DOMAIN fields :
         fields[j].name = fields[i].name /\ FieldMap(fields)[fields[i].name] = fields[j]
  BY <1>1, MapFacts
<1>3. QED
  BY <1>2 DEF Distinct

\* The fields that are new are finitely many.
LEMMA AddedFinite ==
  ASSUME NEW s, IsSeq(s), NEW t, IsSeq(t)
  PROVE  IsFiniteSet(Added(s, t))
<1> DEFINE new == DOMAIN FieldMap(t) \ DOMAIN FieldMap(s)
           at  == [i \in DOMAIN t |-> t[i].name]
           val == [name \in new |-> FieldMap(t)[name]]
<1>1. IsFiniteSet(DOMAIN t)
  <2>1. Len(t) \in Nat /\ DOMAIN t = 1..Len(t)
    BY LenProperties DEF IsSeq
  <2>2. QED
    BY <2>1, FS_Interval
<1>2. IsFiniteSet(DOMAIN FieldMap(t))
  <2>1. at \in Surjection(DOMAIN t, DOMAIN FieldMap(t))
    <3>1. DOMAIN FieldMap(t) = {t[i].name : i \in DOMAIN t}
      BY MapFacts
    <3>2. /\ at \in [DOMAIN t -> DOMAIN FieldMap(t)]
          /\ \A x \in DOMAIN FieldMap(t) : \E i \in DOMAIN t : at[i] = x
      BY <3>1
    <3>3. QED
      BY <3>2 DEF Surjection
  <2>2. QED
    BY <1>1, <2>1, FS_Surjection
<1>3. IsFiniteSet(new)
  BY <1>2, FS_Subset
<1>4. Added(s, t) = {val[name] : name \in new}
  BY DEF Added
<1>5. val \in Surjection(new, Added(s, t))
  BY <1>4 DEF Surjection
<1>6. QED
  BY <1>3, <1>5, FS_Surjection

\* A sequence of a finite set has each of its elements once.
LEMMA SeqOfSet ==
  ASSUME NEW S, IsFiniteSet(S), NEW more \in SetToSeqs(S)
  PROVE  /\ IsSeq(more)
         /\ \A i \in DOMAIN more : more[i] \in S
         /\ \A x \in S : \E i \in DOMAIN more : more[i] = x
         /\ \A i, j \in DOMAIN more : more[i] = more[j] => i = j
<1> DEFINE D == 1..Cardinality(S)
<1>1. Cardinality(S) \in Nat
  BY FS_CardinalityType
<1>2. more \in [D -> S] /\ \A i, j \in D : i # j => more[i] # more[j]
  BY DEF SetToSeqs
<1>3. more \in Injection(D, S)
  BY <1>2 DEF Injection, IsInjective
<1>4. Cardinality(D) = Cardinality(S)
  BY <1>1, FS_Interval
<1>5. more \in Surjection(D, S)
  BY <1>3, <1>4, FS_Injection
<1>6. \A x \in S : \E i \in D : more[i] = x
  BY <1>5 DEF Surjection
<1>7. more \in [D -> Range(more)]
  BY <1>2 DEF Range
<1>8. more \in Seq(Range(more))
  BY <1>1, <1>7
<1>9. QED
  BY <1>2, <1>6, <1>8 DEF IsSeq

\* A schema that goes on from an old one: every column keeps its place, and those
\* behind are the announced ones it lacked.
GoesOn(p, old, source, new) ==
  /\ IsSeq(new) /\ Distinct(new)
  /\ Len(old) \in Nat /\ DOMAIN old = 1..Len(old) /\ DOMAIN new = 1..Len(new)
  /\ Len(old) <= Len(new) /\ Len(new) \in Nat
  /\ \A i \in DOMAIN old : new[i] = old[i]
  /\ \A i \in DOMAIN new \ DOMAIN old :
        /\ new[i].name \in DOMAIN FieldMap(source) \ DOMAIN FieldMap(old)
        /\ new[i] = FieldMap(source)[new[i].name]
  /\ DOMAIN FieldMap(new) = DOMAIN FieldMap(old) \cup DOMAIN FieldMap(source)
  /\ p = "Fail" => new = old /\ ~Changed(old, source)

\* What evolve returns goes on from the current schema.
LEMMA EvolveGoesOn ==
  ASSUME NEW p, NEW old, IsSeq(old), Distinct(old), NEW source, IsSeq(source),
         NEW result \in Evolve(p, old, source), result.ok
  PROVE  GoesOn(p, old, source, result.fields)
<1> DEFINE new == result.fields
           s == FieldMap(source)
           o == FieldMap(old)
<1>1. Len(old) \in Nat /\ DOMAIN old = 1..Len(old)
  BY LenProperties DEF IsSeq
<1>2. DOMAIN o = {old[i].name : i \in DOMAIN old}
  BY MapFacts
<1>3. \A name \in DOMAIN s : s[name].name = name
  <2> TAKE name \in DOMAIN s
  <2>1. PICK i \in DOMAIN source : source[i].name = name /\ s[name] = source[i]
    BY MapFacts
  <2>2. QED
    BY <2>1
<1>4. CASE ~Changed(old, source)
  <2>1. new = old
    BY <1>4 DEF Evolve
  <2>2. Added(old, source) = {}
    BY <1>4 DEF Changed
  <2>3. DOMAIN s \subseteq DOMAIN o
    BY <2>2 DEF Added
  <2> HIDE DEF new, s, o
  <2>4. DOMAIN o = DOMAIN o \cup DOMAIN s
    BY <2>3
  <2>5. Len(old) <= Len(old) /\ \A i \in DOMAIN new \ DOMAIN old : FALSE
    BY <1>1, <2>1
  <2>6. QED
    BY <1>1, <1>4, <2>1, <2>4, <2>5 DEF GoesOn, new, s, o
<1>5. CASE Changed(old, source)
  <2>1. p # "Fail" /\ result \in {[ok |-> TRUE, fields |-> old \o more] :
                                    more \in SetToSeqs(Added(old, source))}
    BY <1>5 DEF Evolve
  <2>2. PICK more \in SetToSeqs(Added(old, source)) : new = old \o more
    BY <2>1
  <2>3. /\ IsSeq(more)
        /\ \A i \in DOMAIN more : more[i] \in Added(old, source)
        /\ \A x \in Added(old, source) : \E i \in DOMAIN more : more[i] = x
        /\ \A i, j \in DOMAIN more : more[i] = more[j] => i = j
    BY AddedFinite, SeqOfSet
  <2>4. \A x \in Added(old, source) : /\ x.name \in DOMAIN s \ DOMAIN o
                                      /\ x = s[x.name]
    <3>1. Added(old, source) = {s[name] : name \in DOMAIN s \ DOMAIN o}
      BY DEF Added
    <3> HIDE DEF s, o
    <3>2. QED
      BY <1>3, <3>1
  <2>5. \A name \in DOMAIN s \ DOMAIN o : s[name] \in Added(old, source) /\ s[name].name = name
    BY <1>3 DEF Added
  <2> HIDE DEF new, s, o
  <2>6. /\ IsSeq(new) /\ Len(more) \in Nat /\ DOMAIN more = 1..Len(more)
        /\ Len(new) = Len(old) + Len(more) /\ DOMAIN new = 1..(Len(old) + Len(more))
        /\ \A i \in 1..Len(old) : new[i] = old[i]
        /\ \A i \in 1..Len(more) : new[Len(old) + i] = more[i]
    BY <2>2, <2>3, ConcatAny
  <2>7. ASSUME NEW i \in DOMAIN new \ DOMAIN old
        PROVE  /\ i - Len(old) \in DOMAIN more /\ new[i] = more[i - Len(old)]
               /\ new[i].name \in DOMAIN s \ DOMAIN o
               /\ new[i] = s[new[i].name]
    <3>1. i - Len(old) \in 1..Len(more) /\ i = Len(old) + (i - Len(old))
      BY <1>1, <2>6
    <3>2. new[i] = more[i - Len(old)]
      BY <2>6, <3>1
    <3>3. QED
      BY <2>3, <2>4, <2>6, <3>1, <3>2
  <2>8. Distinct(new)
    <3>1. ASSUME NEW i \in DOMAIN new, NEW j \in DOMAIN new, new[i].name = new[j].name
          PROVE  i = j
      <4>1. CASE i \in DOMAIN old /\ j \in DOMAIN old
        BY <1>1, <2>6, <3>1, <4>1 DEF Distinct
      <4>2. CASE i \notin DOMAIN old /\ j \notin DOMAIN old
        <5>1. new[i] = new[j]
          BY <2>7, <3>1, <4>2
        <5>2. more[i - Len(old)] = more[j - Len(old)]
          BY <2>7, <4>2, <5>1
        <5>3. i - Len(old) = j - Len(old)
          BY <2>3, <2>7, <4>2, <5>2
        <5>4. QED
          BY <1>1, <2>6, <5>3
      <4>3. ASSUME NEW a \in DOMAIN old, NEW b \in DOMAIN new \ DOMAIN old
            PROVE  new[a].name # new[b].name
        BY <1>1, <1>2, <2>6, <2>7, <4>3
      <4>4. QED
        BY <3>1, <4>1, <4>2, <4>3
    <3>2. QED
      BY <3>1 DEF Distinct
  <2>9. DOMAIN FieldMap(new) = DOMAIN o \cup DOMAIN s
    <3>1. DOMAIN FieldMap(new) = {new[i].name : i \in DOMAIN new}
      BY <2>6, MapFacts
    <3>2. ASSUME NEW i \in DOMAIN new
          PROVE  new[i].name \in DOMAIN o \cup DOMAIN s
      BY <1>1, <1>2, <2>6, <2>7
    <3>3. ASSUME NEW name \in DOMAIN o
          PROVE  \E i \in DOMAIN new : new[i].name = name
      <4>1. PICK i \in DOMAIN old : old[i].name = name
        BY <1>2
      <4>2. i \in DOMAIN new /\ new[i] = old[i]
        BY <1>1, <2>6
      <4>3. QED
        BY <4>1, <4>2
    <3>4. ASSUME NEW name \in DOMAIN s \ DOMAIN o
          PROVE  \E i \in DOMAIN new : new[i].name = name
      <4>1. PICK k \in DOMAIN more : more[k] = s[name]
        BY <2>3, <2>5
      <4>2. Len(old) + k \in DOMAIN new /\ new[Len(old) + k] = s[name]
        BY <1>1, <2>6, <4>1
      <4>3. QED
        BY <2>5, <4>2
    <3>5. QED
      BY <3>1, <3>2, <3>3, <3>4
  <2>10. QED
    BY <1>1, <2>1, <2>6, <2>7, <2>8, <2>9 DEF GoesOn, new, s, o
<1>6. QED
  BY <1>4, <1>5

\* Evolution settles: for every policy, and every schema whose columns have names of
\* their own, columns that were taken once are never refused when they are announced
\* again, and leave the schema as the first time left it: whatever type or flag diff
\* goes on reporting as changed, nothing is appended twice.
THEOREM EvolveSettles ==
  ASSUME NEW p, NEW old, IsSeq(old), Distinct(old), NEW source, IsSeq(source),
         NEW result \in Evolve(p, old, source), result.ok
  PROVE  Evolve(p, result.fields, source) = {[ok |-> TRUE, fields |-> result.fields]}
<1> DEFINE new == result.fields
<1>1. GoesOn(p, old, source, new)
  BY EvolveGoesOn
<1> HIDE DEF new
<1>2. CASE p = "Fail"
  <2>1. ~Changed(new, source)
    BY <1>1, <1>2 DEF GoesOn
  <2>2. QED
    BY <2>1 DEF Evolve, new
<1>3. CASE p # "Fail" /\ ~Changed(new, source)
  BY <1>3 DEF Evolve, new
<1>4. CASE p # "Fail" /\ Changed(new, source)
  <2>1. DOMAIN FieldMap(source) \ DOMAIN FieldMap(new) = {}
    BY <1>1 DEF GoesOn
  <2>2. Added(new, source) = {}
    BY <2>1 DEF Added
  <2>3. SetToSeqs({}) = {<<>>}
    <3>1. 1..Cardinality({}) = {}
      BY FS_EmptySet
    <3>2. SetToSeqs({}) = [{} -> {}]
      BY <3>1 DEF SetToSeqs
    <3>3. <<>> \in [{} -> {}] /\ \A f \in [{} -> {}] : f = <<>>
      OBVIOUS
    <3>4. QED
      BY <3>2, <3>3
  <2>4. new \o <<>> = new
    BY <1>1 DEF GoesOn, IsSeq
  <2>5. Evolve(p, new, source)
          = {[ok |-> TRUE, fields |-> new \o more] : more \in SetToSeqs(Added(new, source))}
    BY <1>4 DEF Evolve
  <2>6. Evolve(p, new, source) = {[ok |-> TRUE, fields |-> new \o <<>>]}
    <3>1. SetToSeqs(Added(new, source)) = {<<>>}
      BY <2>2, <2>3
    <3>2. ASSUME NEW S, S = {<<>>}
          PROVE  {[ok |-> TRUE, fields |-> new \o more] : more \in S}
                   = {[ok |-> TRUE, fields |-> new \o <<>>]}
      BY <3>2, Zenon
    <3>3. QED
      BY <2>5, <3>1, <3>2, Zenon
  <2>7. QED
    BY <2>4, <2>6 DEF new
<1>5. QED
  BY <1>2, <1>3, <1>4

\* The schema kept, and how the last evolve left it: nothing that was kept has moved,
\* what it lacked has been added, and under Fail there was nothing to add.
Fits ==
  evolved.ok =>
    /\ IsPrefix(evolved.kept, current)
    /\ policy = "Fail" => ~Changed(current, evolved.source)
    /\ \A name \in DOMAIN FieldMap(evolved.source) :
         /\ name \in DOMAIN FieldMap(current)
         /\ IsBreaking(evolved.kept, evolved.source) \/
              ResolveType(FieldMap(current)[name]) = ResolveType(FieldMap(evolved.source)[name])

Evolution ==
  /\ policy \in Policies
  /\ IsSeq(current) /\ Distinct(current)
  /\ DOMAIN seen = DOMAIN FieldMap(current)
  /\ \A i \in DOMAIN current : /\ current[i] = seen[current[i].name]
                                /\ current[i].optional \in BOOLEAN \cup {Null}
  /\ Fits

LEMMA PrefixOf ==
  ASSUME NEW s, IsSeq(s), NEW t, IsSeq(t), Len(s) <= Len(t),
         \A i \in DOMAIN s : t[i] = s[i]
  PROVE  IsPrefix(s, t)
<1>1. Len(s) \in Nat /\ DOMAIN s = 1..Len(s)
  BY LenProperties DEF IsSeq
<1>2. SubSeq(s, 1, Len(s)) = [i \in 1..Len(s) |-> s[i]]
  BY <1>1 DEF SubSeq
<1>3. SubSeq(t, 1, Len(s)) = [i \in 1..Len(s) |-> t[i]]
  BY <1>1 DEF SubSeq
<1>4. QED
  BY <1>1, <1>2, <1>3 DEF IsPrefix

LEMMA EvolutionInit == Init => Evolution
<1> SUFFICES ASSUME Init
             PROVE  Evolution
  OBVIOUS
<1>1. /\ policy \in Policies /\ current \in Tables /\ seen = FieldMap(current)
      /\ evolved = [kept |-> current, source |-> current, ok |-> TRUE]
  BY DEF Init
<1>2. IsSeq(current) /\ Distinct(current)
  BY <1>1, TrackAssumption DEF IsSeq, Distinct, Names, IsInjective
<1>3. \A i \in DOMAIN current : current[i] = seen[current[i].name]
  BY <1>1, <1>2, MapOfDistinct
<1>4. \A i \in DOMAIN current : current[i].optional \in BOOLEAN \cup {Null}
  BY <1>1, TrackAssumption
<1>5. Fits
  <2>1. IsPrefix(current, current)
    <3>1. Len(current) <= Len(current)
      BY <1>2, LenProperties DEF IsSeq
    <3>2. QED
      BY <1>2, <3>1, PrefixOf
  <2>2. ~Changed(current, current)
    BY DEF Changed, Added, Removed, Retyped, Renulled, Common
  <2>3. QED
    BY <1>1, <2>1, <2>2 DEF Fits
<1>6. QED
  BY <1>1, <1>2, <1>3, <1>4, <1>5 DEF Evolution

\* A source announced: what is kept, and what is told of it, go on together.
LEMMA AnnounceKeeps ==
  ASSUME Evolution, Announce
  PROVE  Evolution'
<1>1. PICK source \in Tables : \E result \in Evolve(policy, current, source) :
        /\ evolved' = [kept |-> current, source |-> source, ok |-> result.ok]
        /\ current' = IF result.ok THEN result.fields ELSE current
        /\ seen' = IF result.ok THEN SeenWith(source) ELSE seen
        /\ policy' = policy
  BY DEF Announce
<1>2. PICK result \in Evolve(policy, current, source) :
        /\ evolved' = [kept |-> current, source |-> source, ok |-> result.ok]
        /\ current' = IF result.ok THEN result.fields ELSE current
        /\ seen' = IF result.ok THEN SeenWith(source) ELSE seen
        /\ policy' = policy
  BY <1>1
<1>3. IsSeq(source) /\ Distinct(source)
  BY TrackAssumption DEF IsSeq, Distinct, Names, IsInjective
<1>4. CASE ~result.ok
  BY <1>2, <1>4 DEF Evolution, Fits
<1>5. CASE result.ok
  <2> DEFINE s == FieldMap(source)
             o == FieldMap(current)
             new == result.fields
  <2>1. /\ current' = new /\ seen' = SeenWith(source)
        /\ evolved' = [kept |-> current, source |-> source, ok |-> result.ok]
    BY <1>2, <1>5
  <2>2. /\ IsSeq(new) /\ Distinct(new)
        /\ Len(current) \in Nat /\ DOMAIN current = 1..Len(current)
        /\ DOMAIN new = 1..Len(new)
        /\ Len(current) <= Len(new) /\ Len(new) \in Nat
        /\ \A i \in DOMAIN current : new[i] = current[i]
        /\ \A i \in DOMAIN new \ DOMAIN current :
              /\ new[i].name \in DOMAIN s \ DOMAIN o
              /\ new[i] = s[new[i].name]
        /\ DOMAIN FieldMap(new) = DOMAIN o \cup DOMAIN s
        /\ policy = "Fail" => new = current /\ ~Changed(current, source)
    <3>1. IsSeq(current) /\ Distinct(current)
      BY DEF Evolution
    <3>2. GoesOn(policy, current, source, result.fields)
      BY <1>3, <1>5, <3>1, EvolveGoesOn
    <3>3. QED
      BY <3>2 DEF GoesOn
  <2> HIDE DEF s, o, new
  <2>3. /\ DOMAIN seen' = DOMAIN o \cup DOMAIN s
        /\ \A name \in DOMAIN o : seen'[name] = seen[name]
        /\ \A name \in DOMAIN s \ DOMAIN o : seen'[name] = s[name]
    <3>1. seen' = [name \in DOMAIN seen \cup DOMAIN s |->
                     IF name \in DOMAIN seen THEN seen[name] ELSE s[name]]
      BY <2>1 DEF SeenWith, s
    <3>2. DOMAIN seen = DOMAIN o
      BY DEF Evolution, o
    <3>3. QED
      BY <3>1, <3>2
  <2>4. DOMAIN o = {current[i].name : i \in DOMAIN current}
    BY MapFacts DEF Evolution, o
  <2>5. ASSUME NEW i \in DOMAIN new
        PROVE  new[i] = seen'[new[i].name]
    <3>1. CASE i \in DOMAIN current
      <4>1. new[i] = current[i] /\ current[i].name \in DOMAIN o
        BY <2>2, <2>4, <3>1
      <4>2. current[i] = seen[current[i].name]
        BY <3>1 DEF Evolution
      <4>3. QED
        BY <2>3, <4>1, <4>2
    <3>2. CASE i \notin DOMAIN current
      BY <2>2, <2>3, <3>2
    <3>3. QED
      BY <3>1, <3>2
  <2>6. IsPrefix(current, new)
    BY <2>2, PrefixOf DEF Evolution
  <2>7. ASSUME NEW name \in DOMAIN s, ~IsBreaking(current, source)
        PROVE  /\ name \in DOMAIN FieldMap(new)
               /\ ResolveType(FieldMap(new)[name]) = ResolveType(s[name])
    <3>1. name \in DOMAIN FieldMap(new)
      BY <2>2
    <3>2. PICK i \in DOMAIN new : new[i].name = name /\ FieldMap(new)[name] = new[i]
      BY <2>2, <3>1, MapFacts
    <3>3. CASE i \in DOMAIN current
      <4>1. new[i] = current[i] /\ current[i].name = name
        BY <2>2, <3>2, <3>3
      <4>2. o[name] = current[i] /\ name \in DOMAIN o
        BY <2>4, <3>3, <4>1, MapOfDistinct DEF Evolution, o
      <4>3. ResolveType(o[name]) = ResolveType(s[name])
        BY <2>7, <4>2 DEF IsBreaking, Retyped, Common, o, s
      <4>4. QED
        BY <3>1, <3>2, <4>1, <4>2, <4>3
    <3>4. CASE i \notin DOMAIN current
      BY <2>2, <3>1, <3>2, <3>4
    <3>5. QED
      BY <3>3, <3>4
  <2>8. Fits'
    <3>1. policy = "Fail" => ~Changed(new, source)
      BY <2>2
    <3>2. \A name \in DOMAIN s : name \in DOMAIN FieldMap(new)
      BY <2>2
    <3>3. QED
      BY <1>2, <2>1, <2>6, <2>7, <3>1, <3>2 DEF Fits, s
  <2>9. ASSUME NEW i \in DOMAIN new
        PROVE  new[i].optional \in BOOLEAN \cup {Null}
    <3>1. CASE i \in DOMAIN current
      BY <2>2, <3>1 DEF Evolution
    <3>2. CASE i \notin DOMAIN current
      <4>1. new[i].name \in DOMAIN s /\ new[i] = s[new[i].name]
        BY <2>2, <3>2
      <4>2. PICK j \in DOMAIN source : s[new[i].name] = source[j]
        BY <1>3, <4>1, MapFacts DEF s
      <4>3. QED
        BY <4>1, <4>2, TrackAssumption
    <3>3. QED
      BY <3>1, <3>2
  <2>10. QED
    BY <1>2, <2>1, <2>2, <2>3, <2>5, <2>8, <2>9 DEF Evolution
<1>6. QED
  BY <1>4, <1>5

LEMMA EvolutionNext == Evolution /\ [Next]_vars => Evolution'
<1> SUFFICES ASSUME Evolution, [Next]_vars
             PROVE  Evolution'
  OBVIOUS
<1>1. ~Announce => UNCHANGED <<policy, current, seen, evolved>>
  BY DEF Next, Register, RegistryServes, Registered, RegisterFails, Publish, Read
<1>2. CASE UNCHANGED <<policy, current, seen, evolved>>
  BY <1>2 DEF Evolution, Fits
<1>3. QED
  BY <1>1, <1>2, AnnounceKeeps

LEMMA EvolutionHolds == Spec => []Evolution
BY EvolutionInit, EvolutionNext, PTL DEF Spec

\* The schema that is held was asked for, and a registration that is waited for is
\* one that was asked for.
Asked ==
  /\ IsSeq(asks) /\ waits \in BOOLEAN
  /\ net \subseteq DOMAIN asks
  /\ waits => asks # <<>>
  /\ held # Null => held.schema \in Range(asks)

LEMMA AskedHolds == Spec => []Asked
<1>1. Init => Asked
  <2> SUFFICES ASSUME Init
               PROVE  Asked
    OBVIOUS
  <2>1. asks = <<>> /\ net = {} /\ waits = FALSE /\ held = Null
    BY DEF Init
  <2>2. IsSeq(<<>>)
    BY DEF IsSeq
  <2>3. QED
    BY <2>1, <2>2 DEF Asked
<1>2. Asked /\ [Next]_vars => Asked'
  <2> SUFFICES ASSUME Asked, [Next]_vars
               PROVE  Asked'
    OBVIOUS
  <2>1. CASE Register
    <3>1. PICK schema : asks' = Append(asks, schema)
      BY <2>1 DEF Register
    <3>2. net' = net \cup {Len(asks) + 1} /\ waits' = TRUE /\ held' = held
      BY <2>1 DEF Register
    <3>3. /\ IsSeq(asks') /\ Len(asks) \in Nat /\ DOMAIN asks = 1..Len(asks)
          /\ DOMAIN asks' = 1..(Len(asks) + 1)
          /\ \A i \in DOMAIN asks : asks'[i] = asks[i]
      BY <3>1, AppendAny DEF Asked
    <3>4. asks' # <<>> /\ net' \subseteq DOMAIN asks' /\ Range(asks) \subseteq Range(asks')
      BY <3>2, <3>3 DEF Asked, Range
    <3>5. QED
      BY <3>2, <3>3, <3>4 DEF Asked
  <2>2. CASE Registered
    <3>1. /\ waits /\ waits' = FALSE /\ UNCHANGED <<asks, net>>
          /\ held' = IF reply.success THEN [id |-> reply.id, schema |-> asks[Len(asks)]] ELSE held
      BY <2>2 DEF Registered
    <3>2. asks[Len(asks)] \in Range(asks)
      BY <3>1, LenProperties DEF Asked, IsSeq, Range
    <3>3. QED
      BY <3>1, <3>2 DEF Asked
  <2>3. CASE RegistryServes
    BY <2>3 DEF RegistryServes, Asked
  <2>4. CASE RegisterFails
    BY <2>4 DEF RegisterFails, Asked
  <2>5. CASE Announce \/ Publish \/ Read \/ UNCHANGED vars
    BY <2>5 DEF Announce, Publish, Read, Asked
  <2>6. QED
    BY <2>1, <2>2, <2>3, <2>4, <2>5 DEF Next
<1>3. QED
  BY <1>1, <1>2, PTL DEF Spec

\* Every variable keeps its type: the names of the columns differ, each has been
\* seen, and the schema held is one that was asked for.
THEOREM TrackTypeCorrect == Spec => []TypeOK
<1>1. Evolution /\ Asked => TypeOK
  <2> SUFFICES ASSUME Evolution, Asked
               PROVE  TypeOK
    OBVIOUS
  <2>1. IsInjective(Names(current))
    BY DEF Evolution, Distinct, Names, IsInjective
  <2>2. Range(Names(current)) = {current[i].name : i \in DOMAIN current}
    BY DEF Names, Range
  <2>3. DOMAIN seen = Range(Names(current))
    BY <2>2, MapFacts DEF Evolution
  <2>4. QED
    BY <2>1, <2>3 DEF Evolution, Asked, TypeOK
<1>2. QED
  BY <1>1, EvolutionHolds, AskedHolds, PTL

\* Whatever is announced, in whatever order and under whatever policy, a column stays
\* in its place as it was when it was first announced (SchemaEvolution::evolve).
THEOREM ColumnsStay == Spec => []FirstSightWins
<1>1. Evolution => FirstSightWins
  BY DEF Evolution, Fits, FirstSightWins
<1>2. QED
  BY <1>1, EvolutionHolds, PTL

\* Ok from evolve says that the schema fits what was announced, as far as the policy
\* promises it (SchemaEvolution::diff and evolve).
THEOREM OkMeansFit == Spec => []OkFits
<1>1. Evolution => OkFits
  BY DEF Evolution, Fits, OkFits
<1>2. QED
  BY <1>1, EvolutionHolds, PTL

-----------------------------------------------------------------------------
(* The forms of a schema.                                                   *)

\* There and back again: what Arrow can tell apart comes back, and no more.
LEMMA ArrowTypeBack ==
  ASSUME NEW type, NEW params
  PROVE  LET arrow == ToArrowType(type, params)
             back  == FromArrowType(arrow)
         IN  /\ arrow[1] = "Decimal128" <=> type = "decimal"
             /\ type = "decimal" =>
                  back = "decimal" /\ arrow[2] \in 0..255 /\ arrow[3] \in -128..127
             /\ type # "decimal" => back # "decimal" /\ \A p : ToArrowType(back, p) = arrow
             /\ type \in Kept => back = type
<1> DEFINE arrow == ToArrowType(type, params)
           back  == FromArrowType(arrow)
<1>1. "decimal" \notin DOMAIN ArrowTypes
  BY DEF ArrowTypes
<1>2. CASE type = "decimal"
  <2>1. arrow = <<"Decimal128", Precision(params), Scale(params)>>
    BY <1>1, <1>2 DEF ToArrowType
  <2>2. Precision(params) \in 0..255 /\ Scale(params) \in -128..127
    BY DEF Precision, Scale
  <2> HIDE DEF arrow
  <2>3. back = "decimal"
    BY <2>1 DEF FromArrowType
  <2>4. QED
    BY <1>2, <2>1, <2>2, <2>3 DEF arrow
<1>3. CASE type \in DOMAIN ArrowTypes
  <2>1. type # "decimal" /\ arrow = ArrowTypes[type]
    BY <1>3 DEF ToArrowType, ArrowTypes
  <2>2. /\ arrow[1] # "Decimal128" /\ arrow # <<"Utf8">>
        /\ arrow = <<"Timestamp", "us">> => type \in {"timestamp", "microtimestamp"}
        /\ arrow = <<"Time64", "us">> => type \in {"time", "microtime"}
    BY <1>3, <2>1 DEF ArrowTypes
  <2> HIDE DEF arrow
  <2>3. CASE arrow \in {<<"Timestamp", "us">>, <<"Time64", "us">>}
    <3>1. back \in {"microtimestamp", "microtime"} /\ ArrowTypes[back] = arrow
      BY <2>3 DEF FromArrowType, ArrowTypes
    <3>2. type \in Kept => back = type
      BY <2>2, <2>3, <3>1 DEF Kept, ArrowTypes
    <3>3. QED
      BY <2>1, <2>2, <3>1, <3>2 DEF arrow, ToArrowType, ArrowTypes
  <2>4. CASE arrow \notin {<<"Timestamp", "us">>, <<"Time64", "us">>}
    <3>1. back = CHOOSE name \in DOMAIN ArrowTypes : ArrowTypes[name] = arrow
      BY <2>2, <2>4 DEF FromArrowType
    <3>2. back \in DOMAIN ArrowTypes /\ ArrowTypes[back] = arrow
      BY <1>3, <2>1, <3>1
    <3>3. back = type
      BY <1>3, <2>1, <2>4, <3>2 DEF ArrowTypes
    <3>4. QED
      BY <2>1, <2>2, <3>2, <3>3 DEF arrow, ToArrowType
  <2>5. QED
    BY <2>3, <2>4
<1>4. CASE type \notin DOMAIN ArrowTypes /\ type # "decimal"
  <2>1. arrow = <<"Utf8">>
    BY <1>4 DEF ToArrowType
  <2> HIDE DEF arrow
  <2>2. back = "string"
    BY <2>1 DEF FromArrowType
  <2>3. type \in Kept => type = "string"
    BY <1>4 DEF Kept
  <2>4. \A p : ToArrowType("string", p) = <<"Utf8">>
    BY DEF ToArrowType, ArrowTypes
  <2>5. QED
    BY <1>4, <2>1, <2>2, <2>3, <2>4 DEF arrow
<1>5. QED
  BY <1>2, <1>3, <1>4

\* A field that goes through Arrow comes back with its name and its doc, and with its
\* type when Arrow keeps it; what came back makes the same Arrow field again, so that
\* nothing more is lost however often it is converted.
THEOREM FieldBack ==
  ASSUME NEW field, field.optional \in BOOLEAN \cup {Null}
  PROVE  LET arrow == ToArrow(field)
             back  == FromArrow(arrow)
         IN  /\ ToArrow(back) = arrow
             /\ back.name = field.name /\ back.doc = field.doc
             /\ ResolveType(field) \in Kept => ResolveType(back) = ResolveType(field)
<1> DEFINE type  == ResolveType(field)
           arrow == ToArrow(field)
           back  == FromArrow(arrow)
<1>1. arrow = [name |-> field.name, type |-> ToArrowType(type, field.params),
               nullable |-> OrElse(field.optional, TRUE), doc |-> field.doc]
  BY DEF ToArrow
<1>2. arrow.nullable \in BOOLEAN /\ arrow.nullable # Null
  <2>1. arrow.nullable = OrElse(field.optional, TRUE)
    BY <1>1
  <2>2. Null \notin BOOLEAN
    BY NullAssumption
  <2> HIDE DEF arrow
  <2>3. CASE field.optional = Null
    <3>1. arrow.nullable = TRUE
      BY <2>1, <2>3, Zenon DEF OrElse
    <3>2. QED
      BY <2>2, <3>1, Zenon
  <2>4. CASE field.optional # Null
    <3>1. arrow.nullable = field.optional
      BY <2>1, <2>4, Zenon DEF OrElse
    <3>2. field.optional \in BOOLEAN
      BY <2>4
    <3>3. QED
      BY <2>2, <3>1, <3>2, Zenon
  <2>5. QED
    BY <2>3, <2>4
<1> HIDE DEF arrow
<1>3. /\ back.name = arrow.name /\ back.types = <<FromArrowType(arrow.type)>>
      /\ back.optional = arrow.nullable /\ back.doc = arrow.doc
      /\ back.params = IF arrow.type[1] = "Decimal128"
                       THEN [precision |-> arrow.type[2], scale |-> arrow.type[3]] ELSE Null
  <2> DEFINE params == IF arrow.type[1] = "Decimal128"
                       THEN [precision |-> arrow.type[2], scale |-> arrow.type[3]] ELSE Null
  <2>1. back = [NewField(arrow.name, FromArrowType(arrow.type)) EXCEPT
                  !.optional = arrow.nullable, !.doc = arrow.doc, !.params = params]
    BY DEF FromArrow
  <2> HIDE DEF back, params
  <2>2. QED
    BY <2>1 DEF NewField, params
<1> HIDE DEF back
<1>4. ResolveType(back) = FromArrowType(arrow.type)
  <2>1. back.types = <<FromArrowType(arrow.type)>>
    BY <1>3
  <2>2. QED
    BY <2>1 DEF ResolveType
<1>5. ToArrow(back).nullable = arrow.nullable
  BY <1>2, <1>3 DEF ToArrow, OrElse
<1>6. ToArrowType(FromArrowType(arrow.type), back.params) = arrow.type
  <2>1. CASE type = "decimal"
    <3>1. /\ arrow.type[1] = "Decimal128"
          /\ FromArrowType(arrow.type) = "decimal"
          /\ arrow.type[2] \in 0..255 /\ arrow.type[3] \in -128..127
      BY <1>1, <2>1, ArrowTypeBack
    <3>2. back.params = [precision |-> arrow.type[2], scale |-> arrow.type[3]]
      BY <1>3, <3>1
    <3>3. arrow.type = <<"Decimal128", arrow.type[2], arrow.type[3]>>
      <4>1. "decimal" \notin DOMAIN ArrowTypes
        BY DEF ArrowTypes
      <4>2. arrow.type = <<"Decimal128", Precision(field.params), Scale(field.params)>>
        BY <1>1, <2>1, <4>1 DEF ToArrowType
      <4>3. QED
        BY <4>2
    <3>4. "decimal" \notin DOMAIN ArrowTypes
      BY DEF ArrowTypes
    <3>5. back.params # Null
      BY <3>1, <3>2, NullAssumption
    <3>6. Precision(back.params) = arrow.type[2] /\ Scale(back.params) = arrow.type[3]
      BY <3>1, <3>2, <3>5 DEF Precision, Scale
    <3>7. QED
      BY <3>1, <3>6, <3>3, <3>4 DEF ToArrowType
  <2>2. CASE type # "decimal"
    BY <1>1, <2>2, ArrowTypeBack
  <2>3. QED
    BY <2>1, <2>2
<1>7. ToArrow(back) = arrow
  <2>1. ToArrow(back) = [name |-> back.name, type |-> arrow.type,
                         nullable |-> arrow.nullable, doc |-> back.doc]
    BY <1>4, <1>5, <1>6 DEF ToArrow
  <2>2. back.name = arrow.name /\ back.doc = arrow.doc
    BY <1>3
  <2>3. QED
    BY <1>1, <2>1, <2>2
<1>8. type \in Kept => ResolveType(back) = type
  BY <1>1, <1>4, ArrowTypeBack
<1>9. QED
  BY <1>1, <1>3, <1>7, <1>8 DEF arrow, back

\* diff sees a name, a type and a flag: fields that agree in these look unchanged.
LEMMA SameFaces ==
  ASSUME NEW s, IsSeq(s), NEW t, IsSeq(t), DOMAIN s = DOMAIN t,
         \A i \in DOMAIN s : /\ s[i].name = t[i].name /\ s[i].optional = t[i].optional
                             /\ ResolveType(s[i]) = ResolveType(t[i])
  PROVE  ~Changed(s, t)
<1> DEFINE at(name) == {i \in DOMAIN s : s[i].name = name}
<1>1. DOMAIN FieldMap(s) = DOMAIN FieldMap(t)
  <2>1. DOMAIN FieldMap(s) = {s[i].name : i \in DOMAIN s}
    BY MapFacts
  <2>2. DOMAIN FieldMap(t) = {t[i].name : i \in DOMAIN t}
    BY MapFacts
  <2>3. QED
    BY <2>1, <2>2
<1>2. ASSUME NEW name \in DOMAIN FieldMap(s)
      PROVE  /\ FieldMap(s)[name].optional = FieldMap(t)[name].optional
             /\ ResolveType(FieldMap(s)[name]) = ResolveType(FieldMap(t)[name])
  <2>1. at(name) = {i \in DOMAIN t : t[i].name = name}
    OBVIOUS
  <2>2. Max(at(name)) \in DOMAIN s
    <3>1. Len(s) \in Nat /\ DOMAIN s = 1..Len(s)
      BY LenProperties DEF IsSeq
    <3>2. \E i \in DOMAIN s : s[i].name = name
      BY <1>2, MapFacts
    <3>3. at(name) \in SUBSET (0..Len(s)) /\ at(name) # {}
      BY <3>1, <3>2
    <3>4. Max(at(name)) \in at(name)
      <4> HIDE DEF at
      <4>1. QED
        BY <3>1, <3>3, GreatestNumber
    <3>5. QED
      BY <3>4
  <2>3. FieldMap(s)[name] = s[Max(at(name))]
    BY <1>2, MapFacts DEF FieldMap
  <2>4. FieldMap(t)[name] = t[Max(at(name))]
    BY <1>1, <1>2, <2>1, MapFacts DEF FieldMap
  <2> HIDE DEF at
  <2>5. QED
    BY <2>2, <2>3, <2>4
<1>3. QED
  BY <1>1, <1>2 DEF Changed, Added, Removed, Retyped, Renulled, Common

\* What diff sees of a field, however it was made.
Face(field, name, type, optional) ==
  /\ {"optional", "title", "fields", "types", "name"} \subseteq DOMAIN field
  /\ field.name = name /\ field.types = <<type>> /\ field.optional = optional

SameFace(f, g) == f.name = g.name /\ f.types = g.types /\ f.optional = g.optional

LEMMA NewFace ==
  \A name, type : Face(NewField(name, type), name, type, Null)
BY DEF NewField, Face

LEMMA OptionalFace ==
  ASSUME NEW field, NEW name, NEW type, NEW optional, Face(field, name, type, optional)
  PROVE  Face(Optional(field), name, type, TRUE)
BY DEF Face, Optional

LEMMA NamedFace ==
  ASSUME NEW field, NEW name, NEW type, NEW optional, Face(field, name, type, optional), NEW title
  PROVE  Face(Named(field, title), name, type, optional)
BY DEF Face, Named

LEMMA StructFace ==
  \A name, fields : Face(StructField(name, fields), name, "struct", Null)
BY NewFace DEF Face, StructField

LEMMA ImageFace ==
  \A name, title, columns : Face(Image(name, title, columns), name, "struct", TRUE)
BY StructFace, NamedFace, OptionalFace DEF Image

\* What is around the columns is the same for whatever columns.
LEMMA AroundFaces ==
  ASSUME NEW connector, NEW source, NEW title, NEW a, NEW b
  PROVE  LET s == AroundColumns(connector, source, title, a)
             t == AroundColumns(connector, source, title, b)
         IN  /\ IsSeq(s) /\ DOMAIN s = 1..5 /\ IsSeq(t) /\ DOMAIN t = 1..5
             /\ \A i \in 1..5 : SameFace(s[i], t[i])
<1> DEFINE s == AroundColumns(connector, source, title, a)
           t == AroundColumns(connector, source, title, b)
<1>1. ASSUME NEW five, \E u, v, w, x, y : five = << u, v, w, x, y >>
      PROVE  IsSeq(five) /\ DOMAIN five = 1..5
  <2>1. PICK u, v, w, x, y : five = << u, v, w, x, y >>
    BY <1>1
  <2>2. five \in Seq({u, v, w, x, y}) /\ Len(five) = 5
    BY <2>1
  <2>3. DOMAIN five = 1..5
    BY <2>2, LenProperties
  <2>4. \A i \in 1..5 : five[i] \in Range(five)
    BY <2>3 DEF Range
  <2>5. Len(five) \in Nat /\ five \in [1..Len(five) -> Range(five)]
    BY <2>2, <2>3, <2>4
  <2>6. five \in Seq(Range(five))
    BY <2>5
  <2>7. QED
    BY <2>3, <2>6 DEF IsSeq
<1>2. IsSeq(s) /\ DOMAIN s = 1..5
  BY <1>1 DEF AroundColumns
<1>3. IsSeq(t) /\ DOMAIN t = 1..5
  BY <1>1 DEF AroundColumns
<1>4. /\ s[1] = Image("before", title, a) /\ t[1] = Image("before", title, b)
      /\ s[2] = Image("after", title, a) /\ t[2] = Image("after", title, b)
      /\ s[3] = t[3] /\ s[4] = t[4] /\ s[5] = t[5]
  BY DEF AroundColumns
<1> HIDE DEF s, t
<1>5. SameFace(s[1], t[1]) /\ SameFace(s[2], t[2])
  <2>1. /\ Face(s[1], "before", "struct", TRUE) /\ Face(t[1], "before", "struct", TRUE)
        /\ Face(s[2], "after", "struct", TRUE) /\ Face(t[2], "after", "struct", TRUE)
    BY <1>4, ImageFace
  <2>2. QED
    BY <2>1 DEF Face, SameFace
<1>6. SameFace(s[3], t[3]) /\ SameFace(s[4], t[4]) /\ SameFace(s[5], t[5])
  BY <1>4 DEF SameFace
<1>7. \A i \in 1..5 : SameFace(s[i], t[i])
  BY <1>5, <1>6
<1>8. QED
  BY <1>2, <1>3, <1>7 DEF s, t

\* A field behind five others.
LEMMA AppendedFive ==
  ASSUME NEW five, IsSeq(five), Len(five) = 5, NEW last
  PROVE  /\ IsSeq(Append(five, last)) /\ DOMAIN Append(five, last) = 1..6
         /\ Append(five, last)[6] = last
         /\ \A i \in 1..5 : Append(five, last)[i] = five[i]
<1> DEFINE six == Append(five, last)
<1>1. IsSeq(six)
  BY AppendAny
<1>2. DOMAIN five = 1..Len(five) /\ DOMAIN six = 1..(Len(five) + 1)
  BY AppendAny
<1>3. six[Len(five) + 1] = last
  BY AppendAny
<1>4. \A i \in DOMAIN five : six[i] = five[i]
  BY AppendAny
<1> HIDE DEF six
<1>5. DOMAIN five = 1..5 /\ Len(five) + 1 = 6
  BY <1>2
<1>6. DOMAIN six = 1..6 /\ six[6] = last
  BY <1>2, <1>3, <1>5
<1>7. \A i \in 1..5 : six[i] = five[i]
  BY <1>4, <1>5
<1>8. QED
  BY <1>1, <1>6, <1>7 DEF six

\* Every envelope wears the same face around whatever columns.
LEMMA EnvelopeFaces ==
  ASSUME NEW connector, NEW title, NEW a, NEW b
  PROVE  /\ ~Changed(ArrowEnvelope(title, a), ArrowEnvelope(title, b))
         /\ ~Changed(EnvelopeFields(connector, title, a), EnvelopeFields(connector, title, b))
         /\ ~Changed(BuiltEnvelope(connector, title, a), BuiltEnvelope(connector, title, b))
<1>1. ASSUME NEW six, \E u, v, w, x, y, z : six = << u, v, w, x, y, z >>
      PROVE  IsSeq(six) /\ DOMAIN six = 1..6
  <2>1. PICK u, v, w, x, y, z : six = << u, v, w, x, y, z >>
    BY <1>1
  <2>2. six \in Seq({u, v, w, x, y, z}) /\ Len(six) = 6
    BY <2>1
  <2>3. DOMAIN six = 1..6
    BY <2>2, LenProperties
  <2>4. \A i \in 1..6 : six[i] \in Range(six)
    BY <2>3 DEF Range
  <2>5. Len(six) \in Nat /\ six \in [1..Len(six) -> Range(six)]
    BY <2>2, <2>3, <2>4
  <2>6. six \in Seq(Range(six))
    BY <2>5
  <2>7. QED
    BY <2>3, <2>6 DEF IsSeq
<1>2. ~Changed(EnvelopeFields(connector, title, a), EnvelopeFields(connector, title, b))
  <2> DEFINE source == SourceFields(<< "file", "pos", "gtid", "resume_token" >>)
             last   == Named(TransactionField, Append(title, "Envelope"))
             s5 == AroundColumns(connector, source, title, a)
             t5 == AroundColumns(connector, source, title, b)
             s  == Append(s5, last)
             t  == Append(t5, last)
  <2>1. /\ IsSeq(s5) /\ DOMAIN s5 = 1..5 /\ IsSeq(t5) /\ DOMAIN t5 = 1..5
        /\ \A i \in 1..5 : SameFace(s5[i], t5[i])
    <3> HIDE DEF source
    <3>1. QED
      BY AroundFaces
  <2>2. EnvelopeFields(connector, title, a) = s /\ EnvelopeFields(connector, title, b) = t
    BY DEF EnvelopeFields
  <2> HIDE DEF source, last, s5, t5
  <2>3. /\ IsSeq(s) /\ DOMAIN s = 1..6 /\ s[6] = last
        /\ \A i \in 1..5 : s[i] = s5[i]
    BY <2>1, AppendedFive
  <2>4. /\ IsSeq(t) /\ DOMAIN t = 1..6 /\ t[6] = last
        /\ \A i \in 1..5 : t[i] = t5[i]
    BY <2>1, AppendedFive
  <2> HIDE DEF s, t
  <2>5. \A i \in 1..6 : SameFace(s[i], t[i])
    <3>1. SameFace(s[6], t[6])
      BY <2>3, <2>4 DEF SameFace
    <3>2. \A i \in 1..5 : SameFace(s[i], t[i])
      BY <2>1, <2>3, <2>4
    <3>3. QED
      BY <3>1, <3>2
  <2>6. ~Changed(s, t)
    BY <2>3, <2>4, <2>5, SameFaces DEF SameFace, ResolveType
  <2>7. QED
    BY <2>2, <2>6
<1>3. ~Changed(BuiltEnvelope(connector, title, a), BuiltEnvelope(connector, title, b))
  <2> DEFINE s == BuiltEnvelope(connector, title, a)
             t == BuiltEnvelope(connector, title, b)
  <2>1. IsSeq(s) /\ DOMAIN s = 1..6
    BY <1>1 DEF BuiltEnvelope
  <2>2. IsSeq(t) /\ DOMAIN t = 1..6
    BY <1>1 DEF BuiltEnvelope
  <2>3. ASSUME NEW name, NEW columns
        PROVE  Face(Optional(Named(StructField(name, columns), title)), name, "struct", TRUE)
    BY StructFace, NamedFace, OptionalFace
  <2>4. \A i \in 1..6 : SameFace(s[i], t[i])
    <3>1. /\ s[1] = Optional(Named(StructField("before", a), title))
          /\ t[1] = Optional(Named(StructField("before", b), title))
          /\ s[2] = Optional(Named(StructField("after", a), title))
          /\ t[2] = Optional(Named(StructField("after", b), title))
          /\ s[3] = t[3] /\ s[4] = t[4] /\ s[5] = t[5] /\ s[6] = t[6]
      BY DEF BuiltEnvelope
    <3> HIDE DEF s, t
    <3>2. /\ Face(s[1], "before", "struct", TRUE) /\ Face(t[1], "before", "struct", TRUE)
          /\ Face(s[2], "after", "struct", TRUE) /\ Face(t[2], "after", "struct", TRUE)
      BY <2>3, <3>1
    <3>3. SameFace(s[1], t[1]) /\ SameFace(s[2], t[2])
      BY <3>2 DEF Face, SameFace
    <3>4. SameFace(s[3], t[3]) /\ SameFace(s[4], t[4])
          /\ SameFace(s[5], t[5]) /\ SameFace(s[6], t[6])
      BY <3>1 DEF SameFace
    <3>5. QED
      BY <3>3, <3>4
  <2> HIDE DEF s, t
  <2>5. QED
    BY <2>1, <2>2, <2>4, SameFaces DEF SameFace, ResolveType, s, t
<1>4. ~Changed(ArrowEnvelope(title, a), ArrowEnvelope(title, b))
  <2> DEFINE s == AroundColumns(Head(title), ArrowSource, title, a)
             t == AroundColumns(Head(title), ArrowSource, title, b)
  <2>1. /\ IsSeq(s) /\ DOMAIN s = 1..5 /\ IsSeq(t) /\ DOMAIN t = 1..5
        /\ \A i \in 1..5 : SameFace(s[i], t[i])
    BY AroundFaces
  <2>2. ArrowEnvelope(title, a) = s /\ ArrowEnvelope(title, b) = t
    BY DEF ArrowEnvelope
  <2> HIDE DEF s, t
  <2>3. ~Changed(s, t)
    BY <2>1, SameFaces DEF SameFace, ResolveType
  <2>4. QED
    BY <2>2, <2>3
<1>5. QED
  BY <1>2, <1>3, <1>4

\* Whatever the schema has become, Arrow brings back what it can hold, Avro and Arrow
\* agree on what may be null, and no envelope lets a change of the columns be
\* seen (SchemaBridge, convert_field_to_avro, make_envelope_schema,
\* build_envelope_schema, SchemaBuilder).
THEOREM FormsStayTrue == Spec => []FormsAgree
<1>1. Evolution => FormsAgree
  <2> SUFFICES ASSUME Evolution
               PROVE  FormsAgree
    OBVIOUS
  <2>1. \A i \in DOMAIN current : current[i].optional \in BOOLEAN \cup {Null}
    BY DEF Evolution
  <2>2. ArrowBack
    <3> DEFINE arrow == DebeziumToArrow(current)
               back  == ArrowToDebezium(arrow)
    <3>1. /\ arrow = [i \in DOMAIN current |-> ToArrow(current[i])]
          /\ back = [i \in DOMAIN current |-> FromArrow(ToArrow(current[i]))]
      BY DEF DebeziumToArrow, ArrowToDebezium
    <3>2. DebeziumToArrow(back) = [i \in DOMAIN current |-> ToArrow(FromArrow(ToArrow(current[i])))]
      BY <3>1 DEF DebeziumToArrow
    <3> HIDE DEF arrow, back
    <3>3. DebeziumToArrow(back) = arrow
      BY <2>1, <3>1, <3>2, FieldBack
    <3>4. \A i \in DOMAIN current :
            /\ back[i].name = current[i].name /\ back[i].doc = current[i].doc
            /\ ResolveType(current[i]) \in Kept => ResolveType(back[i]) = ResolveType(current[i])
      BY <2>1, <3>1, FieldBack
    <3>5. QED
      BY <3>3, <3>4 DEF ArrowBack, arrow, back
  <2>3. AvroAgrees
    <3> DEFINE avro == ToAvro(current)
    <3>1. avro.ok => avro.fields = AvroOf(current)
      BY DEF ToAvro
    <3>2. ASSUME NEW i \in DOMAIN current
          PROVE  LET entry == AvroOf(current)[i]
                     some  == OrElse(current[i].optional, FALSE)
                 IN  /\ entry.union <=> some
                     /\ entry.union \in BOOLEAN
                     /\ ~some => entry.field = current[i].name
      BY <2>1, NullAssumption DEF AvroOf, AvroEntry, OrElse
    <3>3. ASSUME NEW i \in DOMAIN current, current[i].optional # Null
          PROVE  /\ ToArrow(current[i]).nullable = current[i].optional
                 /\ OrElse(current[i].optional, FALSE) = current[i].optional
                 /\ current[i].optional \in BOOLEAN
      BY <2>1, <3>3 DEF ToArrow, OrElse
    <3> HIDE DEF avro
    <3>4. QED
      BY <3>1, <3>2, <3>3 DEF AvroAgrees, avro
  <2>4. EnvelopeHides
    BY EnvelopeFaces DEF EnvelopeHides
  <2>5. QED
    BY <2>2, <2>3, <2>4 DEF FormsAgree
<1>2. QED
  BY <1>1, EvolutionHolds, PTL

=============================================================================
