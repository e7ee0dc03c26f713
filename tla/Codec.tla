------------------------------- MODULE Codec -------------------------------
(***************************************************************************)
(* The codec of everything that is stored, hashed or sent                  *)
(* (pkg/serialization/codec/jam): marshal and unmarshal over the kinds of  *)
(* Go types the repository encodes.                                        *)
(*                                                                         *)
(* Data abstraction.  A byte has ByteBits bits and the widest natural      *)
(* ByteBits bytes, where the code has 8 and 8: every threshold of the      *)
(* general natural is stated in terms of that one number.  A type is a     *)
(* record whose kind is one of                                             *)
(*   uint; fixed (width and encoded length); bool; bytes; key (a public    *)
(*   key); ptr, slice, array and map of types; struct; enum; none (an      *)
(*   alternative of an enum that carries no value).                        *)
(* A pointer is a sequence of at most one value, an enum its index and a   *)
(* value, a map a function.  Signed integers and bit sequences, which the  *)
(* repository only decodes, are left out.                                  *)
(***************************************************************************)
EXTENDS Integers, Sequences, FiniteSets

LOCAL INSTANCE FiniteSetsExt
LOCAL INSTANCE SequencesExt

CONSTANTS
    ByteBits,  \* bits of a byte, and bytes of a uint64
    KeySize,   \* crypto.Ed25519PublicSize
    Samples,   \* types with a value each
    Tails      \* what may follow a value in the same message

ASSUME CodecAssumption == ByteBits \in Nat \ {0, 1} /\ KeySize \in Nat

VARIABLES
    sample,   \* the type and the value that travels
    message,  \* its encoding, followed by the rest of the message
    tail,
    decoded   \* the outcomes of unmarshal: none or one

codecVars == <<sample, message, tail, decoded>>

Got(v, s) == [ok |-> TRUE, value |-> v, rest |-> s]
Refused == [ok |-> FALSE, value |-> <<>>, rest |-> <<>>]
Field(t, n) == [i \in 1..n |-> t]
-----------------------------------------------------------------------------
(* Natural numbers.                                                        *)

serializeTrivialNatural(x, l) ==
    [i \in 1..l |-> (x \div 2^(ByteBits * (i - 1))) % 2^ByteBits]

deserializeTrivialNatural(s) ==
    MapThenSumSet(LAMBDA i : s[i] * 2^(ByteBits * (i - 1)), DOMAIN s)

\* Mutant: a number at the threshold is taken to fit.
serializeUint64_Boundary(x) ==
    LET l == Min({k \in 0..(ByteBits - 1) : x <= 2^((ByteBits - 1) * (k + 1))} \cup {ByteBits})
        prefix == IF l < ByteBits
                  THEN (2^ByteBits - 2^(ByteBits - l) + (x \div 2^(ByteBits * l))) % 2^ByteBits
                  ELSE 2^ByteBits - 1
    IN  <<prefix>> \o serializeTrivialNatural(x, l)

\* As many leading ones in the prefix as bytes follow; the rest of the prefix
\* holds the highest bits.
serializeUint64(x) ==
    LET l == Min({k \in 0..(ByteBits - 1) : x < 2^((ByteBits - 1) * (k + 1))} \cup {ByteBits})
        prefix == IF l < ByteBits
                  THEN (2^ByteBits - 2^(ByteBits - l) + (x \div 2^(ByteBits * l))) % 2^ByteBits
                  ELSE 2^ByteBits - 1
    IN  <<prefix>> \o serializeTrivialNatural(x, l)

LeadingOnes(prefix) == Max({l \in 0..ByteBits : prefix >= 2^ByteBits - 2^(ByteBits - l)})

deserializeUint64WithLength(prefix, s, l) ==
    IF l = ByteBits THEN deserializeTrivialNatural(s)
    ELSE deserializeTrivialNatural(s) + (prefix % 2^(ByteBits - l)) * 2^(ByteBits * l)

-----------------------------------------------------------------------------
(* Reading.                                                                *)

\* bytes.Buffer.Read: an error only where nothing is left; a short read leaves
\* the end of the caller's slice zero.
Read(n, s) ==
    IF n > 0 /\ s = <<>> THEN Refused
    ELSE Got([i \in 1..n |-> IF i <= Len(s) THEN s[i] ELSE 0], SubSeq(s, n + 1, Len(s)))

ReadFull(n, s) == IF Len(s) < n THEN Refused ELSE Read(n, s)

\* A first step that was refused refuses the whole.
Then(first, next(_, _)) == IF first.ok THEN next(first.value, first.rest) ELSE Refused

decodeUint(s) ==
    Then(Read(1, s), LAMBDA p, r :
        LET l == LeadingOnes(p[1])
        IN  Then(Read(l, r), LAMBDA v, q : Got(deserializeUint64WithLength(p[1], v, l), q)))

decodeFixedWidth(t, s) ==
    Then(Read(t.length, s), LAMBDA v, r :
        Got(deserializeTrivialNatural(v) % 2^(ByteBits * t.width), r))

decodeBool(s) ==
    Then(Read(1, s), LAMBDA v, r : IF v[1] \in {0, 1} THEN Got(v[1] = 1, r) ELSE Refused)

decodeBytes(s) == Then(decodeUint(s), LAMBDA n, r : Read(n, r))

RECURSIVE unmarshal(_, _)
RECURSIVE unmarshalAll(_, _)

\* Values of the types ts, one after the other.
unmarshalAll(ts, s) ==
    IF ts = <<>> THEN Got(<<>>, s)
    ELSE Then(unmarshal(Head(ts), s), LAMBDA v, r :
            Then(unmarshalAll(Tail(ts), r), LAMBDA w, q : Got(<<v>> \o w, q)))

decodePointer(t, s) ==
    Then(Read(1, s), LAMBDA m, r :
        CASE m[1] = 0 -> Got(<<>>, r)
          [] m[1] = 1 -> Then(unmarshal(t.of, r), LAMBDA v, q : Got(<<v>>, q))
          [] OTHER -> Refused)

decodeSlice(t, s) == Then(decodeUint(s), LAMBDA n, r : unmarshalAll(Field(t.of, n), r))

decodeArray(t, s) == unmarshalAll(Field(t.of, t.size), s)

decodeStruct(t, s) == unmarshalAll(t.fields, s)

Pair(t) == [kind |-> "struct", fields |-> <<t.key, t.of>>]

\* A key that comes twice keeps its last value.
decodeMap(t, s) ==
    Then(decodeSlice([kind |-> "slice", of |-> Pair(t)], s), LAMBDA ps, r :
        Got([k \in {p[1] : p \in Range(ps)} |->
                ps[Max({i \in DOMAIN ps : ps[i][1] = k})][2]], r))

decodeEnum(t, s) ==
    Then(Read(1, s), LAMBDA b, r :
        IF b[1] >= Len(t.choices) THEN Refused
        ELSE IF t.choices[b[1] + 1].kind = "none" THEN Got(<<b[1]>>, r)
        ELSE Then(unmarshal(t.choices[b[1] + 1], r), LAMBDA v, q : Got(<<b[1], v>>, q)))

unmarshal(t, s) ==
    CASE t.kind = "uint"   -> decodeUint(s)
      [] t.kind = "fixed"  -> decodeFixedWidth(t, s)
      [] t.kind = "bool"   -> decodeBool(s)
      [] t.kind = "bytes"  -> decodeBytes(s)
      [] t.kind = "key"    -> ReadFull(KeySize, s)
      [] t.kind = "ptr"    -> decodePointer(t, s)
      [] t.kind = "slice"  -> decodeSlice(t, s)
      [] t.kind = "array"  -> decodeArray(t, s)
      [] t.kind = "struct" -> decodeStruct(t, s)
      [] t.kind = "map"    -> decodeMap(t, s)
      [] t.kind = "enum"   -> decodeEnum(t, s)

-----------------------------------------------------------------------------
(* Writing.                                                                *)

RECURSIVE marshal(_, _)

marshalAll(ts, vs) == FlattenSeq([i \in DOMAIN ts |-> marshal(ts[i], vs[i])])

encodeBool(v) == <<IF v THEN 1 ELSE 0>>

encodeBytes(v) == serializeUint64(Len(v)) \o v

encodePointer(t, v) == IF v = <<>> THEN <<0>> ELSE <<1>> \o marshal(t.of, v[1])

encodeSlice(t, v) == serializeUint64(Len(v)) \o marshalAll(Field(t.of, Len(v)), v)

encodeArray(t, v) == marshalAll(Field(t.of, t.size), v)

encodeStruct(t, v) == marshalAll(t.fields, v)

sortMapKeys(keys) == SetToSortSeq(keys, <)

encodeMap(t, v) ==
    LET keys == sortMapKeys(DOMAIN v)
    IN  encodeSlice([kind |-> "slice", of |-> Pair(t)],
                    [i \in DOMAIN keys |-> <<keys[i], v[keys[i]]>>])

encodeEnumType(t, v) ==
    <<v[1]>> \o (IF Len(v) = 1 THEN <<>> ELSE marshal(t.choices[v[1] + 1], v[2]))

marshal(t, v) ==
    CASE t.kind = "uint"   -> serializeUint64(v)
      [] t.kind = "fixed"  -> serializeTrivialNatural(v, t.length)
      [] t.kind = "bool"   -> encodeBool(v)
      [] t.kind = "bytes"  -> encodeBytes(v)
      [] t.kind = "key"    -> v
      [] t.kind = "ptr"    -> encodePointer(t, v)
      [] t.kind = "slice"  -> encodeSlice(t, v)
      [] t.kind = "array"  -> encodeArray(t, v)
      [] t.kind = "struct" -> encodeStruct(t, v)
      [] t.kind = "map"    -> encodeMap(t, v)
      [] t.kind = "enum"   -> encodeEnumType(t, v)

-----------------------------------------------------------------------------
CodecInit ==
    /\ sample \in Samples
    /\ tail \in Tails
    /\ message = <<>>
    /\ decoded = <<>>

Marshal ==
    /\ message = <<>>
    /\ message' = marshal(sample.type, sample.value) \o tail
    /\ UNCHANGED <<sample, tail, decoded>>

\* Unmarshal of no bytes at all leaves the destination as it is.
Unmarshal ==
    /\ message # <<>>
    /\ decoded = <<>>
    /\ decoded' = <<unmarshal(sample.type, message)>>
    /\ UNCHANGED <<sample, message, tail>>

CodecNext == Marshal \/ Unmarshal

\* What is decoded is what was encoded, and exactly its bytes are consumed, so
\* that whatever follows it in the message is found: for every kind of type, at
\* every threshold of the variable-length naturals and for values nested in each
\* other (marshal, unmarshal, serializeUint64, deserializeUint64WithLength).  No
\* encoding is therefore a prefix of another value's.
DecodesWhatWasEncoded ==
    \A i \in DOMAIN decoded :
        decoded[i].ok /\ decoded[i].value = sample.value /\ decoded[i].rest = tail
=============================================================================
