--------------------------- MODULE MCBlockService ---------------------------
(***************************************************************************)
(* Instances of BlockService, of ChainStore and of Codec, of which one     *)
(* moves.  The tree of headers, and of blocks, is                          *)
(*                                                                         *)
(*     g <- a1 <- a2 <- a3                w claims the slot of a1, below   *)
(*                 ^                      that of its parent               *)
(*                 +- w                                                    *)
(***************************************************************************)
EXTENDS BlockService, ChainStore, Codec

VARIABLE part  \* "service", "store" or "codec"

MCHeaders == {"g", "a1", "a2", "a3", "w"}

MCParent ==
    [h \in MCHeaders |->
        CASE h = "g"  -> "none"
          [] h = "a1" -> "g"
          [] h = "a2" -> "a1"
          [] h = "a3" -> "a2"
          [] h = "w"  -> "a2"]

MCSlot ==
    [h \in MCHeaders |->
        CASE h = "g"  -> 1
          [] h = "a1" -> 2
          [] h = "a2" -> 4
          [] h = "a3" -> 5
          [] h = "w"  -> 2]

\* The code's Generations = 6 needs a chain: 0 is Genesis, 1 to 10 follow each
\* other, 11 is a second child of 5.
ChainHeaders == 0..11
ChainParent == [h \in ChainHeaders |-> IF h = 0 THEN 99 ELSE IF h = 11 THEN 5 ELSE h - 1]
ChainSlot == [h \in ChainHeaders |-> h + 1]

MCKeyOrder == [h \in MCHeaders |-> CASE h = "g" -> 3 [] h = "a1" -> 5 [] h = "a2" -> 1
                                     [] h = "a3" -> 4 [] h = "w" -> 2]

StoreOver ==
    /\ blocks = {FirstBlock} /\ closed = TRUE /\ client = "failed" /\ handler = "failed"
    /\ request = [start |-> FirstBlock, ascending |-> FALSE, max |-> 0]
    /\ current = FirstBlock /\ sequence = <<>> /\ wire = Silence
    /\ answer = <<>> /\ kept = {} /\ cut = FALSE

\* Types of which each is nested in another, and values on both sides of every
\* threshold of a 3-bit byte.
Natural == [kind |-> "uint"]
Fixed(width, length) == [kind |-> "fixed", width |-> width, length |-> length]
Boolean == [kind |-> "bool"]
ByteSlice == [kind |-> "bytes"]
PublicKey == [kind |-> "key"]
PtrTo(t) == [kind |-> "ptr", of |-> t]
SliceOf(t) == [kind |-> "slice", of |-> t]
ArrayOf(n, t) == [kind |-> "array", size |-> n, of |-> t]
MapOf(k, t) == [kind |-> "map", key |-> k, of |-> t]
StructOf(ts) == [kind |-> "struct", fields |-> ts]
EnumOf(ts) == [kind |-> "enum", choices |-> ts]
NoValue == [kind |-> "none"]

Edges == {0, 3, 4, 15, 16, 63, 64, 511}

RECURSIVE ValuesOf(_)
ValuesOf(t) ==
    CASE t.kind = "uint"   -> Edges
      [] t.kind = "fixed"  -> {0, 1, 7} \cup (IF t.length > 1 THEN {8, 63} ELSE {})
      [] t.kind = "bool"   -> BOOLEAN
      [] t.kind = "bytes"  -> {<<>>, <<0>>, <<7, 0>>, <<1, 2, 3, 4>>, [i \in 1..16 |-> i % 8]}
      [] t.kind = "key"    -> {<<0, 0>>, <<7, 1>>}
      [] t.kind = "ptr"    -> {<<>>} \cup {<<v>> : v \in ValuesOf(t.of)}
      [] t.kind = "slice"  -> UNION {[1..n -> ValuesOf(t.of)] : n \in 0..2}
      [] t.kind = "array"  -> [1..t.size -> ValuesOf(t.of)]
      [] t.kind = "struct" -> {<<v, w>> : v \in ValuesOf(t.fields[1]), w \in ValuesOf(t.fields[2])}
      [] t.kind = "map"    ->
            UNION {[K -> ValuesOf(t.of)] : K \in {S \in SUBSET {0, 1, 7} : Cardinality(S) <= 2}}
      [] t.kind = "enum"   ->
            UNION {IF t.choices[i].kind = "none" THEN {<<i - 1>>}
                   ELSE {<<i - 1, v>> : v \in ValuesOf(t.choices[i])} : i \in DOMAIN t.choices}

MCTypes ==
    {Fixed(1, 1), Fixed(2, 2), Fixed(4, 2), Fixed(2, 5), Boolean, ByteSlice, PublicKey,
     PtrTo(Natural), SliceOf(Natural), ArrayOf(2, ByteSlice), PtrTo(PtrTo(Boolean)),
     SliceOf(PtrTo(Fixed(1, 1))), StructOf(<<ByteSlice, Natural>>),
     SliceOf(StructOf(<<Boolean, PtrTo(Fixed(1, 1))>>)),
     MapOf(Fixed(1, 1), Natural), MapOf(Fixed(1, 1), SliceOf(Boolean)),
     EnumOf(<<NoValue, Natural, StructOf(<<PublicKey, ByteSlice>>)>>),
     StructOf(<<MapOf(Fixed(1, 1), Boolean), EnumOf(<<NoValue, PtrTo(Natural)>>)>>)}

MCSamples ==
    {[type |-> Natural, value |-> x] : x \in 0..511}
    \cup UNION {{[type |-> t, value |-> v] : v \in ValuesOf(t)} : t \in MCTypes}

MCTails == {<<>>, <<0>>, <<7, 5>>}

CodecOver ==
    /\ sample = [type |-> Natural, value |-> 0] /\ message = <<>> /\ tail = <<>>
    /\ decoded = <<>>

MCInit ==
    /\ Init
    /\ \/ part = "service" /\ StoreOver /\ CodecOver
       \/ part = "store" /\ StoreInit /\ CodecOver
       \/ part = "codec" /\ StoreOver /\ CodecInit

\* The request is over and the store is closed.
StoreDone == closed /\ client \in {"failed", "answered"} /\ handler \in {"failed", "writing"}

MCNext ==
    \/ part = "service" /\ Next /\ UNCHANGED <<part, storeVars, codecVars>>
    \/ part = "store" /\ StoreNext /\ UNCHANGED <<part, vars, codecVars>>
    \/ part = "store" /\ StoreDone /\ UNCHANGED <<part, vars, storeVars, codecVars>>
    \/ part = "codec" /\ CodecNext /\ UNCHANGED <<part, vars, storeVars>>
    \/ part = "codec" /\ decoded # <<>> /\ UNCHANGED <<part, vars, storeVars, codecVars>>

MCSpec ==
    /\ MCInit /\ [][MCNext]_<<part, vars, storeVars, codecVars>>
    /\ \A g \in Handlers : WF_vars(Step(g))

\* The block service alone, on a store that never fails.
RevertSpec ==
    /\ Init /\ part = "service" /\ StoreOver /\ CodecOver
    /\ [][ReliableNext /\ UNCHANGED <<part, storeVars, codecVars>>]_<<part, vars, storeVars, codecVars>>
=============================================================================
