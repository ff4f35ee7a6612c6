-------------------------------- MODULE Cbor --------------------------------
(***************************************************************************)
(* The CBOR encoder and decoder (awscrt/cbor.py, source/cbor.c).  The      *)
(* buffer is a sequence of elements, one per head of the encoding with its *)
(* content; integers keep the widths of the code on a smaller scale.       *)
(*                                                                         *)
(* A Python value is a pair of its type and its content; a list or a       *)
(* dictionary holds its items, a dictionary as pairs.  The native encoder  *)
(* makes an integer of a float without a fraction, which reads back as an  *)
(* equal int: the floats among the values have a fraction.                 *)
(***************************************************************************)
EXTENDS Integers, FiniteSets, Sequences, SequencesExt, Collections

CONSTANTS U64,        \* 2^64 on the model's scale
          Long,       \* a C long is in -Long .. Long - 1
          MinNegated, \* what a build makes of negating the least long, as 64 bits
          SsizeMax,   \* PY_SSIZE_T_MAX
          MaxDepth,   \* s_cbor_max_decode_depth
          MaxElements,\* bound on the elements in the buffer
          Ints,       \* the numbers that write_int is given
          Values,     \* the Python values that are written, and the items in them
          MaxNesting  \* bound on the values that are nested in each other

(* A long has 64 bits or less.  Negating the least long overflows: it stays as it
   is, which is right when a long has 64 bits, or is computed in more of them. *)
ASSUME CborWidths ==
    /\ {U64, Long, SsizeMax, MaxDepth, MaxElements, MaxNesting} \subseteq Nat
    /\ Long > 0 /\ 2 * Long <= U64 /\ 2 * SsizeMax < U64 - 1 /\ MaxNesting > 0
    /\ MinNegated \in {Long, U64 - Long}

Hashable(v) == v[1] \notin {"list", "dict"}

(* Python's dictionaries have different keys that can be hashed. *)
ASSUME CborValues ==
    /\ Ints \subseteq Int /\ {<<"int", n>> : n \in Ints} \subseteq Values
    /\ \A v \in Values :
         /\ v = <<v[1], v[2]>>
         /\ v[1] \in {"int", "text", "bytes", "float", "bool", "null", "list", "dict", "object"}
         /\ v[1] = "int" => v[2] \in Int
         /\ v[1] = "null" => v[2] = 0
         /\ v[1] = "list" => v[2] \in Seq(Values)
         /\ v[1] = "dict" => /\ v[2] \in Seq(Values \X Values) /\ Unique(v[2])
                            /\ \A key \in Keys(v[2]) : Hashable(key)

VARIABLES
    encoded,  \* the encoder's buffer
    written,  \* whole values written since it was made, while all was well
    decoder,  \* the decoder, with a copy of the buffer
    popped    \* whole values popped from it, while all was well

cborVars == <<encoded, written, decoder, popped>>

Dirty == <<<<"dirty", 0>>>>  \* a call failed or handled a part of a value
NoDecoder == [src |-> <<>>, pos |-> 1, from |-> 1, depth |-> 0, expect |-> <<>>, epoch |-> "number", error |-> "none",
              usable |-> FALSE]

(* Heads of the encoding, each with its content; values that are one element. *)
OneElement == {v \in Values : v[1] \in {"text", "bytes", "float", "bool", "null"}}
Element == {"uint", "negint", "float", "bytes", "text", "bool", "null", "undefined", "array", "map", "tag",
            "indef_array", "indef_map", "indef_bytes", "indef_text", "break"}
           \X (Int \cup {v[2] : v \in OneElement})

CborTypeOK ==
    /\ encoded \in Seq(Element) /\ written \in Seq(Values \cup {<<"dirty", 0>>})
    /\ decoder \in [src : Seq(Element), pos : Nat, from : Nat, depth : Int,
                    expect : Seq(Values \cup {<<"dirty", 0>>}), epoch : {"number", "raises"},
                    error : {"none", "unexpected", "overflow", "unhashable", "tag", "fatal", "callback", "depth"},
                    usable : BOOLEAN]

CborInit == encoded = <<>> /\ written = <<>> /\ decoder = NoDecoder /\ popped = <<>>

----------------------------------------------------------------------------
(* Encoding: what a call appends, whether it raises after that, and whether what
   it appends is the value *)

Wrote(elements) == [out |-> elements, raised |-> FALSE, ok |-> TRUE]
Raised(elements) == [out |-> elements, raised |-> TRUE, ok |-> FALSE]
AsUnsigned(kind, n) == IF n \in 0 .. U64 - 1 THEN Wrote(<<<<kind, n>>>>) ELSE Raised(<<>>)

(* write_int, where Python computes the argument of a negative number. *)
IntElements(n) == IF n >= 0 THEN AsUnsigned("uint", n) ELSE AsUnsigned("negint", -1 - n)

(* Mutant: the magnitude is written. *)
PylongMagnitude(n) == IF n >= 0 THEN AsUnsigned("uint", n) ELSE AsUnsigned("negint", -n)

(* write_data_item, where C does: in a long when the number fits it. *)
PylongElements(n) ==
    CASE n \in 0 .. Long - 1 -> Wrote(<<<<"uint", n>>>>)
      [] n \in 1 - Long .. -1 -> Wrote(<<<<"negint", -n - 1>>>>)
      [] n = -Long           -> [out |-> <<<<"negint", MinNegated - 1>>>>, raised |-> FALSE, ok |-> MinNegated = Long]
      [] n < -Long           -> AsUnsigned("negint", -n - 1)
      [] OTHER               -> AsUnsigned("uint", n)

(* The elements of an item follow each other until one cannot be written. *)
Then(done, next) ==
    IF done.raised THEN done
    ELSE [out |-> done.out \o next.out, raised |-> next.raised, ok |-> done.ok /\ next.ok]

Follow(head, parts) ==
    LET done[i \in 0 .. Len(parts)] == IF i = 0 THEN head ELSE Then(done[i - 1], parts[i])
    IN  done

(* The elements of a value, when those of its items are known. *)
ObjectElements(v, inner) ==
    CASE v[1] = "int" -> PylongElements(v[2])
      [] v[1] \in {"text", "bytes", "float", "bool", "null"} -> Wrote(<<v>>)
      [] v[1] = "list" ->
           Follow(Wrote(<<<<"array", Len(v[2])>>>>), [i \in 1 .. Len(v[2]) |-> inner[v[2][i]]])[Len(v[2])]
      [] v[1] = "dict" ->
           Follow(Wrote(<<<<"map", Len(v[2])>>>>),
                  [i \in 1 .. Len(v[2]) |-> Then(inner[v[2][i][1]], inner[v[2][i][2]])])[Len(v[2])]
      [] OTHER -> Raised(<<>>)

(* The elements of all values with less than k levels of values in them. *)
Around(inner) == [v \in Values |-> ObjectElements(v, inner)]
Nested ==
    LET nested[k \in 0 .. MaxNesting] ==
            IF k = 0 THEN [v \in Values |-> Raised(<<>>)] ELSE Around(nested[k - 1])
    IN  nested
PyObjectElements(v) == Nested[MaxNesting][v]

Write(w, value) ==
    /\ Len(encoded) + Len(w.out) <= MaxElements
    /\ encoded' = encoded \o w.out
    /\ written' = IF w.ok /\ value # <<>> /\ written # Dirty THEN written \o value ELSE Dirty
    /\ UNCHANGED <<decoder, popped>>

(* Parts of a value that the application writes itself; write_float makes one of
   the three numbers. *)
Floats == {<<"float", 1>>, <<"uint", 1>>, <<"negint", 0>>}
Simple == Floats \cup {<<k, 1>> : k \in {"bytes", "text", "bool"}} \cup
          {<<k, 0>> : k \in {"null", "undefined", "indef_array", "indef_map", "indef_bytes", "indef_text", "break"}}

(* The size of an object that is no list or dictionary is -1, as a size_t, and
   the exception is set. *)
NoContainer(kind) == Raised(<<<<kind, 2 * SsizeMax + 1>>>>)

WriteInt == \E n \in Ints : Write(IntElements(n), <<<<"int", n>>>>)
WriteDataItem == \E v \in Values : Write(PyObjectElements(v), <<v>>)
WriteList ==
    \/ \E v \in Values : v[1] = "list" /\ Write(PyObjectElements(v), <<v>>)
    \/ Write(NoContainer("array"), <<>>)
WriteDict ==
    \/ \E v \in Values : v[1] = "dict" /\ Write(PyObjectElements(v), <<v>>)
    \/ Write(NoContainer("map"), <<>>)
WriteElement == \E e \in Simple : Write(Wrote(<<e>>), <<>>)
(* The range that Python checks has one number more than C accepts. *)
WriteStart == \E kind \in {"array", "map", "tag"}, n \in {-1, 1, 2, U64} : Write(AsUnsigned(kind, n), <<>>)
WriteEpochTime == \E e \in Floats : Write(Wrote(<<<<"tag", 1>>, e>>), <<>>)
EncoderReset == encoded' = <<>> /\ written' = <<>> /\ UNCHANGED <<decoder, popped>>

----------------------------------------------------------------------------
(* Decoding: the value, and where the decoder stands afterwards.  A call that
   fails stays where it got to. *)

Done(v, p, d) == [ok |-> TRUE, val |-> v, pos |-> p, depth |-> d, error |-> "none"]
Failed(p, d, e) == [ok |-> FALSE, val |-> <<"none", 0>>, pos |-> p, depth |-> d, error |-> e]
PeekType(src, p) == IF p > Len(src) THEN "end" ELSE src[p][1]

(* Mutant: an item that fails does not count itself out. *)
LeaveOnSuccess(r) == IF r.ok THEN [r EXCEPT !.depth = @ - 1] ELSE r

LeaveItem(r) == [r EXCEPT !.depth = @ - 1]

(* Parts of indefinite bytes or text, put together: the loop stands still at an
   element of another type. *)
Join(src, kind, s) ==
    IF PeekType(src, s.pos) = kind THEN [pos |-> s.pos + 1, n |-> s.n + src[s.pos][2]] ELSE s

Joined(src, p, kind) ==
    LET at[i \in 0 .. Len(src)] ==
            IF i = 0 THEN [pos |-> p, n |-> 0]
            ELSE Join(src, kind, at[i - 1])
    IN  at

PopParts(src, p, d, kind) ==
    LET s == Joined(src, p, kind)[Len(src)]
    IN  IF PeekType(src, s.pos) = "break" THEN Done(<<kind, s.n>>, s.pos + 1, d) ELSE Failed(s.pos, d, "unexpected")

(* The next item of a list and the next pair of a dictionary, after what r has
   collected; pop[d][p] is the item at place p, popped at depth d.  The value is
   popped also when the key was not, and its exception replaces the key's. *)
PopListItem(pop, r) ==
    LET x == pop[r.depth][r.pos]
    IN  IF x.ok THEN Done(Append(r.val, x.val), x.pos, x.depth) ELSE x

PopPair(pop, r) ==
    LET k == pop[r.depth][r.pos]
        v == pop[k.depth][k.pos]
    IN  IF ~(k.ok /\ v.ok) THEN Failed(v.pos, v.depth, IF v.ok THEN k.error ELSE v.error)
        ELSE IF ~Hashable(k.val) THEN Failed(v.pos, v.depth, "unhashable")
        ELSE Done(Put(r.val, <<k.val, v.val>>), v.pos, v.depth)

(* One turn, unless the loop is over: left counts the items to come, or is -1
   up to a break.  A dictionary that ends without its break has its last pair
   released twice. *)
PopTurn(kind, src, pop, s) ==
    IF s.left = 0 \/ ~s.r.ok THEN s
    ELSE IF s.left = -1 /\ PeekType(src, s.r.pos) = "break" 
    THEN [left |-> 0, r |-> Done(s.r.val, s.r.pos + 1, s.r.depth)]
    ELSE IF s.left = -1 /\ kind = "dict" /\ s.r.val # <<>> /\ PeekType(src, s.r.pos) = "end"
    THEN [left |-> 0, r |-> Failed(s.r.pos, s.r.depth, "fatal")]
    ELSE [left |-> IF s.left = -1 THEN -1 ELSE s.left - 1,
          r |-> IF kind = "list" THEN PopListItem(pop, s.r) ELSE PopPair(pop, s.r)]

(* A turn takes an element or is the last, so there are at most Len(src). *)
PopItems(kind, src, pop, n, p, d) ==
    LET at[i \in 0 .. Len(src)] ==
            IF i = 0 THEN [left |-> n, r |-> Done(<<>>, p, d)]
            ELSE PopTurn(kind, src, pop, at[i - 1])
    IN  at

PopContainer(kind, src, pop, n, p, d) ==
    LET r == PopItems(kind, src, pop, n, p, d)[Len(src)].r
    IN  IF r.ok THEN Done(<<kind, r.val>>, r.pos, r.depth) ELSE r

PopList(src, p, d, pop) ==
    CASE PeekType(src, p) = "array" ->
           IF src[p][2] > SsizeMax THEN Failed(p + 1, d, "overflow")
           ELSE PopContainer("list", src, pop, src[p][2], p + 1, d)
      [] PeekType(src, p) = "indef_array" -> PopContainer("list", src, pop, -1, p + 1, d)
      [] OTHER -> Failed(p, d, "unexpected")

PopMap(src, p, d, pop) ==
    CASE PeekType(src, p) = "map" ->
           IF src[p][2] > SsizeMax THEN Failed(p + 1, d, "overflow")
           ELSE PopContainer("dict", src, pop, src[p][2], p + 1, d)
      [] PeekType(src, p) = "indef_map" -> PopContainer("dict", src, pop, -1, p + 1, d)
      [] OTHER -> Failed(p, d, "unexpected")

(* Tag 1 is handed to the application's callback.  At the depth limit its
   number cannot be popped and the missing value is released all the same. *)
PopTag(src, p, d, ep, pop) ==
    IF src[p][2] # 1 THEN Failed(p + 1, d, "tag")
    ELSE IF PeekType(src, p + 1) \notin {"float", "uint", "negint"} THEN Failed(p + 1, d, "unexpected")
    ELSE LET r == pop[d][p + 1]
         IN  IF ~r.ok THEN Failed(r.pos, r.depth, "fatal")
             ELSE IF ep = "raises" THEN Failed(r.pos, r.depth, "callback") ELSE r

PopBody(src, p, d, ep, pop) ==
    LET type == PeekType(src, p)
    IN  CASE type = "uint" -> Done(<<"int", src[p][2]>>, p + 1, d)
          [] type = "negint" -> Done(<<"int", -1 - src[p][2]>>, p + 1, d)
          [] type \in {"float", "bytes", "text", "bool"} -> Done(src[p], p + 1, d)
          [] type \in {"null", "undefined"} -> Done(<<"null", 0>>, p + 1, d)
          [] type \in {"map", "indef_map"} -> PopMap(src, p, d, pop)
          [] type \in {"array", "indef_array"} -> PopList(src, p, d, pop)
          [] type = "indef_bytes" -> PopParts(src, p + 1, d, "bytes")
          [] type = "indef_text" -> PopParts(src, p + 1, d, "text")
          [] type = "tag" -> PopTag(src, p, d, ep, pop)
          [] OTHER -> Failed(p, d, "unexpected")

(* Items at every place and depth: at the limit, which refuses them; at one
   depth less than those that are known; at the last k depths and the limit. *)
AtLimit(src) == [d \in {MaxDepth} |-> [p \in 1 .. Len(src) + 1 |-> Failed(p, d, "depth")]]
Below(src, ep, k, pop) ==
    [d \in MaxDepth - k .. MaxDepth |->
       IF d > MaxDepth - k THEN pop[d]
       ELSE [p \in 1 .. Len(src) + 1 |-> LeaveItem(PopBody(src, p, d + 1, ep, pop))]]
Poppers(src, ep) ==
    LET pop[k \in 0 .. MaxDepth] == IF k = 0 THEN AtLimit(src) ELSE Below(src, ep, k, pop[k - 1])
    IN  pop
PopItem(src, ep) == Poppers(src, ep)[MaxDepth]

----------------------------------------------------------------------------
(* Calls on the decoder.  It shares nothing with the encoder, which is let go
   when the decoder is made; an error that leaves memory in doubt ends its use. *)

DecoderNew(epoch) ==
    /\ decoder = NoDecoder
    /\ decoder' = [NoDecoder EXCEPT !.src = encoded, !.expect = written, !.epoch = epoch, !.usable = TRUE]
    /\ popped' = <<>> /\ encoded' = <<>> /\ written' = <<>>

Pop(r) ==
    /\ decoder.usable
    /\ decoder' = [decoder EXCEPT !.pos = r.pos, !.from = decoder.pos, !.depth = r.depth,
                                   !.error = r.error, !.usable = r.error # "fatal"]
    /\ UNCHANGED <<encoded, written>>

PopWhole(r) == Pop(r) /\ popped' = IF r.ok /\ popped # Dirty THEN Append(popped, r.val) ELSE Dirty

PopNextDataItem == PopWhole(PopItem(decoder.src, decoder.epoch)[decoder.depth][decoder.pos])
PopNextList == PopWhole(PopList(decoder.src, decoder.pos, decoder.depth, PopItem(decoder.src, decoder.epoch)))
PopNextMap == PopWhole(PopMap(decoder.src, decoder.pos, decoder.depth, PopItem(decoder.src, decoder.epoch)))

(* pop_next_unsigned_int and its like: an element of another type stays. *)
PopNextElement ==
    /\ popped' = Dirty
    /\ \E type \in {"uint", "negint", "float", "bool", "bytes", "text", "array", "map", "tag"} :
         Pop(IF PeekType(decoder.src, decoder.pos) = type
             THEN Done(<<"int", 0>>, decoder.pos + 1, decoder.depth)
             ELSE Failed(decoder.pos, decoder.depth, "unexpected"))

ConsumeNextSingleElement ==
    /\ popped' = Dirty
    /\ Pop(IF decoder.pos <= Len(decoder.src) THEN Done(<<"int", 0>>, decoder.pos + 1, decoder.depth)
           ELSE Failed(decoder.pos, decoder.depth, "unexpected"))

(* Counts of the items to come in the items that are open, the innermost first,
   -1 up to a break; an item takes its place when it begins. *)
Consume(src, s) ==
    IF s.open = <<>> \/ s.pos > Len(src) THEN s
    ELSE LET n == src[s.pos][2]
             type == src[s.pos][1]
             inside == CASE type = "array" -> n
                         [] type = "map" -> 2 * n
                         [] type = "tag" -> 1
                         [] type \in {"indef_array", "indef_map", "indef_bytes", "indef_text"} -> -1
                         [] OTHER -> 0
             left == IF Head(s.open) = -1 THEN -1 ELSE Head(s.open) - 1
         IN  [pos |-> s.pos + 1,
              open |-> IF type = "break" /\ left = -1 THEN Tail(s.open)
                       ELSE SelectSeq(<<inside, left>> \o Tail(s.open), LAMBDA c : c # 0)]

Consumed(src, p) ==
    LET at[i \in 0 .. Len(src)] ==
            IF i = 0 THEN [pos |-> p, open |-> <<1>>]
            ELSE Consume(src, at[i - 1])
    IN  at

ConsumeNextWholeDataItem ==
    /\ popped' = Dirty
    /\ LET s == Consumed(decoder.src, decoder.pos)[Len(decoder.src)]
       IN  Pop(IF s.open = <<>> THEN Done(<<"int", 0>>, s.pos, decoder.depth)
               ELSE Failed(s.pos, decoder.depth, "unexpected"))

(* reset_src replaces the bytes that Python keeps for the native decoder and
   then calls a function that the native module does not have. *)
ResetSrc == decoder.usable /\ decoder' = [decoder EXCEPT !.usable = FALSE] /\ UNCHANGED <<encoded, written, popped>>

CborNext ==
    \/ /\ decoder = NoDecoder
       /\ \/ WriteInt \/ WriteDataItem \/ WriteList \/ WriteDict
          \/ WriteElement \/ WriteStart \/ WriteEpochTime \/ EncoderReset
    \/ \E epoch \in {"number", "raises"} : DecoderNew(epoch)
    \/ PopNextDataItem \/ PopNextList \/ PopNextMap \/ PopNextElement
    \/ ConsumeNextSingleElement \/ ConsumeNextWholeDataItem \/ ResetSrc

CborSpec == CborInit /\ [][CborNext]_cborVars

----------------------------------------------------------------------------
(* The values popped, by whichever of the three calls, are those written, by
   whichever call, in their order: the two integer encoders agree with each
   other and with the decoder at the edges of long and of 64 bits.  Excepted is
   the least long in a data item where a build has no room to negate it. *)
CborRoundTrip == decoder.expect # Dirty /\ popped # Dirty => IsPrefix(popped, decoder.expect)

Forward ==
    decoder # NoDecoder => /\ decoder'.src = decoder.src
                           /\ decoder'.pos \in decoder.pos .. Len(decoder.src) + 1

(* A decoder only goes forward and never beyond its buffer, which no call
   changes, whether the call succeeds or breaks off inside a nested item. *)
DecoderGoesForward == [][Forward]_cborVars

(* However a call ends, its nesting is undone: the depth limit refuses an item
   only when this very call went that deep, never because of an item that was
   refused or broken off in an earlier call. *)
DepthIsPerCall ==
    decoder.error = "depth" =>
        Cardinality({i \in decoder.from .. decoder.pos - 1 :
                        decoder.src[i][1] \in {"array", "map", "indef_array", "indef_map"}}) >= MaxDepth
=============================================================================
