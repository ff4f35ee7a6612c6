----------------------------- MODULE DataProofs -----------------------------
(***************************************************************************)
(* Proofs about HTTP headers, IoT metrics and CBOR, for inputs of any size.*)
(* The recursive functions of these modules are shown to be defined, and   *)
(* what they compute follows by induction, from the least counterexample.  *)
(***************************************************************************)
EXTENDS HttpHeaders, IotMetrics, Cbor, SequenceTheorems, FiniteSetTheorems, WellFoundedInduction, TLAPS

-----------------------------------------------------------------------------
(* Induction over the naturals and what a selection collects.               *)

(* The least element of a set of naturals. *)
LEMMA Least ==
  ASSUME NEW T \in SUBSET Nat, T # {}
  PROVE  \E x \in T : \A y \in T : x <= y
<1> DEFINE R == OpToRel(<, Nat)
<1>1. IsWellFoundedOn(R, Nat)
  BY NatLessThanWellFounded
<1>2. \A x, y \in Nat : y < x => <<y, x>> \in R
  BY DEF OpToRel
<1> HIDE DEF R
<1>3. PICK x \in T : \A y \in T : ~(<<y, x>> \in R)
  BY <1>1, WFMin
<1>4. ASSUME NEW y \in T PROVE x <= y
  <2>1. x \in Nat /\ y \in Nat /\ ~(y < x)
    BY <1>2, <1>3
  <2>2. QED
    BY <2>1
<1>5. QED
  BY <1>4

(* Induction, for a set: the numbers that have a property. *)
LEMMA SetInduction ==
  ASSUME NEW S \in SUBSET Nat, 0 \in S, \A n \in S : n + 1 \in S
  PROVE  S = Nat
<1>1. SUFFICES ASSUME Nat \ S # {} PROVE FALSE
  OBVIOUS
<1>2. PICK x \in Nat \ S : \A y \in Nat \ S : x <= y
  BY <1>1, Least
<1>3. x # 0 /\ x - 1 \in Nat /\ x - 1 \in S
  BY <1>2
<1>4. QED
  BY <1>2, <1>3

Turn(s, keep, kept, i) ==
    IF i = 0 THEN <<>>
    ELSE IF s[i] \in keep THEN Append(kept[i - 1], s[i])
    ELSE kept[i - 1]

(* The recursion that defines Collected has a solution. *)
LEMMA CollectedDef ==
  ASSUME NEW s, NEW keep, Len(s) \in Nat
  PROVE  Collected(s, keep) = [i \in 0 .. Len(s) |-> Turn(s, keep, Collected(s, keep), i)]
<1> DEFINE Solves(g, n) == g = [i \in 0 .. n |-> Turn(s, keep, g, i)]
           S == {n \in Nat : \E g : Solves(g, n)}
<1>1. 0 \in S
  <2>1. Solves([i \in 0 .. 0 |-> <<>>], 0)
    BY DEF Turn
  <2>2. QED
    BY <2>1
<1>2. ASSUME NEW n \in S PROVE n + 1 \in S
  <2>1. PICK g : Solves(g, n)
    OBVIOUS
  <2> DEFINE h == [i \in 0 .. n + 1 |-> Turn(s, keep, g, i)]
  <2>2. \A i \in 0 .. n : h[i] = g[i]
    BY <2>1
  <2>3. \A i \in 0 .. n + 1 : Turn(s, keep, g, i) = Turn(s, keep, h, i)
    <3> HIDE DEF h
    <3>1. QED
      BY <2>2 DEF Turn
  <2>4. Solves(h, n + 1)
    BY <2>3
  <2>5. \E f : Solves(f, n + 1)
    <3> HIDE DEF h, Solves
    <3>1. QED
      BY <2>4
  <2>6. QED
    BY <2>5
<1>3. S = Nat
  <2> HIDE DEF S
  <2>1. S \in SUBSET Nat
    BY DEF S
  <2>2. QED
    BY <1>1, <1>2, <2>1, SetInduction
<1>4. \E g : Solves(g, Len(s))
  BY <1>3
<1>5. Collected(s, keep) = CHOOSE g : Solves(g, Len(s))
  BY DEF Collected, Turn
<1>6. QED
  BY <1>4, <1>5

LEMMA CollectedStep ==
  ASSUME NEW s, NEW keep, Len(s) \in Nat
  PROVE  /\ Collected(s, keep)[0] = <<>>
         /\ \A i \in 0 .. Len(s) - 1 :
               Collected(s, keep)[i + 1] = IF s[i + 1] \in keep THEN Append(Collected(s, keep)[i], s[i + 1])
                                           ELSE Collected(s, keep)[i]
<1> DEFINE kept == Collected(s, keep)
<1>1. kept = [i \in 0 .. Len(s) |-> Turn(s, keep, kept, i)]
  BY CollectedDef
<1> HIDE DEF kept
<1>2. \A i \in 0 .. Len(s) : kept[i] = Turn(s, keep, kept, i)
  BY <1>1
<1>3. kept[0] = <<>>
  BY <1>2 DEF Turn
<1>4. ASSUME NEW i \in 0 .. Len(s) - 1
      PROVE  kept[i + 1] = IF s[i + 1] \in keep THEN Append(kept[i], s[i + 1]) ELSE kept[i]
  <2>1. i + 1 \in 0 .. Len(s) /\ i + 1 # 0 /\ (i + 1) - 1 = i
    OBVIOUS
  <2>2. QED
    BY <1>2, <2>1 DEF Turn
<1>5. QED
  BY <1>3, <1>4 DEF kept

(* A selection from s has elements of s. *)
LEMMA CollectedType ==
  ASSUME NEW E, NEW s \in Seq(E), NEW keep
  PROVE  \A i \in 0 .. Len(s) : Collected(s, keep)[i] \in Seq(E)
<1> DEFINE S == {n \in Nat : n <= Len(s) => Collected(s, keep)[n] \in Seq(E)}
<1>0. Len(s) \in Nat
  OBVIOUS
<1>1. 0 \in S
  <2>1. Collected(s, keep)[0] = <<>>
    BY <1>0, CollectedStep
  <2>2. Collected(s, keep)[0] \in Seq(E)
    BY <2>1
  <2>3. QED
    BY <2>2
<1>2. ASSUME NEW n \in S PROVE n + 1 \in S
  <2>1. CASE n + 1 <= Len(s)
    <3>1. s[n + 1] \in E /\ n \in 0 .. Len(s) - 1 /\ Collected(s, keep)[n] \in Seq(E)
      BY <2>1
    <3>2. Collected(s, keep)[n + 1] = IF s[n + 1] \in keep THEN Append(Collected(s, keep)[n], s[n + 1])
                                      ELSE Collected(s, keep)[n]
      BY <1>0, <3>1, CollectedStep
    <3>3. Collected(s, keep)[n + 1] \in Seq(E)
      BY <3>1, <3>2, AppendProperties
    <3>4. QED
      BY <3>3
  <2>2. QED
    BY <2>1
<1>3. S = Nat
  <2> HIDE DEF S
  <2>1. S \in SUBSET Nat
    BY DEF S
  <2>2. QED
    BY <1>1, <1>2, <2>1, SetInduction
<1>4. QED
  BY <1>3

LEMMA SelectType ==
  ASSUME NEW E, NEW s \in Seq(E), NEW keep
  PROVE  Select(s, keep) \in Seq(E)
<1>1. Len(s) \in 0 .. Len(s)
  OBVIOUS
<1>2. QED
  BY <1>1, CollectedType DEF Select

-----------------------------------------------------------------------------
(* HTTP headers.                                                            *)

(* The headers that a generator is to yield. *)
ToYield == {h \in ToSet(walk.start) : Wanted(h, walk.name)}

(* Where a generator stands.  While nothing was taken away, what was there at
   its start is there still, at the same places, and it has yielded what there
   is to yield among those it has passed. *)
WalkInv ==
    /\ walk.count = Len(walk.start)
    /\ walk.next \in 1 .. walk.count + 1
    /\ walk.state = "done" => walk.next > walk.count
    /\ walk.state = "raised" => walk.removed
    /\ ~walk.removed => /\ IsPrefix(walk.start, headers)
                        /\ walk.yielded = Collected(walk.start, ToYield)[walk.next - 1]

HeadersInv == HeadersTypeOK /\ WalkInv

LEMMA PrefixIndex ==
  ASSUME NEW s \in Seq(Pairs), NEW t \in Seq(Pairs)
  PROVE  IsPrefix(s, t) <=> Len(s) <= Len(t) /\ \A i \in 1 .. Len(s) : s[i] = t[i]
<1>0. Len(s) \in Nat /\ Len(t) \in Nat
  OBVIOUS
<1>1. CASE Len(s) <= Len(t)
  <2>1. /\ SubSeq(s, 1, Len(s)) \in Seq(Pairs) /\ Len(SubSeq(s, 1, Len(s))) = Len(s)
        /\ \A i \in 1 .. Len(s) : SubSeq(s, 1, Len(s))[i] = s[i]
    BY <1>0, <1>1
  <2>2. /\ SubSeq(t, 1, Len(s)) \in Seq(Pairs) /\ Len(SubSeq(t, 1, Len(s))) = Len(s)
        /\ \A i \in 1 .. Len(s) : SubSeq(t, 1, Len(s))[i] = t[i]
    BY <1>0, <1>1
  <2>3. (\A i \in 1 .. Len(s) : s[i] = t[i]) => SubSeq(s, 1, Len(s)) = SubSeq(t, 1, Len(s))
    BY <2>1, <2>2, SeqEqual
  <2>4. SubSeq(s, 1, Len(s)) = SubSeq(t, 1, Len(s)) => \A i \in 1 .. Len(s) : s[i] = t[i]
    BY <2>1, <2>2
  <2>5. QED
    BY <1>1, <2>3, <2>4 DEF IsPrefix
<1>2. QED
  BY <1>1 DEF IsPrefix

(* A call that changes the headers: what the generator sees of it is whether
   anything was taken away. *)
LEMMA ChangeStep ==
  ASSUME HeadersInv, NEW new \in Seq(Pairs), Change(new)
  PROVE  HeadersInv'
<1>1. HeadersTypeOK'
  BY DEF HeadersInv, HeadersTypeOK, Change
<1>2. /\ walk'.count = walk.count /\ walk'.start = walk.start /\ walk'.next = walk.next
      /\ walk'.state = walk.state /\ walk'.name = walk.name /\ walk'.yielded = walk.yielded
      /\ walk'.removed = (walk.removed \/ ~IsPrefix(headers, new)) /\ headers' = new
  BY DEF HeadersInv, HeadersTypeOK, Change
<1>3. ASSUME ~walk'.removed
      PROVE  IsPrefix(walk'.start, headers')
  <2>1. headers \in Seq(Pairs) /\ walk.start \in Seq(Pairs)
    BY DEF HeadersInv, HeadersTypeOK
  <2>2. IsPrefix(walk.start, headers) /\ IsPrefix(headers, new)
    BY <1>2, <1>3 DEF HeadersInv, WalkInv
  <2>3. IsPrefix(walk.start, new)
    BY <2>1, <2>2, PrefixIndex
  <2>4. QED
    BY <1>2, <2>3
<1>4. ToYield' = ToYield
  BY <1>2 DEF ToYield, Wanted
<1>5. WalkInv'
  BY <1>2, <1>3, <1>4 DEF HeadersInv, WalkInv
<1>6. QED
  BY <1>1, <1>5 DEF HeadersInv

LEMMA AddPairsStep ==
  ASSUME HeadersInv, NEW good \in Seq(Pairs), NEW bad \in BOOLEAN, HeadersAddPairs(good, bad)
  PROVE  HeadersInv'
<1>1. headers \in Seq(Pairs) /\ walk.start \in Seq(Pairs) /\ headers' = headers \o good /\ walk' = walk
  BY DEF HeadersInv, HeadersTypeOK, HeadersAddPairs
<1>2. /\ headers' \in Seq(Pairs) /\ Len(headers') = Len(headers) + Len(good)
      /\ \A i \in 1 .. Len(headers) : headers'[i] = headers[i]
  BY <1>1, ConcatProperties
<1>3. Len(headers) \in Nat /\ Len(good) \in Nat /\ Len(walk.start) \in Nat
  BY <1>1
<1>4. HeadersTypeOK'
  BY <1>1, <1>2 DEF HeadersInv, HeadersTypeOK, HeadersAddPairs
<1>5. ASSUME IsPrefix(walk.start, headers) PROVE IsPrefix(walk.start, headers')
  <2>1. Len(walk.start) <= Len(headers) /\ \A i \in 1 .. Len(walk.start) : walk.start[i] = headers[i]
    BY <1>1, <1>5, PrefixIndex
  <2>2. Len(walk.start) <= Len(headers') /\ \A i \in 1 .. Len(walk.start) : walk.start[i] = headers'[i]
    BY <1>2, <1>3, <2>1
  <2>3. QED
    BY <1>1, <1>2, <2>2, PrefixIndex
<1>6. ToYield' = ToYield
  BY <1>1 DEF ToYield, Wanted
<1>7. WalkInv'
  BY <1>1, <1>5, <1>6 DEF HeadersInv, WalkInv
<1>8. QED
  BY <1>4, <1>7 DEF HeadersInv

LEMMA IterateStep ==
  ASSUME HeadersInv, NEW name \in Names \cup {NoName}, Iterate(name)
  PROVE  HeadersInv'
<1>1. headers \in Seq(Pairs) /\ headers' = headers /\ Len(headers) \in Nat
  BY DEF HeadersInv, HeadersTypeOK, Iterate
<1>2. walk' = [state |-> "running", count |-> Len(headers), next |-> 1, name |-> name,
               yielded |-> <<>>, start |-> headers, removed |-> FALSE]
  BY DEF Iterate, NoWalk
<1>3. HeadersTypeOK'
  <2>1. <<>> \in Seq(Pairs) /\ error' = "none"
    BY DEF Iterate
  <2>2. QED
    BY <1>1, <1>2, <2>1 DEF HeadersTypeOK
<1>4. IsPrefix(headers, headers)
  BY <1>1, PrefixIndex
<1>5. Collected(headers, ToYield')[0] = <<>>
  BY <1>1, CollectedStep
<1>6. WalkInv'
  BY <1>1, <1>2, <1>4, <1>5 DEF WalkInv
<1>7. QED
  BY <1>3, <1>6 DEF HeadersInv

LEMMA FreshHeaders == HeadersInit => HeadersInv
<1> SUFFICES ASSUME HeadersInit PROVE HeadersInv
  OBVIOUS
<1>0. headers = <<>> /\ walk = NoWalk /\ error = "none"
  BY DEF HeadersInit
<1>1. HeadersTypeOK
  BY <1>0 DEF HeadersTypeOK, NoWalk
<1>2. IsPrefix(<<>>, <<>>)
  BY DEF IsPrefix
<1>3. Collected(<<>>, ToYield)[0] = <<>>
  BY CollectedStep
<1>4. WalkInv
  BY <1>0, <1>2, <1>3 DEF WalkInv, NoWalk
<1>5. QED
  BY <1>1, <1>4 DEF HeadersInv

(* A turn of the generator. *)
LEMMA NextHeaderStep ==
  ASSUME HeadersInv, NextHeader
  PROVE  HeadersInv'
<1>0. /\ headers \in Seq(Pairs) /\ walk.start \in Seq(Pairs) /\ headers' = headers
      /\ walk.next \in Nat /\ walk.count \in Nat /\ walk.yielded \in Seq(Pairs)
      /\ Len(headers) \in Nat /\ Len(walk.start) \in Nat
  BY DEF HeadersInv, HeadersTypeOK, NextHeader
<1>1. CASE walk.next > walk.count /\ walk' = [walk EXCEPT !.state = "done"] /\ error' = "none"
  <2>1. ToYield' = ToYield
    BY <1>1 DEF ToYield, Wanted, HeadersInv, HeadersTypeOK
  <2>2. QED
    BY <1>0, <1>1, <2>1 DEF HeadersInv, HeadersTypeOK, WalkInv
<1>2. CASE /\ walk.next <= walk.count /\ walk.next > Len(headers)
           /\ walk' = [walk EXCEPT !.state = "raised"] /\ error' = "AwsCrtError"
  <2>1. ToYield' = ToYield
    BY <1>2 DEF ToYield, Wanted, HeadersInv, HeadersTypeOK
  <2>2. walk.removed
    BY <1>0, <1>2, PrefixIndex DEF HeadersInv, WalkInv
  <2>3. QED
    BY <1>0, <1>2, <2>1, <2>2 DEF HeadersInv, HeadersTypeOK, WalkInv
<1>3. CASE /\ walk.next <= walk.count /\ walk.next <= Len(headers) /\ error' = "none"
           /\ walk' = [walk EXCEPT !.next = walk.next + 1,
                                   !.yielded = IF Wanted(headers[walk.next], walk.name)
                                               THEN Append(walk.yielded, headers[walk.next])
                                               ELSE walk.yielded]
  <2> DEFINE h == headers[walk.next]
  <2>1. walk.next \in 1 .. Len(walk.start) /\ walk.count = Len(walk.start) /\ h \in Pairs
    BY <1>0, <1>3 DEF HeadersInv, WalkInv
  <2>2. /\ walk'.count = walk.count /\ walk'.start = walk.start /\ walk'.next = walk.next + 1
        /\ walk'.state = walk.state /\ walk'.name = walk.name /\ walk'.removed = walk.removed
        /\ walk'.yielded = IF Wanted(h, walk.name) THEN Append(walk.yielded, h) ELSE walk.yielded
    BY <1>3 DEF HeadersInv, HeadersTypeOK
  <2>3. ToYield' = ToYield
    BY <2>2 DEF ToYield, Wanted
  <2>4. HeadersTypeOK'
    <3>1. walk'.yielded \in Seq(Pairs)
      BY <1>0, <2>1, <2>2, AppendProperties
    <3>2. walk.next + 1 \in Nat
      BY <1>0
    <3> DEFINE y == IF Wanted(headers[walk.next], walk.name)
                    THEN Append(walk.yielded, headers[walk.next]) ELSE walk.yielded
    <3>3. y \in Seq(Pairs)
      BY <2>2, <3>1
    <3> HIDE DEF y
    <3>4. walk' = [walk EXCEPT !.next = walk.next + 1, !.yielded = y]
      BY <1>3 DEF y
    <3>5. QED
      BY <1>0, <1>3, <3>2, <3>3, <3>4 DEF HeadersInv, HeadersTypeOK
  <2>5. ASSUME ~walk.removed
        PROVE  walk'.yielded = Collected(walk.start, ToYield)[walk.next]
    <3>1. h = walk.start[walk.next] /\ walk.yielded = Collected(walk.start, ToYield)[walk.next - 1]
      BY <1>0, <2>1, <2>5, PrefixIndex DEF HeadersInv, WalkInv
    <3>2. walk.start[walk.next] \in ToYield <=> Wanted(h, walk.name)
      BY <2>1, <3>1 DEF ToYield, Wanted, ToSet
    <3>3. walk.next - 1 \in 0 .. Len(walk.start) - 1 /\ (walk.next - 1) + 1 = walk.next
      BY <1>0, <2>1
    <3>4. Collected(walk.start, ToYield)[walk.next] =
            IF walk.start[walk.next] \in ToYield
            THEN Append(Collected(walk.start, ToYield)[walk.next - 1], walk.start[walk.next])
            ELSE Collected(walk.start, ToYield)[walk.next - 1]
      BY <1>0, <3>3, CollectedStep
    <3>5. QED
      BY <2>2, <3>1, <3>2, <3>4
  <2>6. walk'.next - 1 = walk.next /\ walk'.next \in 1 .. walk.count + 1 /\ walk.state = "running"
    BY <1>0, <2>1, <2>2 DEF NextHeader
  <2>7. WalkInv'
    BY <1>0, <2>2, <2>3, <2>5, <2>6 DEF HeadersInv, WalkInv
  <2>8. QED
    BY <2>4, <2>7 DEF HeadersInv
<1>4. QED
  BY <1>1, <1>2, <1>3 DEF NextHeader, HeadersCount

LEMMA WithoutType ==
  ASSUME HeadersInv, NEW name
  PROVE  Without(name) \in Seq(Pairs)
  BY SelectType DEF HeadersInv, HeadersTypeOK, Without

LEMMA HeadersStep == HeadersInv /\ [HeadersNext]_headersVars => HeadersInv'
<1> SUFFICES ASSUME HeadersInv, [HeadersNext]_headersVars PROVE HeadersInv'
  OBVIOUS
<1>0. headers \in Seq(Pairs) /\ Len(headers) \in Nat
  BY DEF HeadersInv, HeadersTypeOK
<1>1. CASE UNCHANGED headersVars
  BY <1>1 DEF headersVars, HeadersInv, HeadersTypeOK, WalkInv, ToYield, Wanted
<1>2. CASE HeadersNew
  <2>1. HeadersInit'
    BY <1>2 DEF HeadersNew, HeadersInit, NoWalk
  <2>2. QED
    BY <2>1, FreshHeaders, PTL
<1>3. CASE HeadersClear
  <2>1. <<>> \in Seq(Pairs)
    OBVIOUS
  <2>2. QED
    BY <1>3, <2>1, ChangeStep DEF HeadersClear
<1>4. CASE NextHeader
  BY <1>4, NextHeaderStep
<1>5. ASSUME NEW p \in Pairs, HeadersAdd(p[1], p[2]) PROVE HeadersInv'
  <2>1. <<p[1], p[2]>> \in Pairs
    BY HeadersAssumption
  <2>2. Append(headers, <<p[1], p[2]>>) \in Seq(Pairs)
    BY <1>0, <2>1, AppendProperties
  <2>3. QED
    BY <1>5, <2>2, ChangeStep DEF HeadersAdd
<1>6. ASSUME NEW p \in Pairs, HeadersSet(p[1], p[2]) PROVE HeadersInv'
  <2>1. <<p[1], p[2]>> \in Pairs
    BY HeadersAssumption
  <2>2. Append(Without(p[1]), <<p[1], p[2]>>) \in Seq(Pairs)
    BY <2>1, WithoutType, AppendProperties
  <2>3. QED
    BY <1>6, <2>2, ChangeStep DEF HeadersSet
<1>7. ASSUME NEW p \in Pairs, HeadersRemoveValue(p[1], p[2]) PROVE HeadersInv'
  <2>1. CASE RaiseError("ValueError")
    BY <2>1 DEF RaiseError, HeadersInv, HeadersTypeOK, WalkInv, ToYield, Wanted
  <2>2. CASE \E i \in DOMAIN headers : Change(RemoveAt(headers, i))
    <3>1. PICK i \in 1 .. Len(headers) : Change(RemoveAt(headers, i))
      BY <1>0, <2>2
    <3>2. SubSeq(headers, 1, i - 1) \in Seq(Pairs) /\ SubSeq(headers, i + 1, Len(headers)) \in Seq(Pairs)
      BY <1>0, SubSeqProperties
    <3>3. RemoveAt(headers, i) \in Seq(Pairs)
      BY <3>2, ConcatProperties DEF RemoveAt
    <3>4. QED
      BY <3>1, <3>3, ChangeStep
  <2>3. QED
    BY <1>7, <2>1, <2>2 DEF HeadersRemoveValue
<1>8. ASSUME NEW good \in BoundedSeq(Pairs, MaxHeaders), NEW bad \in BOOLEAN, HeadersAddPairs(good, bad)
      PROVE  HeadersInv'
  <2>1. PICK m \in 0 .. MaxHeaders : good \in [1 .. m -> Pairs]
    BY <1>8 DEF BoundedSeq, SeqOf
  <2>2. good \in Seq(Pairs)
    BY <2>1, HeadersAssumption, SeqDef
  <2>3. QED
    BY <1>8, <2>2, AddPairsStep
<1>9. ASSUME NEW name \in Names, HeadersRemove(name) PROVE HeadersInv'
  <2>1. CASE RaiseError("KeyError")
    BY <2>1 DEF RaiseError, HeadersInv, HeadersTypeOK, WalkInv, ToYield, Wanted
  <2>2. CASE Change(Without(name))
    BY <2>2, WithoutType, ChangeStep
  <2>3. QED
    BY <1>9, <2>1, <2>2 DEF HeadersRemove
<1>10. ASSUME NEW name \in Names \cup {NoName}, Iterate(name) PROVE HeadersInv'
  BY <1>10, IterateStep
<1>11. QED
  BY <1>1, <1>2, <1>3, <1>4, <1>5, <1>6, <1>7, <1>8, <1>9, <1>10 DEF HeadersNext

(* The invariant of the headers and the generator. *)
THEOREM HeadersInvariance == HeadersSpec => []HeadersInv
<1>1. HeadersInit => HeadersInv
  BY FreshHeaders
<1>2. QED
  BY <1>1, HeadersStep, PTL DEF HeadersSpec

(* Every variable keeps its type. *)
THEOREM HeadersTypeCorrect == HeadersSpec => []HeadersTypeOK
<1>1. HeadersInv => HeadersTypeOK
  BY DEF HeadersInv
<1>2. QED
  BY <1>1, HeadersInvariance, PTL

(* A generator over the headers, __iter__ or get_values, that nothing was taken
   away from does not raise and yields just what it looks for among the headers
   there were at its start, and get() agrees with it unless the two ways of
   comparing names disagree: for headers of any number, any names and any two
   changes of case. *)
THEOREM IterationHolds == HeadersSpec => []IterationIsExact
<1>1. ASSUME HeadersInv PROVE IterationIsExact
  <2>1. walk.state = "raised" => walk.removed
    BY <1>1 DEF HeadersInv, WalkInv
  <2>2. ASSUME walk.state = "done", ~walk.removed
        PROVE  walk.yielded = Select(walk.start, ToYield)
    <3>1. walk.next - 1 = Len(walk.start)
      BY <1>1, <2>2 DEF HeadersInv, HeadersTypeOK, WalkInv
    <3>2. QED
      BY <1>1, <2>2, <3>1 DEF HeadersInv, WalkInv, Select
  <2>3. ASSUME walk.state = "done", ~walk.removed, walk.name # NoName, headers = walk.start,
               Comparable(walk.name)
        PROVE  HeadersGet(walk.name) = IF walk.yielded = <<>> THEN NoName ELSE walk.yielded[1][2]
    <3>1. ToYield = {h \in ToSet(headers) : SameName(h, walk.name)}
      BY <2>3 DEF ToYield, Comparable
    <3>2. Head(walk.yielded) = walk.yielded[1]
      BY <1>1 DEF HeadersInv, HeadersTypeOK
    <3>3. QED
      BY <2>2, <2>3, <3>1, <3>2 DEF HeadersGet
  <2>4. QED
    BY <2>1, <2>2, <2>3 DEF IterationIsExact, ToYield
<1>2. QED
  BY <1>1, HeadersInvariance, PTL

-----------------------------------------------------------------------------
(* Lists of pairs and dictionaries.                                         *)

LEMMA Greatest ==
  ASSUME NEW n \in Nat, NEW T \in SUBSET (1 .. n), T # {}
  PROVE  Max(T) \in T /\ \A y \in T : y <= Max(T)
<1> DEFINE U == {n - x : x \in T}
<1>0. \A x \in T : n - x \in Nat
  OBVIOUS
<1>1. U \in SUBSET Nat /\ U # {}
  <2>1. PICK x : x \in T
    OBVIOUS
  <2>2. n - x \in U
    BY <2>1
  <2>3. QED
    BY <1>0, <2>2
<1>2. PICK u \in U : \A y \in U : u <= y
  BY <1>1, Least
<1>3. PICK x \in T : u = n - x
  OBVIOUS
<1>4. ASSUME NEW y \in T PROVE x >= y
  <2>1. n - y \in U
    OBVIOUS
  <2>2. n - x <= n - y /\ x \in Nat /\ y \in Nat
    BY <1>2, <1>3, <2>1
  <2>3. QED
    BY <2>2
<1>5. \E m \in T : \A y \in T : m >= y
  BY <1>4
<1>6. Max(T) \in T /\ \A y \in T : Max(T) >= y
  BY <1>5 DEF Max
<1>7. QED
  BY <1>6

(* The place i of s is the last among the first n that has the key. *)
LastAt(s, n, i, key) ==
    i \in 1 .. n /\ s[i][1] = key /\ \A j \in i + 1 .. n : s[j][1] # key

LEMMA ValueIs ==
  ASSUME NEW E, NEW s \in Seq(E), NEW i, NEW key, LastAt(s, Len(s), i, key)
  PROVE  Value(s, key) = s[i][2]
<1>1. Len(s) \in Nat /\ DOMAIN s = 1 .. Len(s)
  OBVIOUS
<1> DEFINE T == Places(s, key)
           m == Max(T)
<1>2. T \in SUBSET (1 .. Len(s)) /\ i \in T
  BY <1>1 DEF Places, LastAt
<1>3. m \in T /\ i <= m
  BY <1>1, <1>2, Greatest
<1>4. m \in 1 .. Len(s) /\ s[m][1] = key
  BY <1>1, <1>3 DEF Places
<1> HIDE DEF m
<1>5. m = i
  BY <1>1, <1>3, <1>4 DEF LastAt
<1>6. QED
  BY <1>5 DEF Value, m

LEMMA LastPlace ==
  ASSUME NEW E, NEW s \in Seq(E), NEW key \in Keys(s)
  PROVE  \E i : LastAt(s, Len(s), i, key) /\ Value(s, key) = s[i][2]
<1>1. Len(s) \in Nat /\ DOMAIN s = 1 .. Len(s)
  OBVIOUS
<1> DEFINE T == Places(s, key)
           m == Max(T)
<1>2. T \in SUBSET (1 .. Len(s)) /\ T # {}
  BY <1>1 DEF Places, Keys
<1>3. m \in T /\ \A y \in T : y <= m
  BY <1>1, <1>2, Greatest
<1>4. m \in 1 .. Len(s) /\ s[m][1] = key
  BY <1>1, <1>3 DEF Places
<1>5. ASSUME NEW j \in m + 1 .. Len(s) PROVE s[j][1] # key
  <2> HIDE DEF m
  <2>1. j \in 1 .. Len(s) /\ ~(j <= m)
    BY <1>1, <1>4
  <2>2. QED
    BY <1>1, <1>3, <2>1 DEF Places
<1>6. QED
  BY <1>4, <1>5 DEF LastAt, Value

PutTurn(dict, pairs, filled, i) == IF i = 0 THEN dict ELSE Put(filled[i - 1], pairs[i])

(* The recursion that defines Filled has a solution. *)
LEMMA FilledDef ==
  ASSUME NEW dict, NEW pairs, Len(pairs) \in Nat
  PROVE  Filled(dict, pairs) = [i \in 0 .. Len(pairs) |-> PutTurn(dict, pairs, Filled(dict, pairs), i)]
<1> DEFINE Solves(g, n) == g = [i \in 0 .. n |-> PutTurn(dict, pairs, g, i)]
           S == {n \in Nat : \E g : Solves(g, n)}
<1>1. 0 \in S
  <2>1. Solves([i \in 0 .. 0 |-> dict], 0)
    BY DEF PutTurn
  <2>2. QED
    BY <2>1
<1>2. ASSUME NEW n \in S PROVE n + 1 \in S
  <2>1. PICK g : Solves(g, n)
    OBVIOUS
  <2> DEFINE h == [i \in 0 .. n + 1 |-> PutTurn(dict, pairs, g, i)]
  <2>2. \A i \in 0 .. n : h[i] = g[i]
    BY <2>1
  <2>3. \A i \in 0 .. n + 1 : PutTurn(dict, pairs, g, i) = PutTurn(dict, pairs, h, i)
    <3> HIDE DEF h
    <3>1. QED
      BY <2>2 DEF PutTurn
  <2>4. Solves(h, n + 1)
    BY <2>3
  <2>5. \E f : Solves(f, n + 1)
    <3> HIDE DEF h, Solves
    <3>1. QED
      BY <2>4
  <2>6. QED
    BY <2>5
<1>3. S = Nat
  <2> HIDE DEF S
  <2>1. S \in SUBSET Nat
    BY DEF S
  <2>2. QED
    BY <1>1, <1>2, <2>1, SetInduction
<1>4. \E g : Solves(g, Len(pairs))
  BY <1>3
<1>5. Filled(dict, pairs) = CHOOSE g : Solves(g, Len(pairs))
  BY DEF Filled, PutTurn
<1>6. QED
  BY <1>4, <1>5

LEMMA FilledStep ==
  ASSUME NEW dict, NEW pairs, Len(pairs) \in Nat
  PROVE  /\ Filled(dict, pairs)[0] = dict
         /\ \A i \in 0 .. Len(pairs) - 1 : Filled(dict, pairs)[i + 1] = Put(Filled(dict, pairs)[i], pairs[i + 1])
<1> DEFINE filled == Filled(dict, pairs)
<1>1. filled = [i \in 0 .. Len(pairs) |-> PutTurn(dict, pairs, filled, i)]
  BY FilledDef
<1> HIDE DEF filled
<1>2. \A i \in 0 .. Len(pairs) : filled[i] = PutTurn(dict, pairs, filled, i)
  BY <1>1
<1>3. filled[0] = dict
  BY <1>2 DEF PutTurn
<1>4. ASSUME NEW i \in 0 .. Len(pairs) - 1
      PROVE  filled[i + 1] = Put(filled[i], pairs[i + 1])
  <2>1. i + 1 \in 0 .. Len(pairs) /\ i + 1 # 0 /\ (i + 1) - 1 = i
    OBVIOUS
  <2>2. QED
    BY <1>2, <2>1 DEF PutTurn
<1>5. QED
  BY <1>3, <1>4 DEF filled

(* The dictionary q is d with the pair p at the place of its key, or after the
   others. *)
PutAs(d, p, q) ==
    /\ Unique(q) /\ Len(d) <= Len(q) /\ Keys(q) = Keys(d) \cup {p[1]}
    /\ \A i \in 1 .. Len(d) : q[i][1] = d[i][1]
    /\ \A i \in 1 .. Len(q) : IF q[i][1] = p[1] THEN q[i] = p ELSE i <= Len(d) /\ q[i] = d[i]

LEMMA PutPair ==
  ASSUME NEW E, NEW d \in Seq(E), NEW p \in E, Unique(d)
  PROVE  Put(d, p) \in Seq(E) /\ PutAs(d, p, Put(d, p))
<1>1. Len(d) \in Nat /\ DOMAIN d = 1 .. Len(d)
  OBVIOUS
<1>2. CASE p[1] \in Keys(d)
  <2> DEFINE q == [i \in 1 .. Len(d) |-> IF d[i][1] = p[1] THEN p ELSE d[i]]
  <2>1. Put(d, p) = q
    BY <1>1, <1>2 DEF Put
  <2>2. q \in [1 .. Len(d) -> E]
    BY <1>1
  <2>3. q \in Seq(E) /\ Len(q) = Len(d) /\ DOMAIN q = 1 .. Len(d)
    BY <1>1, <2>2
  <2>4. \A i \in 1 .. Len(d) : q[i] = IF d[i][1] = p[1] THEN p ELSE d[i]
    OBVIOUS
  <2> HIDE DEF q
  <2>5. \A i \in 1 .. Len(d) : q[i][1] = d[i][1]
    BY <2>4
  <2>6. Unique(q)
    BY <1>1, <2>3, <2>5 DEF Unique
  <2>7. Keys(q) = Keys(d) \cup {p[1]}
    BY <1>1, <1>2, <2>3, <2>5 DEF Keys
  <2>8. QED
    BY <1>1, <2>1, <2>3, <2>4, <2>5, <2>6, <2>7 DEF PutAs
<1>3. CASE p[1] \notin Keys(d)
  <2> DEFINE q == Append(d, p)
  <2>1. Put(d, p) = q
    BY <1>3 DEF Put
  <2>2. /\ q \in Seq(E) /\ Len(q) = Len(d) + 1 /\ DOMAIN q = 1 .. Len(d) + 1
        /\ q[Len(d) + 1] = p /\ \A i \in 1 .. Len(d) : q[i] = d[i]
    BY AppendProperties, <1>1
  <2> HIDE DEF q
  <2>3. \A i \in 1 .. Len(d) : d[i][1] # p[1]
    BY <1>1, <1>3 DEF Keys
  <2>4. \A i \in 1 .. Len(d) + 1 : i # Len(d) + 1 => i \in 1 .. Len(d)
    BY <1>1
  <2>5. Unique(q)
    BY <1>1, <2>2, <2>3, <2>4 DEF Unique
  <2>6. Keys(q) = Keys(d) \cup {p[1]}
    <3>1. Keys(q) \subseteq Keys(d) \cup {p[1]}
      BY <1>1, <2>2, <2>4 DEF Keys
    <3>2. 1 .. Len(d) \subseteq 1 .. Len(d) + 1 /\ Len(d) + 1 \in 1 .. Len(d) + 1
      BY <1>1
    <3>3. Keys(d) \cup {p[1]} \subseteq Keys(q)
      BY <1>1, <2>2, <3>2 DEF Keys
    <3>4. QED
      BY <3>1, <3>3
  <2>7. QED
    BY <1>1, <2>1, <2>2, <2>3, <2>4, <2>5, <2>6 DEF PutAs
<1>4. QED
  BY <1>2, <1>3

(* What a dictionary holds after n of the pairs were put in it: the keys it had
   at their places, then the new ones; for each key the value put last. *)
FilledAs(dict, pairs, n, d) ==
    /\ Unique(d) /\ Len(dict) <= Len(d)
    /\ Keys(d) = Keys(dict) \cup {pairs[j][1] : j \in 1 .. n}
    /\ \A i \in 1 .. Len(dict) : d[i][1] = dict[i][1]
    /\ \A i \in 1 .. Len(d) :
         IF d[i][1] \in {pairs[j][1] : j \in 1 .. n}
         THEN \E j : LastAt(pairs, n, j, d[i][1]) /\ d[i] = pairs[j]
         ELSE i <= Len(dict) /\ d[i] = dict[i]

LEMMA FilledTurn ==
  ASSUME NEW E, NEW dict \in Seq(E), NEW pairs \in Seq(E), NEW n \in Nat, n + 1 <= Len(pairs),
         NEW d \in Seq(E), FilledAs(dict, pairs, n, d)
  PROVE  Put(d, pairs[n + 1]) \in Seq(E) /\ FilledAs(dict, pairs, n + 1, Put(d, pairs[n + 1]))
<1> DEFINE p == pairs[n + 1]
           q == Put(d, p)
           before == {pairs[j][1] : j \in 1 .. n}
           after == {pairs[j][1] : j \in 1 .. n + 1}
<1>0. Len(d) \in Nat /\ Len(dict) \in Nat /\ Len(pairs) \in Nat /\ p \in E /\ Unique(d)
  BY DEF FilledAs
<1> HIDE DEF p
<1>1. q \in Seq(E) /\ PutAs(d, p, q)
  BY <1>0, PutPair
<1>2. \A j \in 1 .. n + 1 : j \in 1 .. n \/ j = n + 1
  OBVIOUS
<1>3. after = before \cup {p[1]}
  <2>1. after \subseteq before \cup {p[1]}
    BY <1>2 DEF p
  <2>2. 1 .. n \subseteq 1 .. n + 1 /\ n + 1 \in 1 .. n + 1
    OBVIOUS
  <2>3. QED
    BY <2>1, <2>2 DEF p
<1> HIDE DEF q
<1>4. ASSUME NEW i \in 1 .. Len(q)
      PROVE  IF q[i][1] \in after
             THEN \E j : LastAt(pairs, n + 1, j, q[i][1]) /\ q[i] = pairs[j]
             ELSE i <= Len(dict) /\ q[i] = dict[i]
  <2>1. CASE q[i][1] = p[1]
    <3>1. LastAt(pairs, n + 1, n + 1, q[i][1])
      BY <2>1 DEF LastAt, p
    <3>2. q[i] = pairs[n + 1]
      BY <1>1, <2>1 DEF p, PutAs
    <3>3. q[i][1] \in after
      BY <1>3, <2>1
    <3>4. QED
      BY <3>1, <3>2, <3>3
  <2>2. CASE q[i][1] # p[1]
    <3>1. i \in 1 .. Len(d) /\ q[i] = d[i]
      BY <1>0, <1>1, <2>2 DEF PutAs
    <3>2. q[i][1] \in after <=> d[i][1] \in before
      BY <1>3, <2>2, <3>1
    <3>3. CASE d[i][1] \in before
      <4>1. PICK j : LastAt(pairs, n, j, d[i][1]) /\ d[i] = pairs[j]
        BY <3>1, <3>3 DEF FilledAs
      <4>2. \A l \in j + 1 .. n + 1 : l \in j + 1 .. n \/ l = n + 1
        BY <4>1 DEF LastAt
      <4>3. LastAt(pairs, n + 1, j, q[i][1])
        BY <2>2, <3>1, <4>1, <4>2 DEF LastAt, p
      <4>4. QED
        BY <3>1, <3>2, <3>3, <4>1, <4>3
    <3>4. CASE d[i][1] \notin before
      BY <3>1, <3>2, <3>4 DEF FilledAs
    <3>5. QED
      BY <3>3, <3>4
  <2>3. QED
    BY <2>1, <2>2
<1>5. Keys(q) = Keys(dict) \cup after
  BY <1>1, <1>3 DEF FilledAs, PutAs
<1>6. Len(dict) <= Len(q) /\ \A i \in 1 .. Len(dict) : q[i][1] = dict[i][1]
  <2>1. Len(dict) <= Len(d) /\ \A i \in 1 .. Len(dict) : d[i][1] = dict[i][1]
    BY DEF FilledAs
  <2>2. Len(q) \in Nat
    BY <1>1
  <2>3. QED
    BY <1>0, <1>1, <2>1, <2>2 DEF PutAs
<1>7. QED
  BY <1>1, <1>4, <1>5, <1>6 DEF FilledAs, PutAs, q, p

LEMMA PutAllPairs ==
  ASSUME NEW E, NEW dict \in Seq(E), NEW pairs \in Seq(E), Unique(dict)
  PROVE  PutAll(dict, pairs) \in Seq(E) /\ FilledAs(dict, pairs, Len(pairs), PutAll(dict, pairs))
<1> DEFINE f == Filled(dict, pairs)
           S == {n \in Nat : n <= Len(pairs) => f[n] \in Seq(E) /\ FilledAs(dict, pairs, n, f[n])}
<1>0. Len(pairs) \in Nat /\ Len(dict) \in Nat /\ DOMAIN dict = 1 .. Len(dict)
  OBVIOUS
<1>1. 0 \in S
  <2>1. f[0] = dict
    BY <1>0, FilledStep
  <2>2. {pairs[j][1] : j \in 1 .. 0} = {}
    OBVIOUS
  <2>3. FilledAs(dict, pairs, 0, dict)
    BY <1>0, <2>2 DEF FilledAs
  <2>4. f[0] \in Seq(E) /\ FilledAs(dict, pairs, 0, f[0])
    BY <2>1, <2>3
  <2> HIDE DEF f
  <2>5. QED
    BY <2>4
<1>2. ASSUME NEW n \in S PROVE n + 1 \in S
  <2>1. CASE n + 1 <= Len(pairs)
    <3>1. n \in 0 .. Len(pairs) - 1 /\ f[n] \in Seq(E) /\ FilledAs(dict, pairs, n, f[n])
      BY <1>0, <2>1
    <3>2. f[n + 1] = Put(f[n], pairs[n + 1])
      BY <1>0, <3>1, FilledStep
    <3> HIDE DEF f
    <3>3. f[n + 1] \in Seq(E) /\ FilledAs(dict, pairs, n + 1, f[n + 1])
      BY <2>1, <3>1, <3>2, FilledTurn
    <3>4. QED
      BY <3>3
  <2> HIDE DEF f
  <2>2. QED
    BY <1>0, <2>1
<1>3. S = Nat
  <2> HIDE DEF S
  <2>1. S \in SUBSET Nat
    BY DEF S
  <2>2. QED
    BY <1>1, <1>2, <2>1, SetInduction
<1> HIDE DEF f
<1>4. f[Len(pairs)] \in Seq(E) /\ FilledAs(dict, pairs, Len(pairs), f[Len(pairs)])
  BY <1>0, <1>3
<1>5. QED
  BY <1>4 DEF PutAll, f

(* Put in an empty dictionary, pairs of different keys stay as they are. *)
LEMMA PutAllUnique ==
  ASSUME NEW E, NEW pairs \in Seq(E), Unique(pairs)
  PROVE  PutAll(<<>>, pairs) = pairs
<1> DEFINE f == Filled(<<>>, pairs)
           As(n) == f[n] \in Seq(E) /\ Len(f[n]) = n /\ \A i \in 1 .. n : f[n][i] = pairs[i]
           S == {n \in Nat : n <= Len(pairs) => As(n)}
<1>0. Len(pairs) \in Nat /\ DOMAIN pairs = 1 .. Len(pairs)
  OBVIOUS
<1>1. 0 \in S
  <2>1. f[0] = <<>>
    BY <1>0, FilledStep
  <2>2. <<>> \in Seq(E) /\ Len(<<>>) = 0
    OBVIOUS
  <2> HIDE DEF f
  <2>3. As(0)
    BY <2>1, <2>2
  <2> HIDE DEF As
  <2>4. QED
    BY <2>3
<1>2. ASSUME NEW n \in S PROVE n + 1 \in S
  <2>1. CASE n + 1 <= Len(pairs)
    <3>1. n \in 0 .. Len(pairs) - 1 /\ As(n)
      BY <1>0, <2>1
    <3>2. f[n + 1] = Put(f[n], pairs[n + 1])
      BY <1>0, <3>1, FilledStep
    <3> HIDE DEF f
    <3>3. pairs[n + 1][1] \notin Keys(f[n])
      <4>1. \A i \in 1 .. n : pairs[i][1] # pairs[n + 1][1]
        BY <1>0, <2>1 DEF Unique
      <4>2. DOMAIN f[n] = 1 .. n /\ \A i \in 1 .. n : f[n][i] = pairs[i]
        BY <3>1
      <4>3. \A i \in DOMAIN f[n] : f[n][i][1] # pairs[n + 1][1]
        BY <4>1, <4>2
      <4>4. QED
        BY <4>3 DEF Keys
    <3>4. f[n + 1] = Append(f[n], pairs[n + 1]) /\ pairs[n + 1] \in E
      BY <1>0, <2>1, <3>2, <3>3 DEF Put
    <3>5. /\ f[n + 1] \in Seq(E) /\ Len(f[n + 1]) = n + 1 /\ f[n + 1][n + 1] = pairs[n + 1]
          /\ \A i \in 1 .. n : f[n + 1][i] = f[n][i]
      BY <3>1, <3>4, AppendProperties
    <3>6. \A i \in 1 .. n + 1 : i \in 1 .. n \/ i = n + 1
      OBVIOUS
    <3>7. As(n + 1)
      BY <3>1, <3>5, <3>6
    <3>8. QED
      BY <3>7
  <2> HIDE DEF As
  <2>2. QED
    BY <1>0, <2>1
<1>3. S = Nat
  <2> HIDE DEF S
  <2>1. S \in SUBSET Nat
    BY DEF S
  <2>2. QED
    BY <1>1, <1>2, <2>1, SetInduction
<1> HIDE DEF f
<1>4. As(Len(pairs))
  BY <1>0, <1>3
<1>5. f[Len(pairs)] = pairs
  BY <1>0, <1>4, SeqEqual
<1>6. QED
  BY <1>5 DEF PutAll, f

(* What a loop has collected of the first n pairs, when it leaves out the keys
   in R: the other keys, each with the value it had last. *)
SelectedAs(s, R, n, c) ==
    /\ Keys(c) = {s[j][1] : j \in 1 .. n} \ R
    /\ \A key \in Keys(c) : \E i, j : LastAt(c, Len(c), i, key) /\ LastAt(s, n, j, key) /\ c[i] = s[j]

LEMMA SelectedTurn ==
  ASSUME NEW E, NEW s \in Seq(E), NEW R, NEW n \in Nat, n + 1 <= Len(s),
         NEW c \in Seq(E), SelectedAs(s, R, n, c)
  PROVE  SelectedAs(s, R, n + 1, IF s[n + 1][1] \notin R THEN Append(c, s[n + 1]) ELSE c)
<1> DEFINE before == {s[j][1] : j \in 1 .. n}
           after == {s[j][1] : j \in 1 .. n + 1}
<1>0. Len(c) \in Nat /\ Len(s) \in Nat /\ s[n + 1] \in E /\ DOMAIN c = 1 .. Len(c)
  OBVIOUS
<1>1. after = before \cup {s[n + 1][1]}
  <2>1. \A j \in 1 .. n + 1 : j \in 1 .. n \/ j = n + 1
    OBVIOUS
  <2>2. 1 .. n \subseteq 1 .. n + 1 /\ n + 1 \in 1 .. n + 1
    OBVIOUS
  <2>3. QED
    BY <2>1, <2>2
<1>2. ASSUME NEW j, NEW key, key # s[n + 1][1], LastAt(s, n, j, key)
      PROVE  LastAt(s, n + 1, j, key)
  <2>1. j \in 1 .. n + 1 /\ \A l \in j + 1 .. n + 1 : l \in j + 1 .. n \/ l = n + 1
    BY <1>2 DEF LastAt
  <2>2. QED
    BY <1>2, <2>1 DEF LastAt
<1>3. CASE s[n + 1][1] \in R
  <2>1. Keys(c) = after \ R
    BY <1>1, <1>3 DEF SelectedAs
  <2>2. ASSUME NEW key \in Keys(c)
        PROVE  \E i, j : LastAt(c, Len(c), i, key) /\ LastAt(s, n + 1, j, key) /\ c[i] = s[j]
    <3>1. key # s[n + 1][1]
      BY <1>3, <2>1
    <3>2. QED
      BY <1>2, <3>1 DEF SelectedAs
  <2>3. QED
    BY <1>3, <2>1, <2>2 DEF SelectedAs
<1>4. CASE s[n + 1][1] \notin R
  <2> DEFINE q == Append(c, s[n + 1])
  <2>1. /\ q \in Seq(E) /\ Len(q) = Len(c) + 1 /\ DOMAIN q = 1 .. Len(c) + 1
        /\ q[Len(c) + 1] = s[n + 1] /\ \A i \in 1 .. Len(c) : q[i] = c[i]
    BY <1>0, AppendProperties
  <2> HIDE DEF q
  <2>2. \A i \in 1 .. Len(c) + 1 : i \in 1 .. Len(c) \/ i = Len(c) + 1
    BY <1>0
  <2>3. Keys(q) = Keys(c) \cup {s[n + 1][1]}
    <3>1. Keys(q) \subseteq Keys(c) \cup {s[n + 1][1]}
      BY <1>0, <2>1, <2>2 DEF Keys
    <3>2. 1 .. Len(c) \subseteq 1 .. Len(c) + 1 /\ Len(c) + 1 \in 1 .. Len(c) + 1
      BY <1>0
    <3>3. Keys(c) \cup {s[n + 1][1]} \subseteq Keys(q)
      BY <1>0, <2>1, <3>2 DEF Keys
    <3>4. QED
      BY <3>1, <3>3
  <2>4. Keys(q) = after \ R
    BY <1>1, <1>4, <2>3 DEF SelectedAs
  <2>5. ASSUME NEW key \in Keys(q)
        PROVE  \E i, j : LastAt(q, Len(q), i, key) /\ LastAt(s, n + 1, j, key) /\ q[i] = s[j]
    <3>1. CASE key = s[n + 1][1]
      <4>1. LastAt(q, Len(q), Len(c) + 1, key) /\ LastAt(s, n + 1, n + 1, key)
        BY <1>0, <2>1, <3>1 DEF LastAt
      <4>2. QED
        BY <2>1, <4>1
    <3>2. CASE key # s[n + 1][1]
      <4>1. key \in Keys(c)
        BY <2>3, <3>2
      <4>2. PICK i, j : LastAt(c, Len(c), i, key) /\ LastAt(s, n, j, key) /\ c[i] = s[j]
        BY <4>1 DEF SelectedAs
      <4>3. i \in 1 .. Len(c) /\ \A l \in i + 1 .. Len(c) + 1 : l \in i + 1 .. Len(c) \/ l = Len(c) + 1
        BY <1>0, <4>2 DEF LastAt
      <4>4. \A l \in i + 1 .. Len(c) : q[l] = c[l]
        BY <1>0, <2>1, <4>3
      <4>5. LastAt(q, Len(q), i, key)
        <5>1. i \in 1 .. Len(c) + 1 /\ q[i] = c[i]
          BY <1>0, <2>1, <4>3
        <5>2. c[i][1] = key /\ \A l \in i + 1 .. Len(c) : c[l][1] # key
          BY <4>2 DEF LastAt
        <5>3. ASSUME NEW l \in i + 1 .. Len(c) + 1
              PROVE  q[l][1] # key
          <6>1. CASE l \in i + 1 .. Len(c)
            BY <4>4, <5>2, <6>1
          <6>2. CASE l = Len(c) + 1
            BY <2>1, <3>2, <6>2
          <6>3. QED
            BY <4>3, <6>1, <6>2
        <5>4. QED
          BY <2>1, <5>1, <5>2, <5>3 DEF LastAt
      <4>6. LastAt(s, n + 1, j, key) /\ q[i] = s[j]
        BY <1>2, <2>1, <3>2, <4>2, <4>3
      <4>7. QED
        BY <4>5, <4>6
    <3>3. QED
      BY <3>1, <3>2
  <2>6. SelectedAs(s, R, n + 1, q)
    BY <2>4, <2>5 DEF SelectedAs
  <2>7. QED
    BY <1>4, <2>6 DEF q
<1>5. QED
  BY <1>3, <1>4

LEMMA SelectKeys ==
  ASSUME NEW E, NEW s \in Seq(E), NEW R, NEW keep, \A j \in 1 .. Len(s) : s[j] \in keep <=> s[j][1] \notin R
  PROVE  /\ Keys(Select(s, keep)) = Keys(s) \ R
         /\ \A key \in Keys(s) \ R : Value(Select(s, keep), key) = Value(s, key)
<1> DEFINE f == Collected(s, keep)
           S == {n \in Nat : n <= Len(s) => SelectedAs(s, R, n, f[n])}
<1>0. Len(s) \in Nat /\ DOMAIN s = 1 .. Len(s)
  OBVIOUS
<1>1. 0 \in S
  <2>1. f[0] = <<>>
    BY <1>0, CollectedStep
  <2>2. {s[j][1] : j \in 1 .. 0} = {} /\ Keys(<<>>) = {}
    BY DEF Keys
  <2>3. SelectedAs(s, R, 0, f[0])
    BY <2>1, <2>2 DEF SelectedAs
  <2> HIDE DEF f
  <2>4. QED
    BY <2>3
<1>2. ASSUME NEW n \in S PROVE n + 1 \in S
  <2>1. CASE n + 1 <= Len(s)
    <3>1. n \in 0 .. Len(s) - 1 /\ n \in 0 .. Len(s) /\ n + 1 \in 1 .. Len(s) /\ SelectedAs(s, R, n, f[n])
      BY <1>0, <2>1
    <3>2. f[n + 1] = IF s[n + 1] \in keep THEN Append(f[n], s[n + 1]) ELSE f[n]
      BY <1>0, <3>1, CollectedStep
    <3>3. f[n] \in Seq(E)
      BY <3>1, CollectedType
    <3> HIDE DEF f
    <3>4. f[n + 1] = IF s[n + 1][1] \notin R THEN Append(f[n], s[n + 1]) ELSE f[n]
      BY <3>1, <3>2
    <3>5. SelectedAs(s, R, n + 1, f[n + 1])
      BY <2>1, <3>1, <3>3, <3>4, SelectedTurn
    <3>6. QED
      BY <3>5
  <2> HIDE DEF f
  <2>2. QED
    BY <1>0, <2>1
<1>3. S = Nat
  <2> HIDE DEF S
  <2>1. S \in SUBSET Nat
    BY DEF S
  <2>2. QED
    BY <1>1, <1>2, <2>1, SetInduction
<1> DEFINE c == Select(s, keep)
<1>4. c = f[Len(s)] /\ c \in Seq(E)
  BY SelectType DEF Select
<1> HIDE DEF f, c
<1>5. SelectedAs(s, R, Len(s), c)
  BY <1>0, <1>3, <1>4
<1>6. Keys(c) = Keys(s) \ R
  BY <1>0, <1>5 DEF SelectedAs, Keys
<1>7. ASSUME NEW key \in Keys(s) \ R PROVE Value(c, key) = Value(s, key)
  <2>1. PICK i, j : LastAt(c, Len(c), i, key) /\ LastAt(s, Len(s), j, key) /\ c[i] = s[j]
    BY <1>5, <1>6 DEF SelectedAs
  <2>2. Value(c, key) = c[i][2] /\ Value(s, key) = s[j][2]
    BY <1>4, <2>1, ValueIs
  <2>3. QED
    BY <2>1, <2>2
<1>8. QED
  BY <1>6, <1>7 DEF c

LEMMA UniqueValue ==
  ASSUME NEW E, NEW s \in Seq(E), Unique(s), NEW i \in 1 .. Len(s)
  PROVE  Value(s, s[i][1]) = s[i][2]
<1>1. Len(s) \in Nat /\ DOMAIN s = 1 .. Len(s)
  OBVIOUS
<1>2. LastAt(s, Len(s), i, s[i][1])
  BY <1>1 DEF LastAt, Unique
<1>3. QED
  BY <1>2, ValueIs

LEMMA ConcatPlaces ==
  ASSUME NEW E, NEW s \in Seq(E), NEW t \in Seq(E)
  PROVE  /\ s \o t \in Seq(E) /\ Len(s \o t) = Len(s) + Len(t)
         /\ \A i \in 1 .. Len(s) : (s \o t)[i] = s[i]
         /\ \A i \in Len(s) + 1 .. Len(s) + Len(t) : (s \o t)[i] = t[i - Len(s)]
<1>1. Len(s) \in Nat /\ Len(t) \in Nat
  OBVIOUS
<1>2. QED
  BY <1>1, ConcatProperties

LEMMA ConcatUnique ==
  ASSUME NEW E, NEW s \in Seq(E), NEW t \in Seq(E), Unique(s), Unique(t), Keys(s) \cap Keys(t) = {}
  PROVE  Unique(s \o t) /\ Keys(s \o t) = Keys(s) \cup Keys(t)
<1> DEFINE q == s \o t
<1>0. Len(s) \in Nat /\ Len(t) \in Nat /\ DOMAIN s = 1 .. Len(s) /\ DOMAIN t = 1 .. Len(t)
  OBVIOUS
<1>1. /\ q \in Seq(E) /\ Len(q) = Len(s) + Len(t) /\ DOMAIN q = 1 .. Len(s) + Len(t)
      /\ \A i \in 1 .. Len(s) : q[i] = s[i]
      /\ \A i \in Len(s) + 1 .. Len(s) + Len(t) : q[i] = t[i - Len(s)]
  BY <1>0, ConcatProperties
<1> HIDE DEF q
<1>2. \A i \in 1 .. Len(s) + Len(t) :
         i \in 1 .. Len(s) \/ (i \in Len(s) + 1 .. Len(s) + Len(t) /\ i - Len(s) \in 1 .. Len(t))
  BY <1>0
<1>3. \A i \in 1 .. Len(s), j \in 1 .. Len(t) : s[i][1] # t[j][1]
  BY <1>0 DEF Keys
<1>4. Unique(q)
  <2> SUFFICES ASSUME NEW i \in DOMAIN q, NEW j \in DOMAIN q, q[i][1] = q[j][1] PROVE i = j
    BY DEF Unique
  <2>1. CASE i \in 1 .. Len(s) /\ j \in 1 .. Len(s)
    BY <1>0, <1>1, <2>1 DEF Unique
  <2>2. CASE i \notin 1 .. Len(s) /\ j \notin 1 .. Len(s)
    <3>1. i - Len(s) \in 1 .. Len(t) /\ j - Len(s) \in 1 .. Len(t) /\ q[i] = t[i - Len(s)] /\ q[j] = t[j - Len(s)]
      BY <1>1, <1>2, <2>2
    <3>2. i - Len(s) = j - Len(s)
      BY <1>0, <3>1 DEF Unique
    <3>3. QED
      BY <1>0, <1>1, <3>2
  <2>3. CASE i \in 1 .. Len(s) /\ j \notin 1 .. Len(s)
    <3>1. j - Len(s) \in 1 .. Len(t) /\ q[j] = t[j - Len(s)] /\ q[i] = s[i]
      BY <1>1, <1>2, <2>3
    <3>2. QED
      BY <1>3, <2>3, <3>1
  <2>4. CASE i \notin 1 .. Len(s) /\ j \in 1 .. Len(s)
    <3>1. i - Len(s) \in 1 .. Len(t) /\ q[i] = t[i - Len(s)] /\ q[j] = s[j]
      BY <1>1, <1>2, <2>4
    <3>2. QED
      BY <1>3, <2>4, <3>1
  <2>5. QED
    BY <2>1, <2>2, <2>3, <2>4
<1>5. Keys(q) \subseteq Keys(s) \cup Keys(t)
  <2>1. ASSUME NEW i \in DOMAIN q PROVE q[i][1] \in Keys(s) \cup Keys(t)
    BY <1>0, <1>1, <1>2 DEF Keys
  <2>2. QED
    BY <2>1 DEF Keys
<1>6. Keys(s) \cup Keys(t) \subseteq Keys(q)
  <2>1. ASSUME NEW i \in 1 .. Len(s) PROVE s[i][1] \in Keys(q)
    <3>1. i \in DOMAIN q /\ q[i] = s[i]
      BY <1>0, <1>1
    <3>2. QED
      BY <3>1 DEF Keys
  <2>2. ASSUME NEW i \in 1 .. Len(t) PROVE t[i][1] \in Keys(q)
    <3>1. i + Len(s) \in DOMAIN q /\ i + Len(s) \in Len(s) + 1 .. Len(s) + Len(t) /\ (i + Len(s)) - Len(s) = i
      BY <1>0, <1>1
    <3>2. q[i + Len(s)] = t[i]
      BY <1>1, <3>1
    <3>3. QED
      BY <3>1, <3>2 DEF Keys
  <2>3. QED
    BY <1>0, <2>1, <2>2 DEF Keys
<1>7. QED
  BY <1>4, <1>5, <1>6 DEF q

-----------------------------------------------------------------------------
(* The metrics of an MQTT client.                                           *)

LEMMA MergedFeatures ==
  ASSUME NEW crt \in Seq(AnyFeature), NEW given \in Seq(AnyFeature), Unique(crt)
  PROVE  LET m == MergeFeatureLists(crt, given)
         IN  /\ m \in Seq(AnyFeature) /\ Unique(m) /\ Keys(m) = Keys(crt) \cup Keys(given)
             /\ \A i \in DOMAIN crt : m[i][1] = crt[i][1]
             /\ \A p \in ToSet(m) :
                  p[2] = IF p[1] \in Keys(given) THEN Value(given, p[1]) ELSE Value(crt, p[1])
<1> DEFINE m == MergeFeatureLists(crt, given)
<1>0. DOMAIN crt = 1 .. Len(crt) /\ DOMAIN given = 1 .. Len(given)
  OBVIOUS
<1>1. PutAll(<<>>, crt) = crt
  BY PutAllUnique
<1>2. m \in Seq(AnyFeature) /\ FilledAs(crt, given, Len(given), m)
  BY <1>1, PutAllPairs DEF MergeFeatureLists
<1> HIDE DEF m
<1>3. {given[j][1] : j \in 1 .. Len(given)} = Keys(given)
  BY <1>0 DEF Keys
<1>4. Unique(m) /\ Keys(m) = Keys(crt) \cup Keys(given) /\ \A i \in DOMAIN crt : m[i][1] = crt[i][1]
  BY <1>0, <1>2, <1>3 DEF FilledAs
<1>5. ASSUME NEW p \in ToSet(m)
      PROVE  p[2] = IF p[1] \in Keys(given) THEN Value(given, p[1]) ELSE Value(crt, p[1])
  <2>1. PICK i \in 1 .. Len(m) : p = m[i]
    BY <1>2 DEF ToSet
  <2>2. CASE m[i][1] \in Keys(given)
    <3>1. PICK j : LastAt(given, Len(given), j, m[i][1]) /\ m[i] = given[j]
      BY <1>2, <1>3, <2>2 DEF FilledAs
    <3>2. Value(given, m[i][1]) = given[j][2]
      BY <3>1, ValueIs
    <3>3. QED
      BY <2>1, <2>2, <3>1, <3>2
  <2>3. CASE m[i][1] \notin Keys(given)
    <3>1. i <= Len(crt) /\ m[i] = crt[i]
      BY <1>2, <1>3, <2>3 DEF FilledAs
    <3>2. i \in 1 .. Len(crt)
      BY <3>1, <1>2
    <3>3. Value(crt, crt[i][1]) = crt[i][2]
      BY <3>2, UniqueValue
    <3>4. QED
      BY <2>1, <2>3, <3>1, <3>3
  <2>4. QED
    BY <2>2, <2>3
<1>6. QED
  BY <1>2, <1>4, <1>5 DEF m

LEMMA UserFeaturesType ==
  ASSUME NEW user \in Seq(Entry)
  PROVE  UserFeatures(user) \in Seq(AnyFeature)
<1>1. ASSUME "IoTSDKFeature" \in Keys(user)
      PROVE  Value(user, "IoTSDKFeature") \in Seq(AnyFeature)
  <2>1. PICK i : LastAt(user, Len(user), i, "IoTSDKFeature") /\ Value(user, "IoTSDKFeature") = user[i][2]
    BY <1>1, LastPlace
  <2>2. user[i] \in Entry /\ user[i][1] = "IoTSDKFeature"
    BY <2>1 DEF LastAt
  <2>3. QED
    <3>1. SdkFeature \subseteq AnyFeature
      BY DEF AnyFeature
    <3>2. Value(user, "IoTSDKFeature") \in Seq(SdkFeature)
      BY <2>1, <2>2, MetricsAssumption
    <3>3. QED
      BY <3>1, <3>2
<1>2. <<>> \in Seq(AnyFeature)
  OBVIOUS
<1>3. QED
  BY <1>1, <1>2 DEF UserFeatures, LastOf

(* Everything that MetricsMerge says of the entries, but for the certificate. *)
MergedAs(user, crt, entries) ==
    LET features == Value(entries, "IoTSDKFeature")
        given == UserFeatures(user)
    IN  /\ Unique(entries) /\ Unique(features)
        /\ Value(entries, "CRTVersion") = "crt"
        /\ Keys(entries) = Reserved \cup Keys(user)
        /\ \A key \in Keys(user) \ Reserved : Value(entries, key) = Value(user, key)
        /\ Keys(features) = Keys(crt) \cup Keys(given)
        /\ \A p \in ToSet(features) :
             p[2] = IF p[1] \in Keys(given) THEN Value(given, p[1]) ELSE Value(crt, p[1])
        /\ \A i \in DOMAIN crt : features[i][1] = crt[i][1]

LEMMA CreatedMetrics ==
  ASSUME NEW user \in Seq(Entry), NEW crt \in Seq(AnyFeature), Unique(crt)
  PROVE  CreateMetrics(user, crt) \in Metadata /\ MergedAs(user, crt, CreateMetrics(user, crt))
<1> DEFINE Elem == Entry \cup {<<"CRTVersion", "crt">>, <<"IoTSDKMetricsVersion", "1">>}
                   \cup {"IoTSDKFeature"} \X Features
           first == <<<<"CRTVersion", "crt">>>>
           own == OwnEntries(user)
           d == PutAll(first, own)
           m == MergeFeatureLists(crt, UserFeatures(user))
           two == <<<<"IoTSDKFeature", m>>, <<"IoTSDKMetricsVersion", "1">>>>
           all == d \o two
           keep == {e \in ToSet(user) : e[1] \notin Reserved}
<1>1. \A j \in 1 .. Len(user) : user[j] \in keep <=> user[j][1] \notin Reserved
  BY DEF ToSet
<1>2. own \in Seq(Entry) /\ own = Select(user, keep)
  BY SelectType DEF OwnEntries
<1>3. /\ Keys(own) = Keys(user) \ Reserved
      /\ \A key \in Keys(user) \ Reserved : Value(own, key) = Value(user, key)
  <2> HIDE DEF keep, own
  <2>1. QED
    BY <1>1, <1>2, SelectKeys
<1>4. /\ m \in Seq(AnyFeature) /\ Unique(m) /\ Keys(m) = Keys(crt) \cup Keys(UserFeatures(user))
      /\ \A i \in DOMAIN crt : m[i][1] = crt[i][1]
      /\ \A p \in ToSet(m) :
           p[2] = IF p[1] \in Keys(UserFeatures(user)) THEN Value(UserFeatures(user), p[1]) ELSE Value(crt, p[1])
  BY UserFeaturesType, MergedFeatures
<1> HIDE DEF own, m
<1>5. /\ own \in Seq(Elem) /\ first \in Seq(Elem) /\ Len(first) = 1 /\ first[1] = <<"CRTVersion", "crt">>
      /\ two \in Seq(Elem) /\ Len(two) = 2 /\ two[1] = <<"IoTSDKFeature", m>> /\ two[2] = <<"IoTSDKMetricsVersion", "1">>
  <2>1. <<"IoTSDKFeature", m>> \in Elem /\ <<"IoTSDKMetricsVersion", "1">> \in Elem /\ <<"CRTVersion", "crt">> \in Elem
    BY <1>4 DEF Features
  <2>2. Entry \subseteq Elem
    OBVIOUS
  <2> HIDE DEF Elem
  <2>3. own \in Seq(Elem)
    BY <1>2, <2>2
  <2>4. QED
    BY <2>1, <2>3
<1> HIDE DEF Elem, first, two
<1>6. Unique(first) /\ Keys(first) = {"CRTVersion"}
  <2>1. DOMAIN first = 1 .. 1
    BY <1>5
  <2>2. QED
    BY <1>5, <2>1 DEF Unique, Keys
<1>7. d \in Seq(Elem) /\ FilledAs(first, own, Len(own), d)
  BY <1>5, <1>6, PutAllPairs
<1> HIDE DEF d
<1>8. {own[j][1] : j \in 1 .. Len(own)} = Keys(own)
  BY <1>5 DEF Keys
<1>9. Unique(d) /\ Keys(d) = {"CRTVersion"} \cup (Keys(user) \ Reserved)
  BY <1>3, <1>6, <1>7, <1>8 DEF FilledAs
<1>10. Unique(two) /\ Keys(two) = {"IoTSDKFeature", "IoTSDKMetricsVersion"}
  <2>1. DOMAIN two = {1, 2}
    BY <1>5
  <2>2. QED
    BY <1>5, <2>1 DEF Unique, Keys
<1>11. Keys(d) \cap Keys(two) = {}
  BY <1>9, <1>10 DEF Reserved
<1>12. Unique(all) /\ Keys(all) = Keys(d) \cup Keys(two)
  BY <1>5, <1>7, <1>9, <1>10, <1>11, ConcatUnique
<1>13. /\ all \in Seq(Elem) /\ Len(all) = Len(d) + 2 /\ Len(d) \in Nat
       /\ \A i \in 1 .. Len(d) : all[i] = d[i]
       /\ all[Len(d) + 1] = two[1]
  <2>1. Len(d) \in Nat /\ d \in Seq(Elem) /\ two \in Seq(Elem) /\ Len(two) = 2
    BY <1>5, <1>7
  <2>2. /\ all \in Seq(Elem) /\ Len(all) = Len(d) + Len(two)
        /\ \A i \in 1 .. Len(d) : all[i] = d[i]
        /\ \A i \in Len(d) + 1 .. Len(d) + Len(two) : all[i] = two[i - Len(d)]
    BY <2>1, ConcatPlaces
  <2>3. Len(d) + 1 \in Len(d) + 1 .. Len(d) + Len(two) /\ (Len(d) + 1) - Len(d) = 1
    BY <2>1
  <2>4. QED
    BY <2>1, <2>2, <2>3
<1> HIDE DEF all
<1>14. \A i \in 1 .. Len(d) : Value(all, d[i][1]) = d[i][2]
  <2> SUFFICES ASSUME NEW i \in 1 .. Len(d) PROVE Value(all, d[i][1]) = d[i][2]
    OBVIOUS
  <2>1. i \in 1 .. Len(all) /\ all[i] = d[i]
    BY <1>13
  <2>2. QED
    BY <1>12, <1>13, <2>1, UniqueValue
<1>15. Value(all, "IoTSDKFeature") = m
  <2>1. Len(d) + 1 \in 1 .. Len(all) /\ all[Len(d) + 1] = <<"IoTSDKFeature", m>>
    BY <1>5, <1>13
  <2>2. QED
    BY <1>12, <1>13, <2>1, UniqueValue
<1>16. Keys(all) = Reserved \cup Keys(user)
  BY <1>9, <1>10, <1>12 DEF Reserved
<1>17. Value(all, "CRTVersion") = "crt"
  <2>1. 1 <= Len(d) /\ d[1][1] = "CRTVersion" /\ 1 \in 1 .. Len(d)
    BY <1>5, <1>7, <1>13 DEF FilledAs
  <2>2. "CRTVersion" \notin Keys(own)
    BY <1>3 DEF Reserved
  <2>3. d[1] = first[1]
    BY <1>7, <1>8, <2>1, <2>2 DEF FilledAs
  <2>4. QED
    BY <1>5, <1>14, <2>1, <2>3
<1>18. ASSUME NEW key \in Keys(user) \ Reserved PROVE Value(all, key) = Value(user, key)
  <2>1. key \in Keys(d) /\ DOMAIN d = 1 .. Len(d)
    BY <1>7, <1>9
  <2>2. PICK i \in 1 .. Len(d) : d[i][1] = key
    BY <2>1 DEF Keys
  <2>3. PICK j : LastAt(own, Len(own), j, d[i][1]) /\ d[i] = own[j]
    BY <1>3, <1>7, <1>8, <2>2 DEF FilledAs
  <2>4. Value(own, key) = own[j][2]
    BY <1>5, <2>2, <2>3, ValueIs
  <2>5. QED
    BY <1>3, <1>14, <2>2, <2>3, <2>4
<1>19. CreateMetrics(user, crt) = all
  BY DEF CreateMetrics, all, d, two, m, own, first
<1>20. Metadata = Seq(Elem)
  BY DEF Metadata, Elem
<1>21. QED
  BY <1>4, <1>12, <1>13, <1>15, <1>16, <1>17, <1>18, <1>19, <1>20 DEF MergedAs

(* A part of the library's features: their ids, each once, and of a certificate
   only the one in the context. *)
CrtPart(s, ids, ctx) ==
    /\ s \in Seq(AnyFeature) /\ Unique(s) /\ Keys(s) \subseteq ids
    /\ \A i \in 1 .. Len(s) : s[i][1] = "I" => s[i][2] = CertificateSourceMetricsValue(ctx.material)

LEMMA CrtFeature ==
  ASSUME NEW id \in FeatureIds, NEW value \in FeatureCodes \cup {None}, NEW ctx,
         id = "I" /\ value # None => value = CertificateSourceMetricsValue(ctx.material)
  PROVE  CrtPart(Feature(id, value), {id}, ctx)
<1>1. CASE value = None
  <2>1. Feature(id, value) = <<>> /\ Keys(<<>>) = {} /\ Unique(<<>>) /\ <<>> \in Seq(AnyFeature) /\ Len(<<>>) = 0
    BY <1>1 DEF Feature, Keys, Unique
  <2>2. QED
    BY <2>1 DEF CrtPart
<1>2. CASE value # None
  <2> DEFINE s == <<<<id, value>>>>
  <2>1. <<id, value>> \in AnyFeature
    BY <1>2 DEF AnyFeature
  <2>2. s \in Seq(AnyFeature) /\ Len(s) = 1 /\ DOMAIN s = 1 .. 1 /\ s[1] = <<id, value>>
    BY <2>1
  <2> HIDE DEF s
  <2>3. \A i \in 1 .. 1 : i = 1
    OBVIOUS
  <2>4. Keys(s) = {id} /\ Unique(s)
    BY <2>2, <2>3 DEF Keys, Unique
  <2>5. CrtPart(s, {id}, ctx)
    BY <1>2, <2>2, <2>3, <2>4 DEF CrtPart
  <2>6. QED
    BY <1>2, <2>5 DEF Feature, s
<1>3. QED
  BY <1>1, <1>2

LEMMA CrtConcat ==
  ASSUME NEW s, NEW t, NEW A, NEW B, NEW ctx, CrtPart(s, A, ctx), CrtPart(t, B, ctx), A \cap B = {}
  PROVE  CrtPart(s \o t, A \cup B, ctx)
<1>0. s \in Seq(AnyFeature) /\ t \in Seq(AnyFeature) /\ Len(s) \in Nat /\ Len(t) \in Nat
  BY DEF CrtPart
<1> DEFINE q == s \o t
<1>1. Keys(s) \cap Keys(t) = {}
  BY DEF CrtPart
<1>2. Unique(q) /\ Keys(q) = Keys(s) \cup Keys(t)
  BY <1>0, <1>1, ConcatUnique DEF CrtPart
<1>3. /\ q \in Seq(AnyFeature) /\ Len(q) = Len(s) + Len(t)
      /\ \A i \in 1 .. Len(s) : q[i] = s[i]
      /\ \A i \in Len(s) + 1 .. Len(s) + Len(t) : q[i] = t[i - Len(s)]
  BY <1>0, ConcatProperties
<1> HIDE DEF q
<1>4. \A i \in 1 .. Len(q) :
         i \in 1 .. Len(s) \/ (i \in Len(s) + 1 .. Len(s) + Len(t) /\ i - Len(s) \in 1 .. Len(t))
  BY <1>0, <1>3
<1>5. \A i \in 1 .. Len(q) : q[i][1] = "I" => q[i][2] = CertificateSourceMetricsValue(ctx.material)
  <2> SUFFICES ASSUME NEW i \in 1 .. Len(q), q[i][1] = "I"
               PROVE  q[i][2] = CertificateSourceMetricsValue(ctx.material)
    OBVIOUS
  <2>1. CASE i \in 1 .. Len(s)
    BY <1>3, <2>1 DEF CrtPart
  <2>2. CASE i \notin 1 .. Len(s)
    <3>1. i - Len(s) \in 1 .. Len(t) /\ q[i] = t[i - Len(s)]
      BY <1>3, <1>4, <2>2
    <3>2. t[i - Len(s)][1] = "I" => t[i - Len(s)][2] = CertificateSourceMetricsValue(ctx.material)
      BY <3>1 DEF CrtPart
    <3>3. QED
      BY <3>1, <3>2
  <2>3. QED
    BY <2>1, <2>2
<1>6. Keys(q) \subseteq A \cup B
  BY <1>2 DEF CrtPart
<1>7. QED
  BY <1>2, <1>3, <1>5, <1>6 DEF CrtPart, q

LEMMA NoFeature ==
  ASSUME NEW ids, NEW ctx
  PROVE  CrtPart(<<>>, ids, ctx)
<1>1. Keys(<<>>) = {} /\ Unique(<<>>) /\ <<>> \in Seq(AnyFeature) /\ Len(<<>>) = 0
  BY DEF Keys, Unique
<1>2. QED
  BY <1>1 DEF CrtPart

(* The values of the features are strings, or none. *)
LEMMA FeatureValues ==
  /\ \A x : RetryJitterMetricsValue(x) \in FeatureCodes \cup {None}
  /\ \A x : SessionBehaviorMetricsValue(x) \in FeatureCodes \cup {None}
  /\ \A x : QueueBehaviorMetricsValue(x) \in FeatureCodes \cup {None}
  /\ \A x : OutboundAliasMetricsValue(x) \in FeatureCodes \cup {None}
  /\ \A x : InboundAliasMetricsValue(x) \in FeatureCodes \cup {None}
  /\ \A x : ProtocolVersionMetricsValue(x) \in FeatureCodes \cup {None}
  /\ \A x : HttpProxyTypeMetricsValue(x) \in FeatureCodes \cup {None}
  /\ \A x : CertificateSourceMetricsValue(x) \in FeatureCodes \cup {None}
  /\ \A x : TlsCipherPreferenceMetricsValue(x) \in FeatureCodes \cup {None}
  /\ \A x : MinimumTlsVersionMetricsValue(x) \in FeatureCodes \cup {None}
  /\ \A x : SocketImplementationMetricsValue(x) \in FeatureCodes \cup {None}
<1>1. \A x : RetryJitterMetricsValue(x) \in FeatureCodes \cup {None}
  BY DEF RetryJitterMetricsValue, Get, FeatureCodes
<1>2. \A x : SessionBehaviorMetricsValue(x) \in FeatureCodes \cup {None}
  BY DEF SessionBehaviorMetricsValue, Get, FeatureCodes
<1>3. \A x : QueueBehaviorMetricsValue(x) \in FeatureCodes \cup {None}
  BY DEF QueueBehaviorMetricsValue, Get, FeatureCodes
<1>4. \A x : OutboundAliasMetricsValue(x) \in FeatureCodes \cup {None}
  BY DEF OutboundAliasMetricsValue, Get, FeatureCodes
<1>5. \A x : InboundAliasMetricsValue(x) \in FeatureCodes \cup {None}
  BY DEF InboundAliasMetricsValue, Get, FeatureCodes
<1>6. \A x : ProtocolVersionMetricsValue(x) \in FeatureCodes \cup {None}
  BY DEF ProtocolVersionMetricsValue, Get, FeatureCodes
<1>7. \A x : HttpProxyTypeMetricsValue(x) \in FeatureCodes \cup {None}
  BY DEF HttpProxyTypeMetricsValue, FeatureCodes
<1>8. \A x : CertificateSourceMetricsValue(x) \in FeatureCodes \cup {None}
  BY DEF CertificateSourceMetricsValue, Get, FeatureCodes
<1>9. \A x : TlsCipherPreferenceMetricsValue(x) \in FeatureCodes \cup {None}
  BY DEF TlsCipherPreferenceMetricsValue, Get, FeatureCodes
<1>10. \A x : MinimumTlsVersionMetricsValue(x) \in FeatureCodes \cup {None}
  BY DEF MinimumTlsVersionMetricsValue, Get, FeatureCodes
<1>11. \A x : SocketImplementationMetricsValue(x) \in FeatureCodes \cup {None}
  BY DEF SocketImplementationMetricsValue, FeatureCodes
<1>12. QED
  BY <1>1, <1>2, <1>3, <1>4, <1>5, <1>6, <1>7, <1>8, <1>9, <1>10, <1>11

(* The source that a TLS context tells of, if any, is its certificate's. *)
SourceTrue(ctx) == ctx # None => ctx.source \in {None, ctx.material}

LEMMA TlsPart ==
  ASSUME NEW ctx, SourceTrue(ctx)
  PROVE  CrtPart(TlsFeatures(ctx), {"I", "J", "K"}, ctx)
<1>1. CASE ctx = None
  BY <1>1, NoFeature DEF TlsFeatures
<1>2. CASE ctx # None
  <2> DEFINE i == Feature("I", CertificateSourceMetricsValue(ctx.source))
             j == Feature("J", TlsCipherPreferenceMetricsValue(ctx.cipher))
             k == Feature("K", MinimumTlsVersionMetricsValue(ctx.minTls))
  <2>1. CertificateSourceMetricsValue(None) = None
    BY MetricsAssumption DEF CertificateSourceMetricsValue, Get, Kinds
  <2>2. CertificateSourceMetricsValue(ctx.source) # None => ctx.source = ctx.material
    BY <1>2, <2>1 DEF SourceTrue
  <2>3. CrtPart(i, {"I"}, ctx)
    BY <2>2, FeatureValues, CrtFeature DEF FeatureIds
  <2>4. CrtPart(j, {"J"}, ctx) /\ CrtPart(k, {"K"}, ctx)
    BY FeatureValues, CrtFeature DEF FeatureIds
  <2> HIDE DEF i, j, k
  <2>5. CrtPart(i \o j, {"I"} \cup {"J"}, ctx)
    BY <2>3, <2>4, CrtConcat
  <2>6. CrtPart((i \o j) \o k, ({"I"} \cup {"J"}) \cup {"K"}, ctx)
    BY <2>4, <2>5, CrtConcat
  <2>7. TlsFeatures(ctx) = (i \o j) \o k
    BY <1>2 DEF TlsFeatures, i, j, k
  <2>8. ({"I"} \cup {"J"}) \cup {"K"} = {"I", "J", "K"}
    OBVIOUS
  <2>9. QED
    BY <2>6, <2>7, <2>8
<1>3. QED
  BY <1>1, <1>2

LEMMA ProxyPart ==
  ASSUME NEW proxy, NEW ctx
  PROVE  CrtPart(ProxyFeature(proxy), {"H"}, ctx)
<1>1. CrtPart(Feature("H", HttpProxyTypeMetricsValue(proxy)), {"H"}, ctx)
  BY FeatureValues, CrtFeature DEF FeatureIds
<1>2. QED
  BY <1>1, NoFeature DEF ProxyFeature

LEMMA Mqtt5Features ==
  ASSUME NEW opt, NEW ctx, SourceTrue(ctx), NEW platform
  PROVE  CrtPart(EncodedFeatureList(opt, ctx, platform), FeatureIds, ctx)
<1> DEFINE a == Feature("A", RetryJitterMetricsValue(opt.jitter))
           b == Feature("B", SessionBehaviorMetricsValue(opt.session))
           c == Feature("C", QueueBehaviorMetricsValue(opt.queue))
           d == Feature("D", OutboundAliasMetricsValue(opt.outbound))
           e == Feature("E", InboundAliasMetricsValue(opt.inbound))
           f == Feature("F", ProtocolVersionMetricsValue("MQTT5"))
           g == Feature("G", SocketImplementationMetricsValue(platform))
           h == ProxyFeature(opt.proxy)
           t == TlsFeatures(ctx)
<1>1. /\ CrtPart(a, {"A"}, ctx) /\ CrtPart(b, {"B"}, ctx) /\ CrtPart(c, {"C"}, ctx)
      /\ CrtPart(d, {"D"}, ctx) /\ CrtPart(e, {"E"}, ctx)
  BY FeatureValues, CrtFeature DEF FeatureIds
<1>2. CrtPart(f, {"F"}, ctx) /\ CrtPart(g, {"G"}, ctx)
  BY FeatureValues, CrtFeature DEF FeatureIds
<1>3. CrtPart(h, {"H"}, ctx) /\ CrtPart(t, {"I", "J", "K"}, ctx)
  BY ProxyPart, TlsPart
<1>4. EncodedFeatureList(opt, ctx, platform) = a \o b \o c \o d \o e \o f \o g \o h \o t
  BY DEF EncodedFeatureList
<1> HIDE DEF a, b, c, d, e, f, g, h, t
<1>5. CrtPart(a \o b, {"A"} \cup {"B"}, ctx)
  BY <1>1, CrtConcat
<1>6. CrtPart(a \o b \o c, {"A"} \cup {"B"} \cup {"C"}, ctx)
  BY <1>1, <1>5, CrtConcat
<1>7. CrtPart(a \o b \o c \o d, {"A"} \cup {"B"} \cup {"C"} \cup {"D"}, ctx)
  BY <1>1, <1>6, CrtConcat
<1>8. CrtPart(a \o b \o c \o d \o e, {"A"} \cup {"B"} \cup {"C"} \cup {"D"} \cup {"E"}, ctx)
  BY <1>1, <1>7, CrtConcat
<1>9. CrtPart(a \o b \o c \o d \o e \o f, {"A"} \cup {"B"} \cup {"C"} \cup {"D"} \cup {"E"} \cup {"F"}, ctx)
  BY <1>2, <1>8, CrtConcat
<1>10. CrtPart(a \o b \o c \o d \o e \o f \o g,
               {"A"} \cup {"B"} \cup {"C"} \cup {"D"} \cup {"E"} \cup {"F"} \cup {"G"}, ctx)
  BY <1>2, <1>9, CrtConcat
<1>11. CrtPart(a \o b \o c \o d \o e \o f \o g \o h,
               {"A"} \cup {"B"} \cup {"C"} \cup {"D"} \cup {"E"} \cup {"F"} \cup {"G"} \cup {"H"}, ctx)
  BY <1>3, <1>10, CrtConcat
<1>12. CrtPart(a \o b \o c \o d \o e \o f \o g \o h \o t,
               {"A"} \cup {"B"} \cup {"C"} \cup {"D"} \cup {"E"} \cup {"F"} \cup {"G"} \cup {"H"} \cup {"I", "J", "K"}, ctx)
  BY <1>3, <1>11, CrtConcat
<1>13. {"A"} \cup {"B"} \cup {"C"} \cup {"D"} \cup {"E"} \cup {"F"} \cup {"G"} \cup {"H"} \cup {"I", "J", "K"} = FeatureIds
  BY DEF FeatureIds
<1>14. QED
  BY <1>4, <1>12, <1>13

LEMMA Mqtt3Features ==
  ASSUME NEW proxy, NEW ctx, SourceTrue(ctx), NEW platform
  PROVE  CrtPart(EncodedFeatureListMqtt3(proxy, ctx, platform), FeatureIds, ctx)
<1> DEFINE f == Feature("F", ProtocolVersionMetricsValue("MQTT311"))
           g == Feature("G", SocketImplementationMetricsValue(platform))
           h == ProxyFeature(proxy)
           t == TlsFeatures(ctx)
<1>1. CrtPart(f, {"F"}, ctx) /\ CrtPart(g, {"G"}, ctx)
  BY FeatureValues, CrtFeature DEF FeatureIds
<1>2. CrtPart(h, {"H"}, ctx) /\ CrtPart(t, {"I", "J", "K"}, ctx)
  BY ProxyPart, TlsPart
<1>3. EncodedFeatureListMqtt3(proxy, ctx, platform) = f \o g \o h \o t
  BY DEF EncodedFeatureListMqtt3
<1> HIDE DEF f, g, h, t
<1>4. CrtPart(f \o g, {"F"} \cup {"G"}, ctx)
  BY <1>1, CrtConcat
<1>5. CrtPart(f \o g \o h, {"F"} \cup {"G"} \cup {"H"}, ctx)
  BY <1>2, <1>4, CrtConcat
<1>6. CrtPart(f \o g \o h \o t, {"F"} \cup {"G"} \cup {"H"} \cup {"I", "J", "K"}, ctx)
  BY <1>2, <1>5, CrtConcat
<1>7. {"F"} \cup {"G"} \cup {"H"} \cup {"I", "J", "K"} \subseteq FeatureIds
  BY DEF FeatureIds
<1>8. QED
  BY <1>3, <1>6, <1>7 DEF CrtPart

(* The metrics were made by CreateMetrics from features of the library that
   name each id once, and options and contexts tell the truth of their
   certificate. *)
MetricsInv ==
    /\ MetricsTypeOK
    /\ SourceTrue(tlsOptions) /\ SourceTrue(tlsContext)
    /\ metrics # NoMetrics =>
         /\ metrics.entries = CreateMetrics(metrics.user, metrics.crt)
         /\ CrtPart(metrics.crt, FeatureIds, metrics.context)

LEMMA ReportStep ==
  ASSUME MetricsInv, NEW user \in UserMetrics, NEW crt, CrtPart(crt, FeatureIds, tlsContext), Report(user, crt)
  PROVE  MetricsInv'
<1>1. user \in Seq(Entry)
  <2>1. PICK m \in 0 .. MaxEntries : user \in [1 .. m -> Entry]
    BY DEF UserMetrics, BoundedSeq, SeqOf
  <2>2. QED
    BY <2>1, MetricsAssumption, SeqDef
<1>2. crt \in Seq(AnyFeature) /\ Unique(crt)
  BY DEF CrtPart
<1>3. CreateMetrics(user, crt) \in Metadata
  BY <1>1, <1>2, CreatedMetrics
<1>4. /\ metrics' = [user |-> user, crt |-> crt, entries |-> CreateMetrics(user, crt), context |-> tlsContext]
      /\ tlsOptions' = tlsOptions /\ tlsContext' = tlsContext
  BY DEF Report
<1>5. MetricsTypeOK'
  BY <1>1, <1>2, <1>3, <1>4 DEF MetricsInv, MetricsTypeOK, Features
<1>6. QED
  BY <1>4, <1>5 DEF MetricsInv, SourceTrue

LEMMA MetricsStep == MetricsInv /\ [MetricsNext]_metricsVars => MetricsInv'
<1> SUFFICES ASSUME MetricsInv, [MetricsNext]_metricsVars PROVE MetricsInv'
  OBVIOUS
<1>1. CASE UNCHANGED metricsVars
  BY <1>1 DEF metricsVars, MetricsInv, MetricsTypeOK, SourceTrue
<1>2. CASE MakeOptions
  <2>1. tlsOptions' \in TlsOptions /\ SourceTrue(tlsOptions')
    <3>1. \A kind \in Kinds : ClientOptions(kind) \in TlsOptions /\ SourceTrue(ClientOptions(kind))
      BY DEF TlsOptions, NoOptions, ClientOptions, SourceTrue
    <3>2. NoOptions \in TlsOptions /\ SourceTrue(NoOptions)
      BY DEF TlsOptions, NoOptions, SourceTrue
    <3>3. \A kind \in Kinds : LET o == [NoOptions EXCEPT !.material = kind, !.verify = FALSE]
                             IN  o \in TlsOptions /\ SourceTrue(o)
      BY DEF TlsOptions, NoOptions, SourceTrue
    <3>4. "files" \in Kinds /\ "pkcs11" \in Kinds /\ "pkcs12" \in Kinds /\ "windows" \in Kinds
      BY DEF Kinds
    <3>5. QED
      BY <1>2, <3>1, <3>2, <3>3, <3>4
      DEF MakeOptions, CreateClientWithMtls, CreateClientWithMtlsPkcs11, CreateClientWithMtlsPkcs12,
          CreateClientWithMtlsWindowsCertStorePath, CreateServer, CreateServerPkcs12
  <2>2. QED
    BY <1>2, <2>1 DEF MakeOptions, MetricsInv, MetricsTypeOK
<1>3. CASE ChangeOptions
  <2>1. tlsOptions \in TlsOptions /\ SourceTrue(tlsOptions) /\ tlsOptions # None
    BY <1>3 DEF ChangeOptions, MetricsInv, MetricsTypeOK
  <2>2. tlsOptions' \in TlsOptions /\ tlsOptions'.source = tlsOptions.source /\ tlsOptions'.material = tlsOptions.material
    BY <1>3, <2>1 DEF ChangeOptions, TlsOptions
  <2>3. SourceTrue(tlsOptions')
    BY <2>1, <2>2 DEF SourceTrue
  <2>4. QED
    BY <1>3, <2>2, <2>3 DEF ChangeOptions, MetricsInv, MetricsTypeOK
<1>4. CASE NewClientTlsContext
  BY <1>4 DEF NewClientTlsContext, MetricsInv, MetricsTypeOK
<1>5. CASE CreateMetricsMqtt5
  <2>1. PICK user \in UserMetrics, opt \in Mqtt5Settings, platform \in Platforms :
           Report(user, EncodedFeatureList(opt, tlsContext, platform))
    BY <1>5 DEF CreateMetricsMqtt5
  <2>2. CrtPart(EncodedFeatureList(opt, tlsContext, platform), FeatureIds, tlsContext)
    BY Mqtt5Features DEF MetricsInv
  <2>3. QED
    BY <2>1, <2>2, ReportStep
<1>6. CASE CreateMetricsMqtt3
  <2>1. PICK user \in UserMetrics, proxy \in Proxies, platform \in Platforms :
           Report(user, EncodedFeatureListMqtt3(proxy, tlsContext, platform))
    BY <1>6 DEF CreateMetricsMqtt3
  <2>2. CrtPart(EncodedFeatureListMqtt3(proxy, tlsContext, platform), FeatureIds, tlsContext)
    BY Mqtt3Features DEF MetricsInv
  <2>3. QED
    BY <2>1, <2>2, ReportStep
<1>7. QED
  BY <1>1, <1>2, <1>3, <1>4, <1>5, <1>6 DEF MetricsNext

(* The invariant of options, contexts and metrics. *)
THEOREM MetricsInvariance == MetricsSpec => []MetricsInv
<1>1. MetricsInit => MetricsInv
  <2> SUFFICES ASSUME MetricsInit PROVE MetricsInv
    OBVIOUS
  <2>1. NoMetrics \in [user : Seq(Entry), crt : Features, entries : Metadata, context : TlsOptions \cup {None}]
    BY DEF NoMetrics, Features, Metadata
  <2>2. QED
    BY <2>1 DEF MetricsInit, MetricsInv, MetricsTypeOK, SourceTrue
<1>2. QED
  BY <1>1, MetricsStep, PTL DEF MetricsSpec

(* Every variable keeps its type. *)
THEOREM MetricsTypeCorrect == MetricsSpec => []MetricsTypeOK
<1>1. MetricsInv => MetricsTypeOK
  BY DEF MetricsInv
<1>2. QED
  BY <1>1, MetricsInvariance, PTL

(* Metrics that _create_metrics made have each key and each feature once, the
   library's version, the user's other entries with their last values, every
   feature of the library at its place with the user's value where versions
   agree, and the certificate of the context: for entries and features of any
   number, any settings and any proxy. *)
THEOREM MetricsHold == MetricsSpec => []MetricsMerge
<1>1. ASSUME MetricsInv PROVE MetricsMerge
  <2> SUFFICES ASSUME metrics # NoMetrics PROVE MetricsMerge
    BY DEF MetricsMerge
  <2>1. /\ metrics.user \in Seq(Entry) /\ metrics.crt \in Seq(AnyFeature)
        /\ metrics.entries = CreateMetrics(metrics.user, metrics.crt)
        /\ CrtPart(metrics.crt, FeatureIds, metrics.context)
    BY <1>1 DEF MetricsInv, MetricsTypeOK, Features
  <2>2. MergedAs(metrics.user, metrics.crt, metrics.entries)
    BY <2>1, CreatedMetrics DEF CrtPart
  <2>3. \A p \in ToSet(metrics.crt) : p[1] = "I" => p[2] = CertificateSourceMetricsValue(metrics.context.material)
    BY <2>1 DEF CrtPart, ToSet
  <2>4. QED
    BY <2>2, <2>3 DEF MergedAs, MetricsMerge, UserFeatures
<1>2. QED
  BY <1>1, MetricsInvariance, PTL

-----------------------------------------------------------------------------
(* CBOR: the recursions of the encoder and the decoder.                     *)

FollowTurn(head, parts, f, i) == IF i = 0 THEN head ELSE Then(f[i - 1], parts[i])

(* The recursion that defines Follow has a solution. *)
LEMMA FollowDef ==
  ASSUME NEW head, NEW parts, Len(parts) \in Nat
  PROVE  /\ Follow(head, parts)[0] = head
         /\ \A i \in 0 .. Len(parts) - 1 : Follow(head, parts)[i + 1] = Then(Follow(head, parts)[i], parts[i + 1])
<1> DEFINE Solves(g, n) == g = [i \in 0 .. n |-> FollowTurn(head, parts, g, i)]
           S == {n \in Nat : \E g : Solves(g, n)}
<1>1. 0 \in S
  <2>1. Solves([i \in 0 .. 0 |-> head], 0)
    BY DEF FollowTurn
  <2>2. QED
    BY <2>1
<1>2. ASSUME NEW n \in S PROVE n + 1 \in S
  <2>1. PICK g : Solves(g, n)
    OBVIOUS
  <2> DEFINE h == [i \in 0 .. n + 1 |-> FollowTurn(head, parts, g, i)]
  <2>2. \A i \in 0 .. n : h[i] = g[i]
    BY <2>1
  <2>3. \A i \in 0 .. n + 1 : FollowTurn(head, parts, g, i) = FollowTurn(head, parts, h, i)
    <3> HIDE DEF h
    <3>1. QED
      BY <2>2 DEF FollowTurn
  <2>4. Solves(h, n + 1)
    BY <2>3
  <2>5. \E f : Solves(f, n + 1)
    <3> HIDE DEF h, Solves
    <3>1. QED
      BY <2>4
  <2>6. QED
    BY <2>5
<1>3. S = Nat
  <2> HIDE DEF S
  <2>1. S \in SUBSET Nat
    BY DEF S
  <2>2. QED
    BY <1>1, <1>2, <2>1, SetInduction
<1> DEFINE f == Follow(head, parts)
<1>4. \E g : Solves(g, Len(parts))
  BY <1>3
<1>5. f = CHOOSE g : Solves(g, Len(parts))
  BY DEF Follow, FollowTurn
<1> HIDE DEF f
<1>6. Solves(f, Len(parts))
  BY <1>4, <1>5
<1>7. \A i \in 0 .. Len(parts) : f[i] = FollowTurn(head, parts, f, i)
  BY <1>6
<1>8. f[0] = head
  BY <1>7 DEF FollowTurn
<1>9. ASSUME NEW i \in 0 .. Len(parts) - 1
      PROVE  f[i + 1] = Then(f[i], parts[i + 1])
  <2>1. i + 1 \in 0 .. Len(parts) /\ i + 1 # 0 /\ (i + 1) - 1 = i
    OBVIOUS
  <2>2. QED
    BY <1>7, <2>1 DEF FollowTurn
<1>10. QED
  BY <1>8, <1>9 DEF f

NestedTurn(f, i) == IF i = 0 THEN [v \in Values |-> Raised(<<>>)] ELSE Around(f[i - 1])

(* The recursion that defines Nested has a solution. *)
LEMMA NestedDef ==
  ASSUME MaxNesting \in Nat
  PROVE  /\ Nested[0] = [v \in Values |-> Raised(<<>>)]
         /\ \A i \in 0 .. MaxNesting - 1 : Nested[i + 1] = Around(Nested[i])
<1> DEFINE Solves(g, n) == g = [i \in 0 .. n |-> NestedTurn(g, i)]
           S == {n \in Nat : \E g : Solves(g, n)}
<1>1. 0 \in S
  <2>1. Solves([i \in 0 .. 0 |-> [v \in Values |-> Raised(<<>>)]], 0)
    BY DEF NestedTurn
  <2>2. QED
    BY <2>1
<1>2. ASSUME NEW n \in S PROVE n + 1 \in S
  <2>1. PICK g : Solves(g, n)
    OBVIOUS
  <2> DEFINE h == [i \in 0 .. n + 1 |-> NestedTurn(g, i)]
  <2>2. \A i \in 0 .. n : h[i] = g[i]
    BY <2>1
  <2>3. \A i \in 0 .. n + 1 : NestedTurn(g, i) = NestedTurn(h, i)
    <3> HIDE DEF h
    <3>1. QED
      BY <2>2 DEF NestedTurn
  <2>4. Solves(h, n + 1)
    BY <2>3
  <2>5. \E f : Solves(f, n + 1)
    <3> HIDE DEF h, Solves
    <3>1. QED
      BY <2>4
  <2>6. QED
    BY <2>5
<1>3. S = Nat
  <2> HIDE DEF S
  <2>1. S \in SUBSET Nat
    BY DEF S
  <2>2. QED
    BY <1>1, <1>2, <2>1, SetInduction
<1> DEFINE f == Nested
<1>4. \E g : Solves(g, MaxNesting)
  BY <1>3
<1>5. f = CHOOSE g : Solves(g, MaxNesting)
  BY DEF Nested, NestedTurn
<1> HIDE DEF f
<1>6. Solves(f, MaxNesting)
  BY <1>4, <1>5
<1>7. \A i \in 0 .. MaxNesting : f[i] = NestedTurn(f, i)
  BY <1>6
<1>8. f[0] = [v \in Values |-> Raised(<<>>)]
  BY <1>7 DEF NestedTurn
<1>9. ASSUME NEW i \in 0 .. MaxNesting - 1
      PROVE  f[i + 1] = Around(f[i])
  <2>1. i + 1 \in 0 .. MaxNesting /\ i + 1 # 0 /\ (i + 1) - 1 = i
    OBVIOUS
  <2>2. QED
    BY <1>7, <2>1 DEF NestedTurn
<1>10. QED
  BY <1>8, <1>9 DEF f

JoinedTurn(src, p, kind, f, i) == IF i = 0 THEN [pos |-> p, n |-> 0] ELSE Join(src, kind, f[i - 1])

(* The recursion that defines Joined has a solution. *)
LEMMA JoinedDef ==
  ASSUME NEW src, NEW p, NEW kind, Len(src) \in Nat
  PROVE  /\ Joined(src, p, kind)[0] = [pos |-> p, n |-> 0]
         /\ \A i \in 0 .. Len(src) - 1 : Joined(src, p, kind)[i + 1] = Join(src, kind, Joined(src, p, kind)[i])
<1> DEFINE Solves(g, n) == g = [i \in 0 .. n |-> JoinedTurn(src, p, kind, g, i)]
           S == {n \in Nat : \E g : Solves(g, n)}
<1>1. 0 \in S
  <2>1. Solves([i \in 0 .. 0 |-> [pos |-> p, n |-> 0]], 0)
    BY DEF JoinedTurn
  <2>2. QED
    BY <2>1
<1>2. ASSUME NEW n \in S PROVE n + 1 \in S
  <2>1. PICK g : Solves(g, n)
    OBVIOUS
  <2> DEFINE h == [i \in 0 .. n + 1 |-> JoinedTurn(src, p, kind, g, i)]
  <2>2. \A i \in 0 .. n : h[i] = g[i]
    BY <2>1
  <2>3. \A i \in 0 .. n + 1 : JoinedTurn(src, p, kind, g, i) = JoinedTurn(src, p, kind, h, i)
    <3> HIDE DEF h
    <3>1. QED
      BY <2>2 DEF JoinedTurn
  <2>4. Solves(h, n + 1)
    BY <2>3
  <2>5. \E f : Solves(f, n + 1)
    <3> HIDE DEF h, Solves
    <3>1. QED
      BY <2>4
  <2>6. QED
    BY <2>5
<1>3. S = Nat
  <2> HIDE DEF S
  <2>1. S \in SUBSET Nat
    BY DEF S
  <2>2. QED
    BY <1>1, <1>2, <2>1, SetInduction
<1> DEFINE f == Joined(src, p, kind)
<1>4. \E g : Solves(g, Len(src))
  BY <1>3
<1>5. f = CHOOSE g : Solves(g, Len(src))
  BY DEF Joined, JoinedTurn
<1> HIDE DEF f
<1>6. Solves(f, Len(src))
  BY <1>4, <1>5
<1>7. \A i \in 0 .. Len(src) : f[i] = JoinedTurn(src, p, kind, f, i)
  BY <1>6
<1>8. f[0] = [pos |-> p, n |-> 0]
  BY <1>7 DEF JoinedTurn
<1>9. ASSUME NEW i \in 0 .. Len(src) - 1
      PROVE  f[i + 1] = Join(src, kind, f[i])
  <2>1. i + 1 \in 0 .. Len(src) /\ i + 1 # 0 /\ (i + 1) - 1 = i
    OBVIOUS
  <2>2. QED
    BY <1>7, <2>1 DEF JoinedTurn
<1>10. QED
  BY <1>8, <1>9 DEF f

ConsumedTurn(src, p, f, i) == IF i = 0 THEN [pos |-> p, open |-> <<1>>] ELSE Consume(src, f[i - 1])

(* The recursion that defines Consumed has a solution. *)
LEMMA ConsumedDef ==
  ASSUME NEW src, NEW p, Len(src) \in Nat
  PROVE  /\ Consumed(src, p)[0] = [pos |-> p, open |-> <<1>>]
         /\ \A i \in 0 .. Len(src) - 1 : Consumed(src, p)[i + 1] = Consume(src, Consumed(src, p)[i])
<1> DEFINE Solves(g, n) == g = [i \in 0 .. n |-> ConsumedTurn(src, p, g, i)]
           S == {n \in Nat : \E g : Solves(g, n)}
<1>1. 0 \in S
  <2>1. Solves([i \in 0 .. 0 |-> [pos |-> p, open |-> <<1>>]], 0)
    BY DEF ConsumedTurn
  <2>2. QED
    BY <2>1
<1>2. ASSUME NEW n \in S PROVE n + 1 \in S
  <2>1. PICK g : Solves(g, n)
    OBVIOUS
  <2> DEFINE h == [i \in 0 .. n + 1 |-> ConsumedTurn(src, p, g, i)]
  <2>2. \A i \in 0 .. n : h[i] = g[i]
    BY <2>1
  <2>3. \A i \in 0 .. n + 1 : ConsumedTurn(src, p, g, i) = ConsumedTurn(src, p, h, i)
    <3> HIDE DEF h
    <3>1. QED
      BY <2>2 DEF ConsumedTurn
  <2>4. Solves(h, n + 1)
    BY <2>3
  <2>5. \E f : Solves(f, n + 1)
    <3> HIDE DEF h, Solves
    <3>1. QED
      BY <2>4
  <2>6. QED
    BY <2>5
<1>3. S = Nat
  <2> HIDE DEF S
  <2>1. S \in SUBSET Nat
    BY DEF S
  <2>2. QED
    BY <1>1, <1>2, <2>1, SetInduction
<1> DEFINE f == Consumed(src, p)
<1>4. \E g : Solves(g, Len(src))
  BY <1>3
<1>5. f = CHOOSE g : Solves(g, Len(src))
  BY DEF Consumed, ConsumedTurn
<1> HIDE DEF f
<1>6. Solves(f, Len(src))
  BY <1>4, <1>5
<1>7. \A i \in 0 .. Len(src) : f[i] = ConsumedTurn(src, p, f, i)
  BY <1>6
<1>8. f[0] = [pos |-> p, open |-> <<1>>]
  BY <1>7 DEF ConsumedTurn
<1>9. ASSUME NEW i \in 0 .. Len(src) - 1
      PROVE  f[i + 1] = Consume(src, f[i])
  <2>1. i + 1 \in 0 .. Len(src) /\ i + 1 # 0 /\ (i + 1) - 1 = i
    OBVIOUS
  <2>2. QED
    BY <1>7, <2>1 DEF ConsumedTurn
<1>10. QED
  BY <1>8, <1>9 DEF f

ItemsTurn(kind, src, pop, n0, p, d, f, i) == IF i = 0 THEN [left |-> n0, r |-> Done(<<>>, p,
      d)] ELSE PopTurn(kind, src, pop, f[i - 1])

ItemsLoop(f, kind, src, pop, n0, p, d) ==
    /\ f[0] = [left |-> n0, r |-> Done(<<>>, p, d)]
    /\ \A i \in 0 .. Len(src) - 1 : f[i + 1] = PopTurn(kind, src, pop, f[i])

(* The recursion that defines PopItems has a solution. *)
LEMMA PopItemsDef ==
  ASSUME NEW kind, NEW src, NEW pop, NEW n0, NEW p, NEW d, Len(src) \in Nat
  PROVE  ItemsLoop(PopItems(kind, src, pop, n0, p, d), kind, src, pop, n0, p, d)
<1> DEFINE Solves(g, n) == g = [i \in 0 .. n |-> ItemsTurn(kind, src, pop, n0, p, d, g, i)]
           S == {n \in Nat : \E g : Solves(g, n)}
<1>1. 0 \in S
  <2>1. Solves([i \in 0 .. 0 |-> [left |-> n0, r |-> Done(<<>>, p, d)]], 0)
    BY DEF ItemsTurn
  <2>2. QED
    BY <2>1
<1>2. ASSUME NEW n \in S PROVE n + 1 \in S
  <2>1. PICK g : Solves(g, n)
    OBVIOUS
  <2> DEFINE h == [i \in 0 .. n + 1 |-> ItemsTurn(kind, src, pop, n0, p, d, g, i)]
  <2>2. \A i \in 0 .. n : h[i] = g[i]
    BY <2>1
  <2>3. \A i \in 0 .. n + 1 : ItemsTurn(kind, src, pop, n0, p, d, g, i) = ItemsTurn(kind, src, pop, n0, p, d, h, i)
    <3> HIDE DEF h
    <3>1. QED
      BY <2>2 DEF ItemsTurn
  <2>4. Solves(h, n + 1)
    BY <2>3
  <2>5. \E f : Solves(f, n + 1)
    <3> HIDE DEF h, Solves
    <3>1. QED
      BY <2>4
  <2>6. QED
    BY <2>5
<1>3. S = Nat
  <2> HIDE DEF S
  <2>1. S \in SUBSET Nat
    BY DEF S
  <2>2. QED
    BY <1>1, <1>2, <2>1, SetInduction
<1> DEFINE f == PopItems(kind, src, pop, n0, p, d)
<1>4. \E g : Solves(g, Len(src))
  BY <1>3
<1>5. f = CHOOSE g : Solves(g, Len(src))
  BY DEF PopItems, ItemsTurn
<1> HIDE DEF f
<1>6. Solves(f, Len(src))
  BY <1>4, <1>5
<1>7. \A i \in 0 .. Len(src) : f[i] = ItemsTurn(kind, src, pop, n0, p, d, f, i)
  BY <1>6
<1>8. f[0] = [left |-> n0, r |-> Done(<<>>, p, d)]
  BY <1>7 DEF ItemsTurn
<1>9. ASSUME NEW i \in 0 .. Len(src) - 1
      PROVE  f[i + 1] = PopTurn(kind, src, pop, f[i])
  <2>1. i + 1 \in 0 .. Len(src) /\ i + 1 # 0 /\ (i + 1) - 1 = i
    OBVIOUS
  <2>2. QED
    BY <1>7, <2>1 DEF ItemsTurn
<1>10. ItemsLoop(f, kind, src, pop, n0, p, d)
  BY <1>8, <1>9 DEF ItemsLoop
<1>11. QED
  BY <1>10 DEF f

PoppersTurn(src, ep, f, i) == IF i = 0 THEN AtLimit(src) ELSE Below(src, ep, i, f[i - 1])

(* The recursion that defines Poppers has a solution. *)
LEMMA PoppersDef ==
  ASSUME NEW src, NEW ep, MaxDepth \in Nat
  PROVE  /\ Poppers(src, ep)[0] = AtLimit(src)
         /\ \A i \in 0 .. MaxDepth - 1 : Poppers(src, ep)[i + 1] = Below(src, ep, i + 1, Poppers(src, ep)[i])
<1> DEFINE Solves(g, n) == g = [i \in 0 .. n |-> PoppersTurn(src, ep, g, i)]
           S == {n \in Nat : \E g : Solves(g, n)}
<1>1. 0 \in S
  <2>1. Solves([i \in 0 .. 0 |-> AtLimit(src)], 0)
    BY DEF PoppersTurn
  <2>2. QED
    BY <2>1
<1>2. ASSUME NEW n \in S PROVE n + 1 \in S
  <2>1. PICK g : Solves(g, n)
    OBVIOUS
  <2> DEFINE h == [i \in 0 .. n + 1 |-> PoppersTurn(src, ep, g, i)]
  <2>2. \A i \in 0 .. n : h[i] = g[i]
    BY <2>1
  <2>3. \A i \in 0 .. n + 1 : PoppersTurn(src, ep, g, i) = PoppersTurn(src, ep, h, i)
    <3> HIDE DEF h
    <3>1. QED
      BY <2>2 DEF PoppersTurn
  <2>4. Solves(h, n + 1)
    BY <2>3
  <2>5. \E f : Solves(f, n + 1)
    <3> HIDE DEF h, Solves
    <3>1. QED
      BY <2>4
  <2>6. QED
    BY <2>5
<1>3. S = Nat
  <2> HIDE DEF S
  <2>1. S \in SUBSET Nat
    BY DEF S
  <2>2. QED
    BY <1>1, <1>2, <2>1, SetInduction
<1> DEFINE f == Poppers(src, ep)
<1>4. \E g : Solves(g, MaxDepth)
  BY <1>3
<1>5. f = CHOOSE g : Solves(g, MaxDepth)
  BY DEF Poppers, PoppersTurn
<1> HIDE DEF f
<1>6. Solves(f, MaxDepth)
  BY <1>4, <1>5
<1>7. \A i \in 0 .. MaxDepth : f[i] = PoppersTurn(src, ep, f, i)
  BY <1>6
<1>8. f[0] = AtLimit(src)
  BY <1>7 DEF PoppersTurn
<1>9. ASSUME NEW i \in 0 .. MaxDepth - 1
      PROVE  f[i + 1] = Below(src, ep, i + 1, f[i])
  <2>1. i + 1 \in 0 .. MaxDepth /\ i + 1 # 0 /\ (i + 1) - 1 = i
    OBVIOUS
  <2>2. QED
    BY <1>7, <2>1 DEF PoppersTurn
<1>10. QED
  BY <1>8, <1>9 DEF f

-----------------------------------------------------------------------------
(* CBOR: a pop gives back its depth, and where it stops.                    *)

(* The heads of arrays and maps at places from p to before q. *)
ContainerHeads == {"array", "map", "indef_array", "indef_map"}
Heads(src, p, q) == {i \in p .. q - 1 : src[i][1] \in ContainerHeads}
HeadCount(src, p, q) == Cardinality(Heads(src, p, q))

(* A longer part of the buffer has no fewer heads. *)
LEMMA HeadsGrow ==
  ASSUME NEW src, NEW p \in Int, NEW q \in Int, NEW p2 \in Int, NEW q2 \in Int, p <= p2, q2 <= q
  PROVE  HeadCount(src, p2, q2) <= HeadCount(src, p, q) /\ HeadCount(src, p2, q2) \in Nat /\ HeadCount(src, p, q) \in Nat
<1>1. IsFiniteSet(p .. q - 1)
  BY FS_Interval
<1>2. Heads(src, p, q) \subseteq p .. q - 1 /\ Heads(src, p2, q2) \subseteq Heads(src, p, q)
  BY DEF Heads
<1>3. IsFiniteSet(Heads(src, p, q))
  BY <1>1, <1>2, FS_Subset
<1>4. IsFiniteSet(Heads(src, p2, q2)) /\ Cardinality(Heads(src, p2, q2)) <= Cardinality(Heads(src, p, q))
  BY <1>2, <1>3, FS_Subset
<1>5. QED
  BY <1>3, <1>4, FS_CardinalityType DEF HeadCount

(* A head at p is one more than those after it. *)
LEMMA HeadCounts ==
  ASSUME NEW src, NEW p \in Int, NEW q \in Int, p < q, src[p][1] \in ContainerHeads
  PROVE  HeadCount(src, p, q) = HeadCount(src, p + 1, q) + 1
<1>1. Heads(src, p, q) = Heads(src, p + 1, q) \cup {p} /\ p \notin Heads(src, p + 1, q)
  BY DEF Heads
<1>2. IsFiniteSet(p + 1 .. q - 1) /\ Heads(src, p + 1, q) \subseteq p + 1 .. q - 1
  BY FS_Interval DEF Heads
<1>3. IsFiniteSet(Heads(src, p + 1, q))
  BY <1>2, FS_Subset
<1>4. QED
  BY <1>1, <1>3, FS_AddElement DEF HeadCount

Errors == {"none", "unexpected", "overflow", "unhashable", "tag", "fatal", "callback", "depth"}

(* The result of a pop that began at p and depth d: it stays in the buffer, is
   back at its depth, and was refused for its depth only after m heads of arrays
   and maps. *)
Popped(src, r, p, d, m) ==
    /\ r = [ok |-> r.ok, val |-> r.val, pos |-> r.pos, depth |-> r.depth, error |-> r.error]
    /\ r.ok \in BOOLEAN /\ r.error \in Errors /\ r.depth = d
    /\ r.pos \in p .. Len(src) + 1
    /\ r.ok => r.error = "none"
    /\ r.error = "depth" => HeadCount(src, p, r.pos) >= m

(* A value that ends in the buffer is a result at its depth. *)
LEMMA DonePopped ==
  ASSUME NEW src, Len(src) \in Nat, NEW p \in Int, NEW v, NEW q \in p .. Len(src) + 1, NEW d, NEW m
  PROVE  Popped(src, Done(v, q, d), p, d, m) /\ Done(v, q, d).ok /\ Done(v, q, d).pos = q /\ Done(v, q, d).val = v
  BY DEF Popped, Done, Errors

(* So is a failure, if one for the depth has its heads. *)
LEMMA FailedPopped ==
  ASSUME NEW src, Len(src) \in Nat, NEW p \in Int, NEW q \in p .. Len(src) + 1, NEW d, NEW m, NEW e \in Errors
  PROVE  (e # "depth" \/ HeadCount(src, p, q) >= m) => Popped(src, Failed(q, d, e), p, d, m)
  BY DEF Popped, Failed, Errors

(* What is refused from a later place is refused from an earlier one. *)
LEMMA PoppedFrom ==
  ASSUME NEW src, Len(src) \in Nat, NEW p \in Int, NEW p2 \in Int, p <= p2, NEW r, NEW d, NEW m \in Int,
         Popped(src, r, p2, d, m)
  PROVE  Popped(src, r, p, d, m)
<1>1. r.pos \in Int /\ p2 <= r.pos
  BY DEF Popped
<1>2. HeadCount(src, p2, r.pos) <= HeadCount(src, p, r.pos) /\ HeadCount(src, p2, r.pos) \in Nat
        /\ HeadCount(src, p, r.pos) \in Nat
  BY <1>1, HeadsGrow
<1>3. QED
  BY <1>1, <1>2 DEF Popped

(* Items are popped rightly at the depths from low to the limit. *)
PopsAt(src, pop, low) ==
    \A d \in low .. MaxDepth : \A p \in 1 .. Len(src) + 1 :
        Popped(src, pop[d][p], p, d, MaxDepth - d)

(* Turns of the loop over items. *)
LoopAt(src, s, p, d) ==
    s = [left |-> s.left, r |-> s.r] /\ Popped(src, s.r, p, d, MaxDepth - d)

(* The next item of a list. *)
LEMMA ListItemPopped ==
  ASSUME NEW src, Len(src) \in Nat, NEW pop, NEW low \in Int, PopsAt(src, pop, low), MaxDepth \in Nat,
         NEW d \in low .. MaxDepth, NEW p \in 1 .. Len(src) + 1, NEW r, Popped(src, r, p, d, MaxDepth - d)
  PROVE  Popped(src, PopListItem(pop, r), p, d, MaxDepth - d)
<1> DEFINE x == pop[r.depth][r.pos]
<1>1. r.depth = d /\ r.pos \in p .. Len(src) + 1 /\ r.pos \in 1 .. Len(src) + 1 /\ p <= r.pos
  BY DEF Popped
<1>2. Popped(src, x, r.pos, d, MaxDepth - d)
  BY <1>1 DEF PopsAt
<1>3. Popped(src, x, p, d, MaxDepth - d)
  BY <1>1, <1>2, PoppedFrom
<1>4. x.pos \in p .. Len(src) + 1 /\ x.depth = d
  BY <1>3 DEF Popped
<1>5. Popped(src, Done(Append(r.val, x.val), x.pos, x.depth), p, d, MaxDepth - d)
  BY <1>4, DonePopped
<1>6. QED
  BY <1>3, <1>5 DEF PopListItem

(* The next pair of a dictionary: the value is popped after a key that failed. *)
LEMMA PairPopped ==
  ASSUME NEW src, Len(src) \in Nat, NEW pop, NEW low \in Int, PopsAt(src, pop, low), MaxDepth \in Nat,
         NEW d \in low .. MaxDepth, NEW p \in 1 .. Len(src) + 1, NEW r, Popped(src, r, p, d, MaxDepth - d)
  PROVE  Popped(src, PopPair(pop, r), p, d, MaxDepth - d)
<1> DEFINE k == pop[r.depth][r.pos]
           v == pop[k.depth][k.pos]
           e == IF v.ok THEN k.error ELSE v.error
<1>1. r.depth = d /\ r.pos \in 1 .. Len(src) + 1 /\ p <= r.pos
  BY DEF Popped
<1>2. Popped(src, k, r.pos, d, MaxDepth - d)
  BY <1>1 DEF PopsAt
<1>3. k.depth = d /\ k.pos \in 1 .. Len(src) + 1 /\ r.pos <= k.pos
  BY <1>1, <1>2 DEF Popped
<1>4. Popped(src, v, k.pos, d, MaxDepth - d)
  BY <1>3 DEF PopsAt
<1>5. Popped(src, v, p, d, MaxDepth - d) /\ Popped(src, k, p, d, MaxDepth - d)
  BY <1>1, <1>2, <1>3, <1>4, PoppedFrom
<1>6. v.pos \in p .. Len(src) + 1 /\ v.depth = d /\ k.pos <= v.pos /\ v.pos \in Int
  BY <1>3, <1>4, <1>5 DEF Popped
<1>7. e \in Errors /\ (e = "depth" => HeadCount(src, p, v.pos) >= MaxDepth - d)
  <2>1. HeadCount(src, p, k.pos) <= HeadCount(src, p, v.pos) /\ HeadCount(src, p, k.pos) \in Nat
          /\ HeadCount(src, p, v.pos) \in Nat
    BY <1>3, <1>6, HeadsGrow
  <2>2. QED
    BY <1>5, <2>1 DEF Popped
<1> HIDE DEF k, v, e
<1>8. Popped(src, Failed(v.pos, d, e), p, d, MaxDepth - d)
  <2>1. p \in Int /\ v.pos \in p .. Len(src) + 1 /\ e \in Errors /\ Len(src) \in Nat
    BY <1>6, <1>7
  <2>2. e # "depth" \/ HeadCount(src, p, v.pos) >= MaxDepth - d
    BY <1>7
  <2>3. QED
    BY <2>1, <2>2, FailedPopped, Zenon
<1>9. Popped(src, Failed(v.pos, d, "unhashable"), p, d, MaxDepth - d)
  <2>1. p \in Int /\ v.pos \in p .. Len(src) + 1 /\ Len(src) \in Nat
    BY <1>6
  <2>2. "unhashable" \in Errors /\ "unhashable" # "depth"
    BY DEF Errors
  <2>3. QED
    BY <2>1, <2>2, FailedPopped, Zenon
<1>10. Popped(src, Done(Put(r.val, <<k.val, v.val>>), v.pos, v.depth), p, d, MaxDepth - d)
  BY <1>6, DonePopped
<1>11. QED
  BY <1>6, <1>8, <1>9, <1>10 DEF PopPair, k, v, e

(* There is an element where its type can be peeked. *)
LEMMA PeekedThere ==
  ASSUME NEW src, Len(src) \in Nat, NEW p \in 1 .. Len(src) + 1, PeekType(src, p) # "end"
  PROVE  p \in 1 .. Len(src) /\ p + 1 \in p .. Len(src) + 1 /\ PeekType(src, p) = src[p][1]
  BY DEF PeekType

(* One turn of the loop keeps what it has popped. *)
LEMMA TurnPopped ==
  ASSUME NEW src, Len(src) \in Nat, NEW pop, NEW low \in Int, PopsAt(src, pop, low), MaxDepth \in Nat, NEW kind,
         NEW d \in low .. MaxDepth, NEW p \in 1 .. Len(src) + 1, NEW s, LoopAt(src, s, p, d)
  PROVE  LoopAt(src, PopTurn(kind, src, pop, s), p, d)
<1>0. Popped(src, s.r, p, d, MaxDepth - d)
  BY DEF LoopAt
<1>1. CASE s.left = 0 \/ ~s.r.ok
  BY <1>1 DEF PopTurn
<1>2. CASE ~(s.left = 0 \/ ~s.r.ok) /\ s.left = -1 /\ PeekType(src, s.r.pos) = "break"
  <2>1. s.r.pos \in p .. Len(src) + 1 /\ s.r.pos \in 1 .. Len(src) + 1 /\ s.r.depth = d
    BY <1>0 DEF Popped
  <2>2. s.r.pos + 1 \in p .. Len(src) + 1
    BY <1>2, <2>1, PeekedThere
  <2>3. Popped(src, Done(s.r.val, s.r.pos + 1, s.r.depth), p, d, MaxDepth - d)
    BY <2>1, <2>2, DonePopped
  <2>4. QED
    BY <1>2, <2>3 DEF PopTurn, LoopAt
<1>3. CASE /\ ~(s.left = 0 \/ ~s.r.ok) /\ ~(s.left = -1 /\ PeekType(src, s.r.pos) = "break")
           /\ s.left = -1 /\ kind = "dict" /\ s.r.val # <<>> /\ PeekType(src, s.r.pos) = "end"
  <2>1. s.r.pos \in p .. Len(src) + 1 /\ s.r.depth = d /\ p \in Int /\ "fatal" \in Errors /\ "fatal" # "depth"
    BY <1>0 DEF Popped, Errors
  <2>2. Popped(src, Failed(s.r.pos, s.r.depth, "fatal"), p, d, MaxDepth - d)
    BY <2>1, FailedPopped, Zenon
  <2>3. QED
    BY <1>3, <2>2 DEF PopTurn, LoopAt
<1>4. CASE /\ ~(s.left = 0 \/ ~s.r.ok) /\ ~(s.left = -1 /\ PeekType(src, s.r.pos) = "break")
           /\ ~(s.left = -1 /\ kind = "dict" /\ s.r.val # <<>> /\ PeekType(src, s.r.pos) = "end")
  <2>1. Popped(src, PopListItem(pop, s.r), p, d, MaxDepth - d) /\ Popped(src, PopPair(pop, s.r), p, d, MaxDepth - d)
    BY <1>0, ListItemPopped, PairPopped
  <2>2. QED
    BY <1>4, <2>1 DEF PopTurn, LoopAt
<1>5. QED
  BY <1>1, <1>2, <1>3, <1>4

(* So do all its turns. *)
LEMMA ItemsPopped ==
  ASSUME NEW src, Len(src) \in Nat, NEW pop, NEW low \in Int, PopsAt(src, pop, low), MaxDepth \in Nat, NEW kind, NEW n0,
         NEW d \in low .. MaxDepth, NEW p \in 1 .. Len(src) + 1
  PROVE  \A i \in 0 .. Len(src) : LoopAt(src, PopItems(kind, src, pop, n0, p, d)[i], p, d)
<1> DEFINE f == PopItems(kind, src, pop, n0, p, d)
           S == {i \in Nat : i <= Len(src) => LoopAt(src, f[i], p, d)}
<1>1. f[0] = [left |-> n0, r |-> Done(<<>>, p, d)] /\ \A i \in 0 .. Len(src) - 1 : f[i + 1] = PopTurn(kind, src, pop, f[i])
  <2>1. ItemsLoop(f, kind, src, pop, n0, p, d)
    BY PopItemsDef
  <2> HIDE DEF f
  <2>2. QED
    BY <2>1 DEF ItemsLoop
<1> HIDE DEF f
<1>2. 0 \in S
  <2>1. Popped(src, Done(<<>>, p, d), p, d, MaxDepth - d)
    BY DonePopped
  <2>2. LoopAt(src, f[0], p, d)
    BY <1>1, <2>1 DEF LoopAt
  <2>3. QED
    BY <2>2
<1>3. ASSUME NEW i \in S PROVE i + 1 \in S
  <2>1. CASE i + 1 <= Len(src)
    <3>1. i \in 0 .. Len(src) - 1 /\ LoopAt(src, f[i], p, d)
      BY <2>1
    <3>2. LoopAt(src, f[i + 1], p, d)
      BY <1>1, <3>1, TurnPopped
    <3>3. QED
      BY <3>2
  <2>2. QED
    BY <2>1
<1>4. S = Nat
  <2> HIDE DEF S
  <2>1. S \in SUBSET Nat
    BY DEF S
  <2>2. QED
    BY <1>2, <1>3, <2>1, SetInduction
<1>5. QED
  BY <1>4 DEF f

(* A list or dictionary after its head. *)
LEMMA ContainerPopped ==
  ASSUME NEW src, Len(src) \in Nat, NEW pop, NEW low \in Int, PopsAt(src, pop, low), MaxDepth \in Nat, NEW kind, NEW n0,
         NEW d \in low .. MaxDepth, NEW p \in 1 .. Len(src) + 1
  PROVE  Popped(src, PopContainer(kind, src, pop, n0, p, d), p, d, MaxDepth - d)
<1> DEFINE r == PopItems(kind, src, pop, n0, p, d)[Len(src)].r
<1>1. Popped(src, r, p, d, MaxDepth - d)
  <2>1. Len(src) \in 0 .. Len(src)
    OBVIOUS
  <2>2. LoopAt(src, PopItems(kind, src, pop, n0, p, d)[Len(src)], p, d)
    BY <2>1, ItemsPopped
  <2>3. QED
    BY <2>2 DEF LoopAt
<1>2. r.pos \in p .. Len(src) + 1 /\ r.depth = d
  BY <1>1 DEF Popped
<1>3. Popped(src, Done(<<kind, r.val>>, r.pos, r.depth), p, d, MaxDepth - d)
  BY <1>2, DonePopped
<1>4. QED
  BY <1>1, <1>3 DEF PopContainer

(* Joining the parts of bytes or text stays in the buffer. *)
LEMMA JoinedPlaces ==
  ASSUME NEW src, Len(src) \in Nat, NEW kind, kind # "end", NEW p \in 1 .. Len(src) + 1
  PROVE  \A i \in 0 .. Len(src) : Joined(src, p, kind)[i].pos \in p .. Len(src) + 1
<1> DEFINE f == Joined(src, p, kind)
           S == {i \in Nat : i <= Len(src) => f[i].pos \in p .. Len(src) + 1}
<1>1. f[0] = [pos |-> p, n |-> 0] /\ \A i \in 0 .. Len(src) - 1 : f[i + 1] = Join(src, kind, f[i])
  BY JoinedDef
<1> HIDE DEF f
<1>2. 0 \in S
  <2>1. f[0].pos = p
    BY <1>1
  <2>2. f[0].pos \in p .. Len(src) + 1
    BY <2>1
  <2>3. QED
    BY <2>2
<1>3. ASSUME NEW i \in S PROVE i + 1 \in S
  <2>1. CASE i + 1 <= Len(src)
    <3>1. i \in 0 .. Len(src) - 1 /\ f[i].pos \in p .. Len(src) + 1 /\ f[i].pos \in 1 .. Len(src) + 1
      BY <2>1
    <3>2. CASE PeekType(src, f[i].pos) = kind
      <4>1. f[i].pos + 1 \in p .. Len(src) + 1
        BY <3>1, <3>2, PeekedThere
      <4>2. f[i + 1].pos = f[i].pos + 1
        <5>1. f[i + 1] = [pos |-> f[i].pos + 1, n |-> f[i].n + src[f[i].pos][2]]
          BY <1>1, <3>1, <3>2 DEF Join
        <5>2. QED
          BY <5>1
      <4>3. f[i + 1].pos \in p .. Len(src) + 1
        BY <4>1, <4>2
      <4>4. QED
        BY <4>3
    <3>3. CASE PeekType(src, f[i].pos) # kind
      <4>1. f[i + 1] = f[i]
        BY <1>1, <3>1, <3>3 DEF Join
      <4>2. QED
        BY <3>1, <4>1
    <3>4. QED
      BY <3>2, <3>3
  <2>2. QED
    BY <2>1
<1>4. S = Nat
  <2> HIDE DEF S
  <2>1. S \in SUBSET Nat
    BY DEF S
  <2>2. QED
    BY <1>2, <1>3, <2>1, SetInduction
<1>5. QED
  BY <1>4 DEF f

(* Consuming a whole item stays in the buffer. *)
LEMMA ConsumedPlaces ==
  ASSUME NEW src, Len(src) \in Nat, NEW p \in 1 .. Len(src) + 1
  PROVE  \A i \in 0 .. Len(src) : Consumed(src, p)[i].pos \in p .. Len(src) + 1
<1> DEFINE f == Consumed(src, p)
           S == {i \in Nat : i <= Len(src) => f[i].pos \in p .. Len(src) + 1}
<1>1. f[0] = [pos |-> p, open |-> <<1>>] /\ \A i \in 0 .. Len(src) - 1 : f[i + 1] = Consume(src, f[i])
  BY ConsumedDef
<1> HIDE DEF f
<1>2. 0 \in S
  <2>1. f[0].pos = p
    BY <1>1
  <2>2. f[0].pos \in p .. Len(src) + 1
    BY <2>1
  <2>3. QED
    BY <2>2
<1>3. ASSUME NEW i \in S PROVE i + 1 \in S
  <2>1. CASE i + 1 <= Len(src)
    <3>1. i \in 0 .. Len(src) - 1 /\ f[i].pos \in p .. Len(src) + 1 /\ f[i + 1] = Consume(src, f[i])
      BY <1>1, <2>1
    <3>2. CASE f[i].open = <<>> \/ f[i].pos > Len(src)
      <4>1. f[i + 1] = f[i]
        BY <3>1, <3>2 DEF Consume
      <4>2. QED
        BY <3>1, <4>1
    <3>3. CASE ~(f[i].open = <<>> \/ f[i].pos > Len(src))
      <4>1. \E open : f[i + 1] = [pos |-> f[i].pos + 1, open |-> open]
        BY <3>1, <3>3, Zenon DEF Consume
      <4>2. f[i + 1].pos = f[i].pos + 1
        BY <4>1
      <4>3. f[i + 1].pos \in p .. Len(src) + 1
        BY <3>1, <3>3, <4>2
      <4>4. QED
        BY <4>3
    <3>4. QED
      BY <3>2, <3>3
  <2>2. QED
    BY <2>1
<1>4. S = Nat
  <2> HIDE DEF S
  <2>1. S \in SUBSET Nat
    BY DEF S
  <2>2. QED
    BY <1>2, <1>3, <2>1, SetInduction
<1>5. QED
  BY <1>4 DEF f

(* A failure of another kind than too much depth. *)
LEMMA OtherFailure ==
  ASSUME NEW src, Len(src) \in Nat, NEW p \in 1 .. Len(src) + 1, NEW q \in p .. Len(src) + 1, NEW d, NEW m,
         NEW e \in Errors \ {"depth"}
  PROVE  Popped(src, Failed(q, d, e), p, d, m) /\ ~Failed(q, d, e).ok
<1>1. p \in Int /\ e \in Errors /\ e # "depth"
  OBVIOUS
<1>2. ~Failed(q, d, e).ok
  BY DEF Failed
<1>3. QED
  BY <1>1, <1>2, FailedPopped, Zenon

(* Indefinite bytes and text. *)
LEMMA PartsPopped ==
  ASSUME NEW src, Len(src) \in Nat, NEW kind, kind # "end", NEW p \in 1 .. Len(src) + 1, NEW d, NEW m
  PROVE  Popped(src, PopParts(src, p, d, kind), p, d, m)
<1> DEFINE s == Joined(src, p, kind)[Len(src)]
<1>1. s.pos \in p .. Len(src) + 1 /\ s.pos \in 1 .. Len(src) + 1
  BY JoinedPlaces
<1> HIDE DEF s
<1>2. CASE PeekType(src, s.pos) = "break"
  <2>1. s.pos + 1 \in p .. Len(src) + 1
    BY <1>1, <1>2, PeekedThere
  <2>2. QED
    BY <1>2, <2>1, DonePopped DEF PopParts, s
<1>3. CASE PeekType(src, s.pos) # "break"
  <2>1. "unexpected" \in Errors \ {"depth"}
    BY DEF Errors
  <2>2. Popped(src, Failed(s.pos, d, "unexpected"), p, d, m)
    BY <1>1, <2>1, OtherFailure
  <2>3. QED
    BY <1>3, <2>2 DEF PopParts, s
<1>4. QED
  BY <1>2, <1>3

(* After a head at p of an array or map, m more heads are m + 1. *)
LEMMA HeadPopped ==
  ASSUME NEW src, Len(src) \in Nat, NEW p \in 1 .. Len(src), src[p][1] \in ContainerHeads, NEW r, NEW d, NEW m \in Int,
         Popped(src, r, p + 1, d, m)
  PROVE  Popped(src, r, p, d, m + 1)
<1>1. r.pos \in p + 1 .. Len(src) + 1 /\ r.pos \in Int /\ p < r.pos
  BY DEF Popped
<1>2. HeadCount(src, p, r.pos) = HeadCount(src, p + 1, r.pos) + 1
  BY <1>1, HeadCounts
<1>3. HeadCount(src, p + 1, r.pos) \in Nat
  BY <1>1, HeadsGrow
<1>4. QED
  BY <1>1, <1>2, <1>3 DEF Popped

(* Lists and dictionaries: the head counts for the depth. *)
LEMMA ListPopped ==
  ASSUME NEW src, Len(src) \in Nat, NEW pop, NEW low \in Int, PopsAt(src, pop, low), MaxDepth \in Nat,
         NEW d \in low .. MaxDepth, NEW p \in 1 .. Len(src) + 1
  PROVE  /\ Popped(src, PopList(src, p, d, pop), p, d, MaxDepth - d + 1)
         /\ Popped(src, PopMap(src, p, d, pop), p, d, MaxDepth - d + 1)
<1>0. {"unexpected", "overflow"} \subseteq Errors \ {"depth"}
  BY DEF Errors
<1>1. Popped(src, Failed(p, d, "unexpected"), p, d, MaxDepth - d + 1)
  BY <1>0, OtherFailure
<1>2. ASSUME PeekType(src, p) \in ContainerHeads
      PROVE  /\ p \in 1 .. Len(src) /\ p + 1 \in 1 .. Len(src) + 1 /\ src[p][1] \in ContainerHeads
             /\ Popped(src, Failed(p + 1, d, "overflow"), p, d, MaxDepth - d + 1)
             /\ \A kind, n0 : Popped(src, PopContainer(kind, src, pop, n0, p + 1, d), p, d, MaxDepth - d + 1)
  <2>1. p \in 1 .. Len(src) /\ p + 1 \in p .. Len(src) + 1 /\ p + 1 \in 1 .. Len(src) + 1 /\ src[p][1] \in ContainerHeads
    BY <1>2, PeekedThere DEF ContainerHeads
  <2>2. Popped(src, Failed(p + 1, d, "overflow"), p, d, MaxDepth - d + 1)
    BY <1>0, <2>1, OtherFailure
  <2>3. ASSUME NEW kind, NEW n0
        PROVE  Popped(src, PopContainer(kind, src, pop, n0, p + 1, d), p, d, MaxDepth - d + 1)
    <3>1. Popped(src, PopContainer(kind, src, pop, n0, p + 1, d), p + 1, d, MaxDepth - d)
      BY <2>1, ContainerPopped
    <3>2. MaxDepth - d \in Int
      OBVIOUS
    <3>3. QED
      BY <2>1, <3>1, <3>2, HeadPopped
  <2>4. QED
    BY <2>1, <2>2, <2>3
<1>3. Popped(src, PopList(src, p, d, pop), p, d, MaxDepth - d + 1)
  BY <1>1, <1>2 DEF PopList, ContainerHeads
<1>4. Popped(src, PopMap(src, p, d, pop), p, d, MaxDepth - d + 1)
  BY <1>1, <1>2 DEF PopMap, ContainerHeads
<1>5. QED
  BY <1>3, <1>4

(* A tag: whatever fails at the depth limit is then another error. *)
LEMMA TagPopped ==
  ASSUME NEW src, Len(src) \in Nat, NEW pop, NEW d \in Int, PopsAt(src, pop, d), MaxDepth \in Nat, d <= MaxDepth,
         NEW p \in 1 .. Len(src), NEW ep
  PROVE  Popped(src, PopTag(src, p, d, ep, pop), p, d, MaxDepth - d + 1)
<1> DEFINE r == pop[d][p + 1]
<1>0. {"unexpected", "tag", "fatal", "callback"} \subseteq Errors \ {"depth"} /\ p \in 1 .. Len(src) + 1
  BY DEF Errors
<1>1. p + 1 \in p .. Len(src) + 1 /\ p + 1 \in 1 .. Len(src) + 1 /\ p <= p + 1 /\ d \in d .. MaxDepth /\ MaxDepth - d \in Int
  OBVIOUS
<1>2. Popped(src, r, p + 1, d, MaxDepth - d)
  BY <1>1 DEF PopsAt
<1> HIDE DEF r
<1>3. Popped(src, r, p, d, MaxDepth - d)
  <2>1. p + 1 \in Int /\ p \in Int
    OBVIOUS
  <2>2. QED
    BY <1>1, <1>2, <2>1, PoppedFrom
<1>4. r.pos \in p .. Len(src) + 1 /\ r.depth = d
  BY <1>3 DEF Popped
<1>5. \A e \in {"unexpected", "tag", "fatal", "callback"} :
         /\ Popped(src, Failed(p + 1, d, e), p, d, MaxDepth - d + 1)
         /\ Popped(src, Failed(r.pos, d, e), p, d, MaxDepth - d + 1)
  BY <1>0, <1>1, <1>4, OtherFailure
<1>6. r.ok => Popped(src, r, p, d, MaxDepth - d + 1)
  BY <1>3 DEF Popped
<1>7. QED
  BY <1>4, <1>5, <1>6 DEF PopTag, r

(* An item, after it has counted itself in. *)
LEMMA BodyPopped ==
  ASSUME NEW src, Len(src) \in Nat, NEW pop, NEW d \in Int, PopsAt(src, pop, d), MaxDepth \in Nat, d <= MaxDepth,
         NEW p \in 1 .. Len(src) + 1, NEW ep
  PROVE  Popped(src, PopBody(src, p, d, ep, pop), p, d, MaxDepth - d + 1)
<1> DEFINE B == PopBody(src, p, d, ep, pop)
           m == MaxDepth - d + 1
<1>0. d \in d .. MaxDepth
  OBVIOUS
<1>1. Popped(src, Failed(p, d, "unexpected"), p, d, m)
  <2>1. "unexpected" \in Errors \ {"depth"} /\ p \in p .. Len(src) + 1
    BY DEF Errors
  <2>2. QED
    BY <2>1, OtherFailure
<1>2. ASSUME PeekType(src, p) # "end"
      PROVE  p \in 1 .. Len(src) /\ p + 1 \in p .. Len(src) + 1 /\ p + 1 \in 1 .. Len(src) + 1
  BY <1>2, PeekedThere
<1>3. ASSUME PeekType(src, p) # "end", NEW v PROVE Popped(src, Done(v, p + 1, d), p, d, m)
  BY <1>2, <1>3, DonePopped
<1>4. Popped(src, PopList(src, p, d, pop), p, d, m) /\ Popped(src, PopMap(src, p, d, pop), p, d, m)
  BY <1>0, ListPopped
<1>5. ASSUME PeekType(src, p) # "end", NEW kind \in {"bytes", "text"}
      PROVE  Popped(src, PopParts(src, p + 1, d, kind), p, d, m)
  <2>1. kind # "end" /\ p <= p + 1 /\ p + 1 \in Int /\ m \in Int /\ p + 1 \in 1 .. Len(src) + 1
    BY <1>2, <1>5
  <2>2. Popped(src, PopParts(src, p + 1, d, kind), p + 1, d, m)
    BY <2>1, PartsPopped
  <2>3. QED
    BY <2>1, <2>2, PoppedFrom
<1>6. ASSUME PeekType(src, p) # "end" PROVE Popped(src, PopTag(src, p, d, ep, pop), p, d, m)
  BY <1>2, <1>6, TagPopped
<1> HIDE DEF m
<1>7. Popped(src, B, p, d, m)
  <2>1. CASE PeekType(src, p) = "end"
    <3>1. B = Failed(p, d, "unexpected")
      BY <2>1 DEF PopBody
    <3>2. QED
      BY <1>1, <3>1
  <2>2. CASE PeekType(src, p) # "end"
    <3>1. \/ \E v : B = Done(v, p + 1, d)
          \/ B = PopList(src, p, d, pop) \/ B = PopMap(src, p, d, pop)
          \/ \E kind \in {"bytes", "text"} : B = PopParts(src, p + 1, d, kind)
          \/ B = PopTag(src, p, d, ep, pop)
          \/ B = Failed(p, d, "unexpected")
      BY DEF PopBody
    <3> HIDE DEF B
    <3>2. QED
      BY <2>2, <3>1, <1>1, <1>3, <1>4, <1>5, <1>6
  <2>3. QED
    BY <2>1, <2>2
<1>8. QED
  BY <1>7 DEF m

(* An item counts itself out whether it failed or not. *)
LEMMA LeavePopped ==
  ASSUME NEW src, NEW p, NEW d \in Int, NEW m, NEW r, Popped(src, r, p, d + 1, m)
  PROVE  Popped(src, LeaveItem(r), p, d, m)
<1>1. LeaveItem(r) = [ok |-> r.ok, val |-> r.val, pos |-> r.pos, depth |-> d, error |-> r.error]
  BY DEF LeaveItem, Popped
<1>2. QED
  BY <1>1 DEF Popped

(* Items at one depth less. *)
LEMMA BelowPops ==
  ASSUME NEW src, Len(src) \in Nat, NEW pop, NEW ep, MaxDepth \in Nat, NEW k \in 1 .. MaxDepth,
         PopsAt(src, pop, MaxDepth - (k - 1))
  PROVE  PopsAt(src, Below(src, ep, k, pop), MaxDepth - k)
<1> DEFINE b == Below(src, ep, k, pop)
<1>1. SUFFICES ASSUME NEW d \in MaxDepth - k .. MaxDepth, NEW p \in 1 .. Len(src) + 1
               PROVE  Popped(src, b[d][p], p, d, MaxDepth - d)
  BY DEF PopsAt
<1>2. CASE d > MaxDepth - k
  <2>1. b[d] = pop[d] /\ d \in MaxDepth - (k - 1) .. MaxDepth
    BY <1>2 DEF Below
  <2>2. QED
    BY <2>1 DEF PopsAt
<1>3. CASE d = MaxDepth - k
  <2>1. b[d][p] = LeaveItem(PopBody(src, p, d + 1, ep, pop))
    BY <1>3 DEF Below
  <2>2. d + 1 = MaxDepth - (k - 1) /\ d + 1 <= MaxDepth /\ d + 1 \in Int /\ MaxDepth - (d + 1) + 1 = MaxDepth - d
    BY <1>3
  <2>3. Popped(src, PopBody(src, p, d + 1, ep, pop), p, d + 1, MaxDepth - (d + 1) + 1)
    BY <2>2, BodyPopped
  <2>4. QED
    BY <2>1, <2>2, <2>3, LeavePopped
<1>4. QED
  BY <1>2, <1>3

(* At the limit every item is refused, and no head is needed. *)
LEMMA LimitPops ==
  ASSUME NEW src, Len(src) \in Nat, MaxDepth \in Nat
  PROVE  PopsAt(src, AtLimit(src), MaxDepth)
<1>1. SUFFICES ASSUME NEW d \in MaxDepth .. MaxDepth, NEW p \in 1 .. Len(src) + 1
               PROVE  Popped(src, AtLimit(src)[d][p], p, d, MaxDepth - d)
  BY DEF PopsAt
<1>2. d = MaxDepth /\ AtLimit(src)[d][p] = Failed(p, d, "depth")
  BY DEF AtLimit
<1>3. HeadCount(src, p, p) \in Nat /\ MaxDepth - d = 0
  BY <1>2, HeadsGrow
<1>4. p \in Int /\ p \in p .. Len(src) + 1 /\ "depth" \in Errors /\ HeadCount(src, p, p) >= MaxDepth - d
  BY <1>3 DEF Errors
<1>5. Popped(src, Failed(p, d, "depth"), p, d, MaxDepth - d)
  BY <1>4, FailedPopped, Zenon
<1>6. QED
  BY <1>2, <1>5

(* Every item is popped rightly, at every depth. *)
LEMMA ItemsPop ==
  ASSUME NEW src, Len(src) \in Nat, NEW ep, MaxDepth \in Nat
  PROVE  PopsAt(src, PopItem(src, ep), 0)
<1> DEFINE f == Poppers(src, ep)
           S == {k \in Nat : k <= MaxDepth => PopsAt(src, f[k], MaxDepth - k)}
<1>1. f[0] = AtLimit(src) /\ \A k \in 0 .. MaxDepth - 1 : f[k + 1] = Below(src, ep, k + 1, f[k])
  BY PoppersDef
<1> HIDE DEF f
<1>2. 0 \in S
  <2>1. PopsAt(src, f[0], MaxDepth - 0)
    BY <1>1, LimitPops
  <2>2. QED
    BY <2>1
<1>3. ASSUME NEW k \in S PROVE k + 1 \in S
  <2>1. CASE k + 1 <= MaxDepth
    <3>1. k \in 0 .. MaxDepth - 1 /\ k + 1 \in 1 .. MaxDepth /\ PopsAt(src, f[k], MaxDepth - k) /\ (k + 1) - 1 = k
      BY <2>1
    <3>2. PopsAt(src, Below(src, ep, k + 1, f[k]), MaxDepth - (k + 1))
      BY <3>1, BelowPops
    <3>3. PopsAt(src, f[k + 1], MaxDepth - (k + 1))
      BY <1>1, <3>1, <3>2
    <3>4. QED
      BY <3>3
  <2>2. QED
    BY <2>1
<1>4. S = Nat
  <2> HIDE DEF S
  <2>1. S \in SUBSET Nat
    BY DEF S
  <2>2. QED
    BY <1>2, <1>3, <2>1, SetInduction
<1>5. PopsAt(src, f[MaxDepth], MaxDepth - MaxDepth)
  BY <1>4
<1>6. QED
  BY <1>5 DEF f, PopItem

-----------------------------------------------------------------------------
(* CBOR: what is written.                                                   *)

(* Elements that have been written, and whether they are all and the right ones. *)
Elements(w) ==
    /\ w = [out |-> w.out, raised |-> w.raised, ok |-> w.ok] /\ w.out \in Seq(Element)
    /\ w.raised \in BOOLEAN /\ w.ok \in BOOLEAN /\ (w.ok => ~w.raised)

(* One element that is written, and a call that raises before it writes. *)
LEMMA OneWritten ==
  ASSUME NEW e \in Element
  PROVE  Elements(Wrote(<<e>>)) /\ Elements(Raised(<<>>)) /\ Elements(Raised(<<e>>))
<1>1. <<e>> \in Seq(Element) /\ <<>> \in Seq(Element)
  OBVIOUS
<1>2. QED
  BY <1>1 DEF Elements, Wrote, Raised

(* A call that raises before it writes. *)
LEMMA NoneWritten == Elements(Raised(<<>>))
<1>1. <<>> \in Seq(Element)
  OBVIOUS
<1>2. QED
  BY <1>1 DEF Elements, Raised

(* Heads with a number. *)
LEMMA NumberElement ==
  ASSUME NEW kind \in {"uint", "negint", "array", "map", "tag", "undefined", "indef_array", "indef_map", "indef_bytes",
                       "indef_text", "break", "float", "bytes", "text", "bool", "null"}, NEW n \in Int
  PROVE  <<kind, n>> \in Element
  BY DEF Element

(* A head whose number must be unsigned. *)
LEMMA UnsignedWritten ==
  ASSUME NEW kind \in {"uint", "negint", "array", "map", "tag"}, NEW n \in Int
  PROVE  Elements(AsUnsigned(kind, n))
<1>1. <<kind, n>> \in Element
  BY NumberElement
<1>2. Elements(Wrote(<<<<kind, n>>>>)) /\ Elements(Raised(<<>>))
  BY <1>1, OneWritten
<1>3. QED
  BY <1>2 DEF AsUnsigned

(* Both encoders of integers write elements, and agree at every number that the
   one of data items writes as it is: at all but the least long, and there too
   when a build negates it right. *)
LEMMA SameIntegers ==
  ASSUME NEW n \in Int
  PROVE  Elements(PylongElements(n)) /\ (PylongElements(n).ok => PylongElements(n) = IntElements(n))
<1>1. U64 \in Nat /\ Long \in Nat /\ Long > 0 /\ 2 * Long <= U64 /\ MinNegated \in Int /\ -1 - n \in Int
  BY CborWidths
<1>2. Elements(AsUnsigned("uint", n)) /\ Elements(AsUnsigned("negint", -1 - n))
  BY <1>1, UnsignedWritten
<1>3. CASE n \in 0 .. Long - 1
  BY <1>1, <1>2, <1>3 DEF PylongElements, IntElements, AsUnsigned
<1>4. CASE n \in 1 - Long .. -1
  <2>1. -1 - n \in 0 .. U64 - 1 /\ ~(n >= 0) /\ -n - 1 = -1 - n /\ ~(n \in 0 .. Long - 1) /\ n # -Long
        /\ ~(n < -Long)
    BY <1>1, <1>4
  <2>2. PylongElements(n) = Wrote(<<<<"negint", -1 - n>>>>) /\ IntElements(n) = Wrote(<<<<"negint", -1 - n>>>>)
        /\ AsUnsigned("negint", -1 - n) = Wrote(<<<<"negint", -1 - n>>>>)
    BY <1>4, <2>1 DEF PylongElements, IntElements, AsUnsigned
  <2>3. QED
    BY <1>2, <2>2
<1>5. CASE n = -Long
  <2> DEFINE w == [out |-> <<<<"negint", MinNegated - 1>>>>, raised |-> FALSE, ok |-> MinNegated = Long]
             e == <<"negint", MinNegated - 1>>
  <2>1. ~(n \in 0 .. Long - 1) /\ ~(n \in 1 - Long .. -1) /\ ~(n >= 0) /\ -1 - n = Long - 1
        /\ Long - 1 \in 0 .. U64 - 1 /\ MinNegated - 1 \in Int
    BY <1>1, <1>5
  <2>2. PylongElements(n) = w
    BY <1>5, <2>1 DEF PylongElements
  <2>3. e \in Element
    BY <2>1, NumberElement
  <2>4. w = [out |-> <<e>>, raised |-> FALSE, ok |-> (MinNegated = Long)]
    OBVIOUS
  <2>5. (MinNegated = Long) \in BOOLEAN
    OBVIOUS
  <2>6. <<e>> \in Seq(Element)
    BY <2>3
  <2> HIDE DEF e
  <2>7. w.out = <<e>> /\ w.raised = FALSE /\ w.ok = (MinNegated = Long)
    BY <2>4
  <2>8. Elements(w)
    BY <2>4, <2>5, <2>6, <2>7 DEF Elements
  <2>9. ASSUME MinNegated = Long PROVE w = IntElements(n)
    <3>1. w = Wrote(<<e>>)
      BY <2>4, <2>9 DEF Wrote
    <3>2. e = <<"negint", Long - 1>>
      BY <2>9 DEF e
    <3>3. IntElements(n) = Wrote(<<<<"negint", Long - 1>>>>)
      BY <2>1 DEF IntElements, AsUnsigned
    <3>4. QED
      BY <3>1, <3>2, <3>3
  <2>10. QED
    BY <2>2, <2>7, <2>8, <2>9
<1>6. CASE n < -Long
  <2>1. ~(n \in 0 .. Long - 1) /\ ~(n \in 1 - Long .. -1) /\ n # -Long /\ ~(n >= 0) /\ -n - 1 = -1 - n
    BY <1>1, <1>6
  <2>2. PylongElements(n) = AsUnsigned("negint", -1 - n) /\ IntElements(n) = AsUnsigned("negint", -1 - n)
    BY <1>6, <2>1 DEF PylongElements, IntElements
  <2>3. QED
    BY <1>2, <2>2
<1>7. CASE n >= Long
  <2>1. ~(n \in 0 .. Long - 1) /\ ~(n \in 1 - Long .. -1) /\ n # -Long /\ n >= 0 /\ ~(n < -Long)
    BY <1>1, <1>7
  <2>2. PylongElements(n) = AsUnsigned("uint", n) /\ IntElements(n) = AsUnsigned("uint", n)
    BY <2>1 DEF PylongElements, IntElements
  <2>3. QED
    BY <1>2, <2>2
<1>8. QED
  BY <1>1, <1>3, <1>4, <1>5, <1>6, <1>7

(* An integer is written as elements. *)
LEMMA IntWritten ==
  ASSUME NEW n \in Int
  PROVE  Elements(IntElements(n))
<1>1. -1 - n \in Int
  OBVIOUS
<1>2. Elements(AsUnsigned("uint", n)) /\ Elements(AsUnsigned("negint", -1 - n))
  BY <1>1, UnsignedWritten
<1>3. QED
  BY <1>2 DEF IntElements

(* So are two items in a row, *)
LEMMA ThenWritten ==
  ASSUME NEW a, Elements(a), NEW b, Elements(b)
  PROVE  Elements(Then(a, b))
<1>1. a.out \o b.out \in Seq(Element)
  BY DEF Elements
<1>2. /\ a.raised \in BOOLEAN /\ a.ok \in BOOLEAN /\ b.raised \in BOOLEAN /\ b.ok \in BOOLEAN
      /\ (b.ok => ~b.raised) /\ (a.ok /\ b.ok) \in BOOLEAN
  BY DEF Elements
<1>3. CASE a.raised
  BY <1>3 DEF Then
<1>4. CASE ~a.raised
  <2> DEFINE w == [out |-> a.out \o b.out, raised |-> b.raised, ok |-> a.ok /\ b.ok]
  <2>1. w.out = a.out \o b.out /\ w.raised = b.raised /\ w.ok = (a.ok /\ b.ok)
    OBVIOUS
  <2>2. Elements(w)
    BY <1>1, <1>2, <2>1 DEF Elements
  <2>3. QED
    BY <1>4, <2>2 DEF Then
<1>5. QED
  BY <1>2, <1>3, <1>4

(* ...and the parts that follow a head. *)
LEMMA FollowWritten ==
  ASSUME NEW head, Elements(head), NEW parts, Len(parts) \in Nat, \A i \in 1 .. Len(parts) : Elements(parts[i])
  PROVE  \A i \in 0 .. Len(parts) : Elements(Follow(head, parts)[i])
<1> DEFINE f == Follow(head, parts)
           S == {i \in Nat : i <= Len(parts) => Elements(f[i])}
<1>1. f[0] = head /\ \A i \in 0 .. Len(parts) - 1 : f[i + 1] = Then(f[i], parts[i + 1])
  BY FollowDef
<1> HIDE DEF f
<1>2. 0 \in S
  <2>1. Elements(f[0])
    BY <1>1
  <2>2. QED
    BY <2>1
<1>3. ASSUME NEW i \in S PROVE i + 1 \in S
  <2>1. CASE i + 1 <= Len(parts)
    <3>1. i \in 0 .. Len(parts) - 1 /\ i + 1 \in 1 .. Len(parts) /\ Elements(f[i])
      BY <2>1
    <3>2. Elements(Then(f[i], parts[i + 1]))
      BY <3>1, ThenWritten
    <3>3. Elements(f[i + 1])
      BY <1>1, <3>1, <3>2
    <3>4. QED
      BY <3>3
  <2>2. QED
    BY <2>1
<1>4. S = Nat
  <2> HIDE DEF S
  <2>1. S \in SUBSET Nat
    BY DEF S
  <2>2. QED
    BY <1>2, <1>3, <2>1, SetInduction
<1>5. QED
  BY <1>4 DEF f

ListParts(v, inner) == [i \in 1 .. Len(v[2]) |-> inner[v[2][i]]]
DictParts(v, inner) == [i \in 1 .. Len(v[2]) |-> Then(inner[v[2][i][1]], inner[v[2][i][2]])]

(* The items of a list and their parts. *)
LEMMA ListItems ==
  ASSUME NEW v \in Values, v[1] = "list", NEW inner
  PROVE  /\ Len(v[2]) \in Nat /\ Len(ListParts(v, inner)) = Len(v[2])
         /\ \A i \in 1 .. Len(v[2]) : v[2][i] \in Values
<1>1. v[2] \in Seq(Values)
  BY CborValues
<1>2. Len(v[2]) \in Nat /\ \A i \in 1 .. Len(v[2]) : v[2][i] \in Values
  BY <1>1
<1>3. QED
  BY <1>2 DEF ListParts

(* The pairs of a dictionary and their parts. *)
LEMMA DictPairs ==
  ASSUME NEW v \in Values, v[1] = "dict", NEW inner
  PROVE  /\ Len(v[2]) \in Nat /\ Len(DictParts(v, inner)) = Len(v[2])
         /\ \A i \in 1 .. Len(v[2]) : v[2][i] = <<v[2][i][1], v[2][i][2]>> /\ v[2][i][1] \in Values /\ v[2][i][2] \in Values
<1>1. v[2] \in Seq(Values \X Values)
  BY CborValues
<1>2. Len(v[2]) \in Nat /\ \A i \in 1 .. Len(v[2]) : v[2][i] \in Values \X Values
  BY <1>1
<1>3. QED
  BY <1>2 DEF DictParts

(* The head of a list or dictionary that is none. *)
LEMMA NoContainerWritten ==
  ASSUME NEW kind \in {"array", "map"}
  PROVE  Elements(NoContainer(kind)) /\ ~NoContainer(kind).ok
<1>1. 2 * SsizeMax + 1 \in Int
  BY CborWidths
<1>2. <<kind, 2 * SsizeMax + 1>> \in Element
  BY <1>1, NumberElement
<1>3. Elements(NoContainer(kind))
  BY <1>2, OneWritten DEF NoContainer
<1>4. ~NoContainer(kind).ok
  BY DEF NoContainer, Raised
<1>5. QED
  BY <1>3, <1>4

(* A value is elements when its items are. *)
LEMMA ObjectWritten ==
  ASSUME NEW v \in Values, NEW inner, \A x \in Values : Elements(inner[x])
  PROVE  Elements(ObjectElements(v, inner))
<1>0. /\ v = <<v[1], v[2]>>
      /\ v[1] \in {"int", "text", "bytes", "float", "bool", "null", "list", "dict", "object"}
      /\ v[1] = "int" => v[2] \in Int
  BY CborValues
<1>1. CASE v[1] = "int"
  <2>1. ObjectElements(v, inner) = PylongElements(v[2])
    BY <1>1 DEF ObjectElements
  <2>2. QED
    BY <1>0, <1>1, <2>1, SameIntegers
<1>2. CASE v[1] \in {"text", "bytes", "float", "bool", "null"}
  <2>1. v \in Element
    BY <1>0, <1>2 DEF Element, OneElement
  <2>2. ObjectElements(v, inner) = Wrote(<<v>>)
    BY <1>2 DEF ObjectElements
  <2>3. QED
    BY <2>1, <2>2, OneWritten
<1>3. CASE v[1] = "list"
  <2> DEFINE parts == ListParts(v, inner)
             head == Wrote(<<<<"array", Len(v[2])>>>>)
  <2>1. Len(v[2]) \in Nat /\ Len(parts) = Len(v[2]) /\ \A i \in 1 .. Len(v[2]) : v[2][i] \in Values
    BY <1>3, ListItems
  <2>2. Elements(head)
    BY <2>1, NumberElement, OneWritten
  <2>3. \A i \in 1 .. Len(parts) : Elements(parts[i])
    BY <2>1 DEF ListParts
  <2>4. ObjectElements(v, inner) = Follow(head, parts)[Len(parts)]
    BY <1>3, <2>1 DEF ObjectElements, ListParts
  <2>5. Len(parts) \in 0 .. Len(parts) /\ Len(parts) \in Nat
    BY <2>1
  <2> HIDE DEF parts, head
  <2>6. Elements(Follow(head, parts)[Len(parts)])
    BY <2>2, <2>3, <2>5, FollowWritten
  <2>7. QED
    BY <2>4, <2>6
<1>4. CASE v[1] = "dict"
  <2> DEFINE parts == DictParts(v, inner)
             head == Wrote(<<<<"map", Len(v[2])>>>>)
  <2>1. Len(v[2]) \in Nat /\ Len(parts) = Len(v[2]) /\ \A i \in 1 .. Len(v[2]) : v[2][i][1] \in Values
          /\ v[2][i][2] \in Values
    BY <1>4, DictPairs
  <2>2. Elements(head)
    BY <2>1, NumberElement, OneWritten
  <2>3. \A i \in 1 .. Len(parts) : Elements(parts[i])
    BY <2>1, ThenWritten DEF DictParts
  <2>4. ObjectElements(v, inner) = Follow(head, parts)[Len(parts)]
    BY <1>4, <2>1 DEF ObjectElements, DictParts
  <2>5. Len(parts) \in 0 .. Len(parts) /\ Len(parts) \in Nat
    BY <2>1
  <2> HIDE DEF parts, head
  <2>6. Elements(Follow(head, parts)[Len(parts)])
    BY <2>2, <2>3, <2>5, FollowWritten
  <2>7. QED
    BY <2>4, <2>6
<1>5. CASE v[1] = "object"
  <2>1. ObjectElements(v, inner) = Raised(<<>>)
    BY <1>5 DEF ObjectElements
  <2>2. QED
    BY <2>1, NoneWritten
<1>6. QED
  BY <1>0, <1>1, <1>2, <1>3, <1>4, <1>5

(* A value is written as elements, however deep it is. *)
LEMMA ValueWritten ==
  ASSUME NEW v \in Values
  PROVE  Elements(PyObjectElements(v))
<1> DEFINE f == Nested
           S == {k \in Nat : k <= MaxNesting => \A x \in Values : Elements(f[k][x])}
<1>0. MaxNesting \in Nat
  BY CborWidths
<1>1. f[0] = [x \in Values |-> Raised(<<>>)] /\ \A k \in 0 .. MaxNesting - 1 : f[k + 1] = Around(f[k])
  BY <1>0, NestedDef
<1> HIDE DEF f
<1>2. 0 \in S
  <2>1. \A x \in Values : Elements(f[0][x])
    BY <1>1, NoneWritten
  <2>2. QED
    BY <2>1
<1>3. ASSUME NEW k \in S PROVE k + 1 \in S
  <2>1. CASE k + 1 <= MaxNesting
    <3>1. k \in 0 .. MaxNesting - 1 /\ \A x \in Values : Elements(f[k][x])
      BY <1>0, <2>1
    <3>2. \A x \in Values : f[k + 1][x] = ObjectElements(x, f[k])
      BY <1>1, <3>1 DEF Around
    <3>3. \A x \in Values : Elements(ObjectElements(x, f[k]))
      BY <3>1, ObjectWritten
    <3>4. \A x \in Values : Elements(f[k + 1][x])
      BY <3>2, <3>3
    <3>5. QED
      BY <3>4
  <2>2. QED
    BY <2>1
<1>4. S = Nat
  <2> HIDE DEF S
  <2>1. S \in SUBSET Nat
    BY DEF S
  <2>2. QED
    BY <1>2, <1>3, <2>1, SetInduction
<1>5. \A x \in Values : Elements(f[MaxNesting][x])
  BY <1>0, <1>4
<1>6. QED
  BY <1>5 DEF f, PyObjectElements

-----------------------------------------------------------------------------
(* CBOR: the depth of a call.                                               *)

(* Between calls the decoder is at no depth, within its buffer, and its last
   call was refused for its depth only after as many heads as the limit. *)
Settled ==
    /\ decoder.depth = 0
    /\ decoder.pos \in 1 .. Len(decoder.src) + 1
    /\ decoder.error = "depth" => HeadCount(decoder.src, decoder.from, decoder.pos) >= MaxDepth
CborInv == CborTypeOK /\ Settled

(* Initially nothing is written and nothing popped. *)
LEMMA CborInitStep == CborInit => CborInv
<1> SUFFICES ASSUME CborInit PROVE CborInv
  OBVIOUS
<1>1. <<>> \in Seq(Element) /\ <<>> \in Seq(Values \cup {<<"dirty", 0>>}) /\ Len(<<>>) = 0
  OBVIOUS
<1>2. CborTypeOK
  BY <1>1 DEF CborInit, NoDecoder, CborTypeOK
<1>3. Settled
  BY <1>1 DEF CborInit, NoDecoder, Settled
<1>4. QED
  BY <1>2, <1>3 DEF CborInv

(* A call of the encoder keeps the types. *)
LEMMA WriteTypes ==
  ASSUME CborInv, NEW w, Elements(w), NEW value \in {<<>>} \cup {<<v>> : v \in Values}, Write(w, value)
  PROVE  CborInv'
<1>1. encoded \in Seq(Element) /\ written \in Seq(Values \cup {<<"dirty", 0>>})
  BY DEF CborInv, CborTypeOK
<1>2. encoded' \in Seq(Element)
  BY <1>1 DEF Elements, Write
<1>3. value \in Seq(Values \cup {<<"dirty", 0>>}) /\ Dirty \in Seq(Values \cup {<<"dirty", 0>>})
  <2> DEFINE W == Values \cup {<<"dirty", 0>>}
  <2>1. <<"dirty", 0>> \in W /\ (\A v \in Values : v \in W)
    OBVIOUS
  <2> HIDE DEF W
  <2>2. <<>> \in Seq(W) /\ \A v \in W : <<v>> \in Seq(W)
    OBVIOUS
  <2>3. value \in Seq(W) /\ Dirty \in Seq(W)
    BY <2>1, <2>2 DEF Dirty
  <2>4. QED
    BY <2>3 DEF W
<1>4. written' \in Seq(Values \cup {<<"dirty", 0>>})
  BY <1>1, <1>3 DEF Write
<1>5. decoder' = decoder
  BY DEF Write
<1>6. QED
  BY <1>2, <1>4, <1>5 DEF CborInv, CborTypeOK, Settled

(* Fewer heads than were passed. *)
LEMMA PoppedLess ==
  ASSUME NEW src, Len(src) \in Nat, NEW r, NEW p \in Int, NEW d, NEW m \in Int, NEW m2 \in Int, m2 <= m,
        Popped(src, r, p, d, m)
  PROVE  Popped(src, r, p, d, m2)
<1>1. r.pos \in Int
  BY DEF Popped
<1>2. HeadCount(src, p, r.pos) \in Nat
  BY <1>1, HeadsGrow
<1>3. QED
  BY <1>2 DEF Popped

(* A call of the decoder that pops rightly leaves it settled. *)
LEMMA PopTypes ==
  ASSUME CborInv, NEW r, Popped(decoder.src, r, decoder.pos, 0, MaxDepth), Pop(r)
  PROVE  CborInv'
<1>1. decoder.src \in Seq(Element) /\ decoder.pos \in Nat /\ Len(decoder.src) \in Nat
      /\ encoded \in Seq(Element) /\ written \in Seq(Values \cup {<<"dirty", 0>>})
  BY DEF CborInv, CborTypeOK
<1>2. decoder.pos \in 1 .. Len(decoder.src) + 1
  BY DEF CborInv, Settled
<1>3. r.pos \in 1 .. Len(decoder.src) + 1 /\ r.pos \in Nat /\ r.depth = 0 /\ r.error \in Errors
      /\ (r.error = "depth" => HeadCount(decoder.src, decoder.pos, r.pos) >= MaxDepth)
  BY <1>1, <1>2 DEF Popped
<1>4. decoder' = [decoder EXCEPT !.pos = r.pos, !.from = decoder.pos, !.depth = r.depth,
                                 !.error = r.error, !.usable = r.error # "fatal"]
      /\ encoded' = encoded /\ written' = written
  BY DEF Pop
<1>5. CborTypeOK'
  <2>1. decoder \in [src : Seq(Element), pos : Nat, from : Nat, depth : Int,
                     expect : Seq(Values \cup {<<"dirty", 0>>}), epoch : {"number", "raises"},
                     error : Errors, usable : BOOLEAN]
    BY DEF CborInv, CborTypeOK, Errors
  <2> DEFINE u == r.error # "fatal"
  <2>2. u \in BOOLEAN /\ r.depth \in Int
    BY <1>3
  <2> HIDE DEF u
  <2>3. decoder' = [decoder EXCEPT !.pos = r.pos, !.from = decoder.pos, !.depth = r.depth, !.error = r.error, !.usable = u]
    BY <1>4 DEF u
  <2>4. decoder' \in [src : Seq(Element), pos : Nat, from : Nat, depth : Int,
                      expect : Seq(Values \cup {<<"dirty", 0>>}), epoch : {"number", "raises"},
                      error : Errors, usable : BOOLEAN]
    BY <1>1, <1>3, <2>1, <2>2, <2>3
  <2>5. QED
    BY <1>1, <1>4, <2>4 DEF CborTypeOK, Errors
<1>6. decoder'.src = decoder.src /\ decoder'.pos = r.pos /\ decoder'.from = decoder.pos /\ decoder'.depth = r.depth
      /\ decoder'.error = r.error
  BY <1>4 DEF CborInv, CborTypeOK
<1>7. Settled'
  BY <1>3, <1>6 DEF Settled
<1>8. QED
  BY <1>5, <1>7 DEF CborInv

(* What each call pops. *)
LEMMA CallsPop ==
  ASSUME CborInv
  PROVE  /\ Popped(decoder.src, PopItem(decoder.src, decoder.epoch)[decoder.depth][decoder.pos], decoder.pos, 0, MaxDepth)
         /\ Popped(decoder.src, PopList(decoder.src, decoder.pos, decoder.depth, PopItem(decoder.src,
               decoder.epoch)), decoder.pos, 0, MaxDepth)
         /\ Popped(decoder.src, PopMap(decoder.src, decoder.pos, decoder.depth, PopItem(decoder.src,
               decoder.epoch)), decoder.pos, 0, MaxDepth)
<1> DEFINE src == decoder.src
           pop == PopItem(decoder.src, decoder.epoch)
<1>1. src \in Seq(Element) /\ Len(src) \in Nat /\ decoder.pos \in 1 .. Len(src) + 1 /\ decoder.pos \in Int
        /\ decoder.depth = 0 /\ MaxDepth \in Nat
  BY CborWidths DEF CborInv, CborTypeOK, Settled
<1>2. PopsAt(src, pop, 0)
  BY <1>1, ItemsPop
<1> HIDE DEF pop, src
<1>3. 0 \in 0 .. MaxDepth /\ 0 \in Int /\ MaxDepth - 0 = MaxDepth /\ MaxDepth \in Int
        /\ MaxDepth - 0 + 1 \in Int /\ MaxDepth <= MaxDepth - 0 + 1
  BY <1>1
<1>4. Popped(src, pop[0][decoder.pos], decoder.pos, 0, MaxDepth)
  BY <1>1, <1>2, <1>3 DEF PopsAt
<1>5. /\ Popped(src, PopList(src, decoder.pos, 0, pop), decoder.pos, 0, MaxDepth - 0 + 1)
      /\ Popped(src, PopMap(src, decoder.pos, 0, pop), decoder.pos, 0, MaxDepth - 0 + 1)
  BY <1>1, <1>2, <1>3, ListPopped
<1>6. /\ Popped(src, PopList(src, decoder.pos, 0, pop), decoder.pos, 0, MaxDepth)
      /\ Popped(src, PopMap(src, decoder.pos, 0, pop), decoder.pos, 0, MaxDepth)
  BY <1>1, <1>3, <1>5, PoppedLess
<1>7. QED
  BY <1>1, <1>4, <1>6 DEF pop, src

(* Consuming a whole item pops. *)
LEMMA WholeConsumed ==
  ASSUME CborInv, ConsumeNextWholeDataItem
  PROVE  \E r : Pop(r) /\ Popped(decoder.src, r, decoder.pos, 0, MaxDepth)
<1> DEFINE s == Consumed(decoder.src, decoder.pos)[Len(decoder.src)]
           r == IF s.open = <<>> THEN Done(<<"int", 0>>, s.pos, decoder.depth)
                ELSE Failed(s.pos, decoder.depth, "unexpected")
<1>1. /\ Len(decoder.src) \in Nat /\ decoder.pos \in 1 .. Len(decoder.src) + 1 /\ decoder.pos \in Int
      /\ Len(decoder.src) \in 0 .. Len(decoder.src) /\ decoder.depth = 0 /\ MaxDepth \in Nat
      /\ "unexpected" \in Errors \ {"depth"}
  BY CborWidths DEF CborInv, CborTypeOK, Settled, Errors
<1>2. s.pos \in decoder.pos .. Len(decoder.src) + 1
  BY <1>1, ConsumedPlaces
<1>3. Pop(r)
  BY DEF ConsumeNextWholeDataItem
<1> HIDE DEF s
<1>4. Popped(decoder.src, Done(<<"int", 0>>, s.pos, 0), decoder.pos, 0, MaxDepth)
  BY <1>1, <1>2, DonePopped
<1>5. Popped(decoder.src, Failed(s.pos, 0, "unexpected"), decoder.pos, 0, MaxDepth)
  BY <1>1, <1>2, OtherFailure
<1>6. Popped(decoder.src, r, decoder.pos, 0, MaxDepth)
  BY <1>1, <1>4, <1>5
<1>7. QED
  BY <1>3, <1>6

(* Every call leaves the decoder settled, one case per call. *)
LEMMA CborStep == CborInv /\ [CborNext]_cborVars => CborInv'
<1> SUFFICES ASSUME CborInv, [CborNext]_cborVars PROVE CborInv'
  OBVIOUS
<1>0. /\ decoder.src \in Seq(Element) /\ Len(decoder.src) \in Nat /\ decoder.pos \in 1 .. Len(decoder.src) + 1
      /\ decoder.pos \in Int /\ decoder.depth = 0
      /\ encoded \in Seq(Element) /\ written \in Seq(Values \cup {<<"dirty", 0>>})
  BY DEF CborInv, CborTypeOK, Settled
<1>1. CASE WriteInt
  <2>1. PICK n \in Ints : Write(IntElements(n), <<<<"int", n>>>>)
    BY <1>1 DEF WriteInt
  <2>2. n \in Int /\ <<"int", n>> \in Values
    BY CborValues
  <2>3. QED
    BY <2>1, <2>2, IntWritten, WriteTypes
<1>2. CASE WriteDataItem \/ WriteList \/ WriteDict
  <2>1. ASSUME NEW v \in Values, Write(PyObjectElements(v), <<v>>) PROVE CborInv'
    BY <2>1, ValueWritten, WriteTypes
  <2>2. ASSUME NEW kind \in {"array", "map"}, Write(NoContainer(kind), <<>>) PROVE CborInv'
    BY <2>2, NoContainerWritten, WriteTypes
  <2>3. QED
    BY <1>2, <2>1, <2>2 DEF WriteDataItem, WriteList, WriteDict
<1>3. CASE WriteElement
  <2>1. PICK e \in Simple : Write(Wrote(<<e>>), <<>>)
    BY <1>3 DEF WriteElement
  <2>2. e \in Element
    BY DEF Simple, Floats, Element
  <2>3. QED
    BY <2>1, <2>2, OneWritten, WriteTypes
<1>4. CASE WriteStart
  <2>1. PICK kind \in {"array", "map", "tag"}, n \in {-1, 1, 2, U64} : Write(AsUnsigned(kind, n), <<>>)
    BY <1>4 DEF WriteStart
  <2>2. n \in Int
    BY CborWidths
  <2>3. Elements(AsUnsigned(kind, n))
    BY <2>2, UnsignedWritten
  <2>4. QED
    BY <2>1, <2>3, WriteTypes
<1>5. CASE WriteEpochTime
  <2>0. PICK e \in Floats : Write(Wrote(<<<<"tag", 1>>, e>>), <<>>)
    BY <1>5 DEF WriteEpochTime
  <2> DEFINE w == Wrote(<<<<"tag", 1>>, e>>)
  <2>1. <<"tag", 1>> \in Element /\ e \in Element
    BY DEF Element, Floats
  <2>2. Elements(w)
    BY <2>1 DEF Elements, Wrote
  <2>3. Write(w, <<>>)
    BY <2>0
  <2> HIDE DEF w
  <2>4. QED
    BY <2>2, <2>3, WriteTypes
<1>6. ASSUME NEW epoch \in {"number", "raises"}, DecoderNew(epoch) PROVE CborInv'
  <2>1. decoder' = [src |-> encoded, pos |-> 1, from |-> 1, depth |-> 0, expect |-> written, epoch |-> epoch,
                    error |-> "none", usable |-> TRUE] /\ encoded' = <<>> /\ written' = <<>>
    BY <1>6 DEF DecoderNew, NoDecoder
  <2>2. <<>> \in Seq(Element) /\ <<>> \in Seq(Values \cup {<<"dirty", 0>>}) /\ Len(encoded) \in Nat
    BY <1>0
  <2>3. CborTypeOK'
    BY <1>0, <2>1, <2>2 DEF CborTypeOK
  <2>4. Settled'
    BY <2>1, <2>2 DEF Settled
  <2>5. QED
    BY <2>3, <2>4 DEF CborInv
<1>7. CASE PopNextDataItem
  BY <1>7, CallsPop, PopTypes DEF PopNextDataItem, PopWhole
<1>8. CASE PopNextList
  BY <1>8, CallsPop, PopTypes DEF PopNextList, PopWhole
<1>9. CASE PopNextMap
  BY <1>9, CallsPop, PopTypes DEF PopNextMap, PopWhole
<1>10. "unexpected" \in Errors \ {"depth"} /\ MaxDepth \in Nat
  BY CborWidths DEF Errors
<1>11. Popped(decoder.src, Failed(decoder.pos, decoder.depth, "unexpected"), decoder.pos, 0, MaxDepth)
  BY <1>0, <1>10, OtherFailure
<1>12. decoder.pos <= Len(decoder.src) => Popped(decoder.src, Done(<<"int", 0>>, decoder.pos + 1,
         decoder.depth), decoder.pos, 0, MaxDepth)
  BY <1>0, <1>10, DonePopped
<1>13. CASE PopNextElement
  <2>1. PICK type \in {"uint", "negint", "float", "bool", "bytes", "text", "array", "map", "tag"} :
           Pop(IF PeekType(decoder.src, decoder.pos) = type
               THEN Done(<<"int", 0>>, decoder.pos + 1, decoder.depth)
               ELSE Failed(decoder.pos, decoder.depth, "unexpected"))
    BY <1>13 DEF PopNextElement
  <2>2. CASE PeekType(decoder.src, decoder.pos) = type
    <3>1. decoder.pos <= Len(decoder.src)
      BY <1>0, <2>2 DEF PeekType
    <3>2. Pop(Done(<<"int", 0>>, decoder.pos + 1, decoder.depth))
      BY <2>1, <2>2
    <3>3. QED
      BY <1>12, <3>1, <3>2, PopTypes
  <2>3. CASE PeekType(decoder.src, decoder.pos) # type
    <3>1. Pop(Failed(decoder.pos, decoder.depth, "unexpected"))
      BY <2>1, <2>3
    <3>2. QED
      BY <1>11, <3>1, PopTypes
  <2>4. QED
    BY <2>2, <2>3
<1>14. CASE ConsumeNextSingleElement
  <2>1. CASE decoder.pos <= Len(decoder.src)
    <3>1. Pop(Done(<<"int", 0>>, decoder.pos + 1, decoder.depth))
      BY <1>14, <2>1 DEF ConsumeNextSingleElement
    <3>2. QED
      BY <1>12, <2>1, <3>1, PopTypes
  <2>2. CASE ~(decoder.pos <= Len(decoder.src))
    <3>1. Pop(Failed(decoder.pos, decoder.depth, "unexpected"))
      BY <1>14, <2>2 DEF ConsumeNextSingleElement
    <3>2. QED
      BY <1>11, <3>1, PopTypes
  <2>3. QED
    BY <2>1, <2>2
<1>15. CASE ResetSrc
  BY <1>15 DEF ResetSrc, CborInv, CborTypeOK, Settled
<1>16. CASE UNCHANGED cborVars
  BY <1>16 DEF cborVars, CborInv, CborTypeOK, Settled
<1>17. CASE ConsumeNextWholeDataItem
  <2>1. PICK r : Pop(r) /\ Popped(decoder.src, r, decoder.pos, 0, MaxDepth)
    BY <1>17, WholeConsumed
  <2>2. QED
    BY <2>1, PopTypes
<1>18. CASE EncoderReset
  <2>1. <<>> \in Seq(Element) /\ <<>> \in Seq(Values \cup {<<"dirty", 0>>})
    OBVIOUS
  <2>2. QED
    BY <1>18, <2>1 DEF EncoderReset, CborInv, CborTypeOK, Settled
<1>19. QED
  BY <1>1, <1>2, <1>3, <1>4, <1>5, <1>6, <1>7, <1>8, <1>9, <1>13, <1>14, <1>15, <1>16, <1>17, <1>18 DEF CborNext

(* The decoder is settled between calls in every reachable state. *)
THEOREM CborInvariance == CborSpec => []CborInv
<1>1. QED
  BY CborInitStep, CborStep, PTL DEF CborSpec

(* Every call keeps the types of the encoder and the decoder (cbor.py, cbor.c). *)
THEOREM CborTypeCorrect == CborSpec => []CborTypeOK
<1>1. CborInv => CborTypeOK
  BY DEF CborInv
<1>2. QED
  BY <1>1, CborInvariance, PTL

(* The depth limit of s_cbor_decoder_pop_next_data_item_to_pyobject refuses an item only when the call itself has gone
   through as many heads of arrays and maps as the limit, whatever was popped, refused or broken off before it. *)
THEOREM DepthHolds == CborSpec => []DepthIsPerCall
<1>1. CborInv => DepthIsPerCall
  BY DEF CborInv, Settled, DepthIsPerCall, HeadCount, Heads, ContainerHeads
<1>2. QED
  BY <1>1, CborInvariance, PTL

(* A pop goes forward. *)
LEMMA PopForward ==
  ASSUME CborInv, NEW r, Popped(decoder.src, r, decoder.pos, 0, MaxDepth), Pop(r)
  PROVE  Forward
<1>1. r.pos \in decoder.pos .. Len(decoder.src) + 1
  BY DEF Popped
<1>2. decoder'.src = decoder.src /\ decoder'.pos = r.pos
  BY DEF Pop, CborInv, CborTypeOK
<1>3. QED
  BY <1>1, <1>2 DEF Forward

(* Every call on a decoder goes forward; a writing call has none. *)
LEMMA ForwardStep ==
  ASSUME CborInv, [CborNext]_cborVars
  PROVE  Forward
<1> SUFFICES ASSUME decoder # NoDecoder PROVE Forward
  BY DEF Forward
<1>0. decoder.pos \in decoder.pos .. Len(decoder.src) + 1 /\ Len(decoder.src) \in Nat /\ decoder.pos \in Int
      /\ decoder.depth = 0
  BY DEF CborInv, CborTypeOK, Settled
<1>1. CASE PopNextDataItem \/ PopNextList \/ PopNextMap
  <2>1. CASE PopNextDataItem
    BY <2>1, CallsPop, PopForward DEF PopNextDataItem, PopWhole
  <2>2. CASE PopNextList
    BY <2>2, CallsPop, PopForward DEF PopNextList, PopWhole
  <2>3. CASE PopNextMap
    BY <2>3, CallsPop, PopForward DEF PopNextMap, PopWhole
  <2>4. QED
    BY <1>1, <2>1, <2>2, <2>3
<1>2. ASSUME NEW v, NEW e, NEW q \in decoder.pos .. Len(decoder.src) + 1,
             Pop(Done(v, q, decoder.depth)) \/ Pop(Failed(q, decoder.depth, e))
      PROVE  Forward
  <2>1. decoder'.src = decoder.src /\ decoder'.pos = q
    BY <1>2 DEF Pop, Done, Failed, CborInv, CborTypeOK
  <2>2. QED
    BY <1>2, <2>1 DEF Forward
<1>3. decoder.pos <= Len(decoder.src) => decoder.pos + 1 \in decoder.pos .. Len(decoder.src) + 1
  BY <1>0
<1>4. CASE PopNextElement
  <2>1. PICK type \in {"uint", "negint", "float", "bool", "bytes", "text", "array", "map", "tag"} :
             Pop(IF PeekType(decoder.src, decoder.pos) = type
                 THEN Done(<<"int", 0>>, decoder.pos + 1, decoder.depth)
                 ELSE Failed(decoder.pos, decoder.depth, "unexpected"))
    BY <1>4 DEF PopNextElement
  <2>2. CASE PeekType(decoder.src, decoder.pos) = type
    <3>1. decoder.pos <= Len(decoder.src)
      BY <1>0, <2>2 DEF PeekType
    <3>2. Pop(Done(<<"int", 0>>, decoder.pos + 1, decoder.depth))
      BY <2>1, <2>2
    <3>3. QED
      BY <1>2, <1>3, <3>1, <3>2
  <2>3. CASE PeekType(decoder.src, decoder.pos) # type
    <3>1. Pop(Failed(decoder.pos, decoder.depth, "unexpected"))
      BY <2>1, <2>3
    <3>2. QED
      BY <1>0, <1>2, <3>1
  <2>4. QED
    BY <2>2, <2>3
<1>5. CASE ConsumeNextSingleElement
  <2>1. CASE decoder.pos <= Len(decoder.src)
    <3>1. Pop(Done(<<"int", 0>>, decoder.pos + 1, decoder.depth))
      BY <1>5, <2>1 DEF ConsumeNextSingleElement
    <3>2. QED
      BY <1>2, <1>3, <2>1, <3>1
  <2>2. CASE ~(decoder.pos <= Len(decoder.src))
    <3>1. Pop(Failed(decoder.pos, decoder.depth, "unexpected"))
      BY <1>5, <2>2 DEF ConsumeNextSingleElement
    <3>2. QED
      BY <1>0, <1>2, <3>1
  <2>3. QED
    BY <2>1, <2>2
<1>6. CASE ResetSrc
  BY <1>0, <1>6 DEF ResetSrc, Forward, CborInv, CborTypeOK
<1>7. CASE UNCHANGED cborVars
  BY <1>0, <1>7 DEF cborVars, Forward
<1>8. \A epoch : ~DecoderNew(epoch)
  BY DEF DecoderNew
<1>9. CASE ConsumeNextWholeDataItem
  <2>1. PICK r : Pop(r) /\ Popped(decoder.src, r, decoder.pos, 0, MaxDepth)
    BY <1>9, WholeConsumed
  <2>2. QED
    BY <2>1, PopForward
<1>10. QED
  BY <1>1, <1>4, <1>5, <1>6, <1>7, <1>8, <1>9 DEF CborNext

(* However calls end, the decoder of cbor.c goes forward in a buffer that stays
   the same, and not beyond its end. *)
THEOREM ForwardOnly == CborSpec => DecoderGoesForward
<1>1. CborInv /\ [CborNext]_cborVars => [Forward]_cborVars
  BY ForwardStep
<1>2. QED
  BY <1>1, CborInvariance, PTL DEF CborSpec, DecoderGoesForward

-----------------------------------------------------------------------------
(* CBOR: what is popped is what was written.                                *)

(* A prefix with the next element is the next prefix. *)
LEMMA PrefixGrows ==
  ASSUME NEW E, NEW s \in Seq(E), NEW m \in 0 .. Len(s) - 1
  PROVE  /\ Append(SubSeq(s, 1, m), s[m + 1]) = SubSeq(s, 1, m + 1)
         /\ SubSeq(s, 1, m) \in Seq(E) /\ Len(SubSeq(s, 1, m)) = m /\ \A i \in 1 .. m : SubSeq(s, 1, m)[i] = s[i]
<1>1. SubSeq(s, 1, m) \in Seq(E) /\ Len(SubSeq(s, 1, m)) = m /\ \A i \in 1 .. m : SubSeq(s, 1, m)[i] = s[i]
  OBVIOUS
<1>2. s[m + 1] \in E
  OBVIOUS
<1>3. SubSeq(s, 1, m + 1) \in Seq(E) /\ Len(SubSeq(s, 1, m + 1)) = m + 1
        /\ \A i \in 1 .. m + 1 : SubSeq(s, 1, m + 1)[i] = s[i]
  OBVIOUS
<1> DEFINE a == SubSeq(s, 1, m)
           b == SubSeq(s, 1, m + 1)
           e == s[m + 1]
<1> HIDE DEF a, b, e
<1>4. Append(a, e) \in Seq(E) /\ Len(Append(a, e)) = m + 1
        /\ \A i \in 1 .. m + 1 : Append(a, e)[i] = IF i = m + 1 THEN e ELSE a[i]
  BY <1>1, <1>2 DEF a, e
<1>5. \A i \in 1 .. m + 1 : Append(a, e)[i] = b[i]
  BY <1>1, <1>3, <1>4 DEF a, b, e
<1>6. Append(a, e) = b
  BY <1>3, <1>4, <1>5, SeqEqual DEF b
<1>7. QED
  BY <1>1, <1>6 DEF a, b, e

(* The first and the last prefix. *)
LEMMA PrefixEnds ==
  ASSUME NEW E, NEW s \in Seq(E)
  PROVE  SubSeq(s, 1, 0) = <<>> /\ SubSeq(s, 1, Len(s)) = s
  OBVIOUS

(* The elements e are in the buffer from place p. *)
At(src, p, e) == p + Len(e) <= Len(src) + 1 /\ \A i \in 1 .. Len(e) : src[p + i - 1] = e[i]

(* Two sequences of elements in a row lie one after the other. *)
LEMMA AtConcat ==
  ASSUME NEW src, Len(src) \in Nat, NEW p \in Int, NEW a \in Seq(Element), NEW b \in Seq(Element), At(src, p, a \o b)
  PROVE  At(src, p, a) /\ At(src, p + Len(a), b) /\ Len(a \o b) = Len(a) + Len(b)
<1>1. Len(a) \in Nat /\ Len(b) \in Nat /\ Len(a \o b) = Len(a) + Len(b)
  OBVIOUS
<1>2. \A i \in 1 .. Len(a) : (a \o b)[i] = a[i]
  OBVIOUS
<1>3. \A i \in 1 .. Len(b) : (a \o b)[Len(a) + i] = b[i]
  OBVIOUS
<1> DEFINE c == a \o b
<1>4. p + Len(c) <= Len(src) + 1 /\ \A i \in 1 .. Len(c) : src[p + i - 1] = c[i]
  BY DEF At
<1> HIDE DEF c
<1>5. At(src, p, a)
  <2>1. p + Len(a) <= Len(src) + 1
    BY <1>1, <1>4 DEF c
  <2>2. ASSUME NEW i \in 1 .. Len(a) PROVE src[p + i - 1] = a[i]
    BY <1>1, <1>2, <1>4 DEF c
  <2>3. QED
    BY <2>1, <2>2 DEF At
<1>6. At(src, p + Len(a), b)
  <2>1. p + Len(a) + Len(b) <= Len(src) + 1
    BY <1>1, <1>4 DEF c
  <2>2. ASSUME NEW i \in 1 .. Len(b) PROVE src[p + Len(a) + i - 1] = b[i]
    <3>1. Len(a) + i \in 1 .. Len(c) /\ p + (Len(a) + i) - 1 = p + Len(a) + i - 1
      BY <1>1 DEF c
    <3>2. src[p + (Len(a) + i) - 1] = c[Len(a) + i]
      BY <1>4, <3>1
    <3>3. QED
      BY <1>3, <3>1, <3>2 DEF c
  <2>3. QED
    BY <2>1, <2>2 DEF At
<1>7. QED
  BY <1>1, <1>5, <1>6

(* What an item that all was written of says of its parts. *)
LEMMA ThenParts ==
  ASSUME NEW a, Elements(a), NEW b, Elements(b), Then(a, b).ok
  PROVE  a.ok /\ b.ok /\ Then(a, b).out = a.out \o b.out
<1>1. ~a.raised
  BY DEF Then, Elements
<1> DEFINE t == Then(a, b)
           c == a.out \o b.out
           o == a.ok /\ b.ok
<1>2. t.ok /\ t = [out |-> c, raised |-> b.raised, ok |-> o]
  BY <1>1 DEF Then
<1>3. o \in BOOLEAN
  OBVIOUS
<1> HIDE DEF t, c, o
<1>4. t.ok = o /\ t.out = c
  BY <1>2
<1>5. QED
  BY <1>2, <1>3, <1>4 DEF t, c, o

(* The parts lie one after the other, after the head. *)
LaidParts(src, p, f, parts) ==
    /\ f[0].ok /\ At(src, p, f[0].out)
    /\ \A i \in 1 .. Len(parts) :
         /\ parts[i].ok /\ At(src, p + Len(f[i - 1].out), parts[i].out)
         /\ Len(f[i].out) = Len(f[i - 1].out) + Len(parts[i].out)

(* From the end back: each part was written, after those before it. *)
LEMMA FollowLaid ==
  ASSUME NEW src, Len(src) \in Nat, NEW p \in Int, NEW head, Elements(head), NEW parts, Len(parts) \in Nat,
         \A i \in 1 .. Len(parts) : Elements(parts[i]),
         Follow(head, parts)[Len(parts)].ok, At(src, p, Follow(head, parts)[Len(parts)].out)
  PROVE  LaidParts(src, p, Follow(head, parts), parts)
<1> DEFINE f == Follow(head, parts)
           n == Len(parts)
           S == {i \in Nat : i <= n => f[n - i].ok /\ At(src, p, f[n - i].out)}
<1>1. f[0] = head /\ \A i \in 0 .. n - 1 : f[i + 1] = Then(f[i], parts[i + 1])
  BY FollowDef
<1>2. \A i \in 0 .. n : Elements(f[i])
  BY FollowWritten
<1>3. f[n].ok /\ At(src, p, f[n].out) /\ n \in Nat
  OBVIOUS
<1> HIDE DEF f, n
<1>4. ASSUME NEW i \in 1 .. n, f[i].ok, At(src, p, f[i].out)
      PROVE  /\ f[i - 1].ok /\ At(src, p, f[i - 1].out) /\ parts[i].ok /\ At(src, p + Len(f[i - 1].out), parts[i].out)
             /\ Len(f[i].out) = Len(f[i - 1].out) + Len(parts[i].out)
  <2>1. i - 1 \in 0 .. n - 1 /\ i - 1 \in 0 .. n /\ (i - 1) + 1 = i
    BY <1>3
  <2>2. f[i] = Then(f[i - 1], parts[i]) /\ Elements(f[i - 1]) /\ Elements(parts[i])
    <3>1. f[(i - 1) + 1] = Then(f[i - 1], parts[(i - 1) + 1])
      BY <1>1, <2>1
    <3>2. QED
      BY <1>2, <2>1, <3>1 DEF n
  <2>3. f[i - 1].ok /\ parts[i].ok /\ f[i].out = f[i - 1].out \o parts[i].out
    <3>1. Then(f[i - 1], parts[i]).ok /\ Elements(f[i - 1]) /\ Elements(parts[i])
      BY <1>4, <2>2
    <3>2. f[i - 1].ok /\ parts[i].ok /\ Then(f[i - 1], parts[i]).out = f[i - 1].out \o parts[i].out
      BY <3>1, ThenParts, Zenon
    <3>3. QED
      BY <2>2, <3>2
  <2>4. f[i - 1].out \in Seq(Element) /\ parts[i].out \in Seq(Element)
    BY <2>2 DEF Elements
  <2>5. At(src, p, f[i - 1].out \o parts[i].out)
    BY <1>4, <2>3
  <2>6. At(src, p, f[i - 1].out) /\ At(src, p + Len(f[i - 1].out), parts[i].out)
        /\ Len(f[i - 1].out \o parts[i].out) = Len(f[i - 1].out) + Len(parts[i].out)
    <3> DEFINE a == f[i - 1].out
               b == parts[i].out
    <3>1. a \in Seq(Element) /\ b \in Seq(Element) /\ At(src, p, a \o b)
      BY <2>4, <2>5
    <3> HIDE DEF a, b
    <3>2. At(src, p, a) /\ At(src, p + Len(a), b) /\ Len(a \o b) = Len(a) + Len(b)
      BY <3>1, AtConcat
    <3>3. QED
      BY <3>2 DEF a, b
  <2>7. QED
    BY <2>3, <2>6
<1>5. 0 \in S
  <2>1. n - 0 = n
    BY <1>3
  <2>2. QED
    BY <1>3, <2>1
<1>6. ASSUME NEW i \in S PROVE i + 1 \in S
  <2>1. CASE i + 1 <= n
    <3>1. n - i \in 1 .. n /\ (n - i) - 1 = n - (i + 1) /\ f[n - i].ok /\ At(src, p, f[n - i].out)
      BY <1>3, <2>1
    <3>2. f[(n - i) - 1].ok /\ At(src, p, f[(n - i) - 1].out)
      BY <1>4, <3>1
    <3>3. f[n - (i + 1)].ok /\ At(src, p, f[n - (i + 1)].out)
      BY <3>1, <3>2
    <3>4. QED
      BY <3>3
  <2>2. QED
    BY <2>1
<1>7. S = Nat
  <2> HIDE DEF S
  <2>1. S \in SUBSET Nat
    BY DEF S
  <2>2. QED
    BY <1>5, <1>6, <2>1, SetInduction
<1>8. ASSUME NEW i \in 0 .. n PROVE f[i].ok /\ At(src, p, f[i].out)
  <2>1. n - i \in Nat /\ n - i <= n /\ n - (n - i) = i
    BY <1>3
  <2>2. n - i \in S
    BY <1>7, <2>1
  <2>3. f[n - (n - i)].ok /\ At(src, p, f[n - (n - i)].out)
    BY <2>1, <2>2
  <2>4. QED
    BY <2>1, <2>3
<1>9. \A i \in 1 .. n : f[i].ok /\ At(src, p, f[i].out)
  BY <1>3, <1>8
<1>10. LaidParts(src, p, f, parts)
  <2>1. f[0].ok /\ At(src, p, f[0].out)
    BY <1>3, <1>8
  <2>2. ASSUME NEW i \in 1 .. n
        PROVE  /\ parts[i].ok /\ At(src, p + Len(f[i - 1].out), parts[i].out)
               /\ Len(f[i].out) = Len(f[i - 1].out) + Len(parts[i].out)
    BY <1>4, <1>9
  <2>3. QED
    BY <2>1, <2>2 DEF LaidParts, n
<1>11. QED
  BY <1>10 DEF f

(* Each part that takes place makes the whole longer. *)
LEMMA FollowLength ==
  ASSUME NEW src, NEW p, NEW head, Elements(head), NEW parts, Len(parts) \in Nat,
         \A i \in 1 .. Len(parts) : Elements(parts[i]) /\ (parts[i].ok => Len(parts[i].out) >= 1),
         LaidParts(src, p, Follow(head, parts), parts)
  PROVE  \A i \in 0 .. Len(parts) : Len(Follow(head, parts)[i].out) \in Nat
        /\ Len(Follow(head, parts)[i].out) >= Len(head.out) + i
<1> DEFINE f == Follow(head, parts)
           n == Len(parts)
           G(i) == Len(f[i].out) >= Len(head.out) + i
           S == {i \in Nat : i <= n => G(i)}
<1>1. f[0] = head
  BY FollowDef
<1>2. \A i \in 0 .. n : Elements(f[i])
  BY FollowWritten
<1> HIDE DEF f
<1>3. \A i \in 0 .. n : Len(f[i].out) \in Nat
  BY <1>2 DEF Elements
<1>4. Len(head.out) \in Nat
  BY DEF Elements
<1>5. 0 \in S
  <2>1. Len(f[0].out) >= Len(head.out) + 0
    BY <1>1, <1>4
  <2>2. QED
    BY <2>1
<1>6. ASSUME NEW i \in S PROVE i + 1 \in S
  <2>1. CASE i + 1 <= n
    <3>1. i + 1 \in 1 .. n /\ i \in 0 .. n /\ (i + 1) - 1 = i /\ Len(f[i].out) >= Len(head.out) + i /\ i + 1 \in 0 .. n
      BY <2>1
    <3>2. parts[i + 1].ok /\ Len(f[i + 1].out) = Len(f[(i + 1) - 1].out) + Len(parts[i + 1].out)
      BY <3>1 DEF LaidParts, f
    <3>3. Elements(parts[i + 1]) /\ Len(parts[i + 1].out) >= 1
      BY <3>1, <3>2
    <3>4. Len(parts[i + 1].out) \in Nat
      BY <3>3 DEF Elements
    <3>5. Len(f[i + 1].out) = Len(f[i].out) + Len(parts[i + 1].out) /\ Len(f[i].out) \in Nat
      BY <1>3, <3>1, <3>2
    <3> DEFINE a == Len(f[i].out)
               b == Len(f[i + 1].out)
               c == Len(parts[i + 1].out)
               h == Len(head.out)
    <3>6. a \in Nat /\ c \in Nat /\ h \in Nat /\ i \in Nat /\ b = a + c /\ c >= 1 /\ a >= h + i
      BY <1>4, <3>1, <3>3, <3>4, <3>5
    <3> HIDE DEF a, b, c, h
    <3>7. b >= h + (i + 1)
      BY <3>6
    <3>8. G(i + 1)
      BY <3>7 DEF b, h
    <3>9. QED
      <4> HIDE DEF G
      <4>1. QED
        BY <3>8
  <2>2. QED
    BY <2>1
<1>7. S = Nat
  <2> HIDE DEF S
  <2>1. S \in SUBSET Nat
    BY DEF S
  <2>2. QED
    BY <1>5, <1>6, <2>1, SetInduction
<1>8. QED
  BY <1>3, <1>7 DEF f

(* A turn of the loop, from the items of s that end at place[m] to one more. *)
NextRead(kind, pop, r) == IF kind = "list" THEN PopListItem(pop, r) ELSE PopPair(pop, r)
TurnsRead(kind, pop, s, place, d) ==
    \A m \in 0 .. Len(s) - 1 : \A r :
        r.depth = d /\ r.pos = place[m] /\ r.val = SubSeq(s, 1, m) /\ NextRead(kind, pop, r).ok =>
            NextRead(kind, pop, r).pos = place[m + 1] /\ NextRead(kind, pop, r).val = SubSeq(s, 1, m + 1)

(* After i turns the loop has i of the items, or all. *)
HasRead(st, s, place, m) == st.left = Len(s) - m /\ st.r.pos = place[m] /\ st.r.val = SubSeq(s, 1, m)
ReadTo(st, s, place, i) ==
    st.r.ok => \E m \in 0 .. Len(s) : HasRead(st, s, place, m) /\ (m = Len(s) \/ m = i)

(* A turn reads one more item, or the loop is over. *)
LEMMA ReadTurn ==
  ASSUME NEW src, NEW st, NEW p, NEW d, LoopAt(src, st, p, d), NEW s, Len(s) \in Nat, NEW place, NEW kind, NEW pop,
         NEW i \in Nat, ReadTo(st, s, place, i), TurnsRead(kind, pop, s, place, d)
  PROVE  ReadTo(PopTurn(kind, src, pop, st), s, place, i + 1)
<1>1. CASE ~st.r.ok
  <2>1. PopTurn(kind, src, pop, st) = st
    BY <1>1 DEF PopTurn
  <2>2. QED
    BY <1>1, <2>1 DEF ReadTo
<1>2. CASE st.r.ok
  <2>1. PICK m \in 0 .. Len(s) : HasRead(st, s, place, m) /\ (m = Len(s) \/ m = i)
    BY <1>2 DEF ReadTo
  <2>2. CASE m = Len(s)
    <3>1. st.left = 0
      BY <2>1, <2>2 DEF HasRead
    <3>2. PopTurn(kind, src, pop, st) = st
      BY <3>1 DEF PopTurn
    <3>3. QED
      BY <2>1, <2>2, <3>2 DEF ReadTo
  <2>3. CASE m # Len(s)
    <3> DEFINE x == NextRead(kind, pop, st.r)
               t == PopTurn(kind, src, pop, st)
    <3>1. m \in 0 .. Len(s) - 1 /\ m = i /\ m + 1 \in 0 .. Len(s) /\ st.left = Len(s) - m /\ st.left # 0 /\ st.left # -1
      BY <2>1, <2>3 DEF HasRead
    <3>2. t = [left |-> st.left - 1, r |-> x]
      BY <1>2, <3>1 DEF PopTurn, NextRead
    <3>3. st.r.depth = d /\ st.r.pos = place[m] /\ st.r.val = SubSeq(s, 1, m)
      BY <2>1 DEF HasRead, LoopAt, Popped
    <3>4. x.ok => x.pos = place[m + 1] /\ x.val = SubSeq(s, 1, m + 1)
      BY <3>1, <3>3 DEF TurnsRead
    <3> HIDE DEF x, t
    <3>5. t.left = Len(s) - (m + 1) /\ t.r = x
      BY <3>1, <3>2
    <3>6. t.r.ok => HasRead(t, s, place, m + 1) /\ m + 1 = i + 1
      BY <3>1, <3>4, <3>5 DEF HasRead
    <3>7. ReadTo(t, s, place, i + 1)
      BY <3>1, <3>6 DEF ReadTo
    <3>8. QED
      BY <3>7 DEF t
  <2>4. QED
    BY <2>2, <2>3
<1>3. QED
  BY <1>1, <1>2

ReadAs(c, v, q) == c.val = v /\ c.pos = q

(* The loop reads all items: there are no more turns than elements. *)
LEMMA LoopReads ==
  ASSUME NEW src, Len(src) \in Nat, NEW pop, NEW low \in Int, PopsAt(src, pop, low), MaxDepth \in Nat, NEW kind,
         NEW d \in low .. MaxDepth, NEW p \in 1 .. Len(src) + 1, NEW E, NEW s \in Seq(E), NEW place, place[0] = p,
         Len(s) <= Len(src), TurnsRead(kind, pop, s, place, d),
         PopContainer(kind, src, pop, Len(s), p, d).ok
  PROVE  ReadAs(PopContainer(kind, src, pop, Len(s), p, d), <<kind, s>>, place[Len(s)])
<1> DEFINE n == Len(s)
           f == PopItems(kind, src, pop, n, p, d)
           S == {i \in Nat : i <= Len(src) => ReadTo(f[i], s, place, i)}
<1>0. n \in Nat
  OBVIOUS
<1>1. ItemsLoop(f, kind, src, pop, n, p, d)
  BY PopItemsDef
<1>2. \A i \in 0 .. Len(src) : LoopAt(src, f[i], p, d)
  BY ItemsPopped
<1> HIDE DEF f
<1>3. f[0] = [left |-> n, r |-> Done(<<>>, p, d)] /\ \A i \in 0 .. Len(src) - 1 : f[i + 1] = PopTurn(kind, src, pop, f[i])
  BY <1>1 DEF ItemsLoop
<1>4. 0 \in S
  <2>1. f[0].left = n - 0 /\ f[0].r.pos = p /\ f[0].r.val = <<>>
    BY <1>0, <1>3 DEF Done
  <2>2. SubSeq(s, 1, 0) = <<>>
    BY PrefixEnds
  <2>3. HasRead(f[0], s, place, 0) /\ 0 \in 0 .. Len(s)
    BY <1>0, <2>1, <2>2 DEF HasRead
  <2>4. ReadTo(f[0], s, place, 0)
    BY <2>3 DEF ReadTo
  <2>5. QED
    BY <2>4
<1>5. ASSUME NEW i \in S PROVE i + 1 \in S
  <2>1. CASE i + 1 <= Len(src)
    <3>1. i \in 0 .. Len(src) - 1 /\ i \in 0 .. Len(src) /\ i \in Nat /\ ReadTo(f[i], s, place, i)
      BY <2>1
    <3>2. LoopAt(src, f[i], p, d)
      BY <1>2, <3>1
    <3>3. ReadTo(PopTurn(kind, src, pop, f[i]), s, place, i + 1)
      BY <1>0, <3>1, <3>2, ReadTurn
    <3>4. ReadTo(f[i + 1], s, place, i + 1)
      BY <1>3, <3>1, <3>3
    <3>5. QED
      BY <3>4
  <2>2. QED
    BY <2>1
<1>6. S = Nat
  <2> HIDE DEF S
  <2>1. S \in SUBSET Nat
    BY DEF S
  <2>2. QED
    BY <1>4, <1>5, <2>1, SetInduction
<1>7. ReadTo(f[Len(src)], s, place, Len(src))
  BY <1>6
<1> DEFINE r == f[Len(src)].r
<1>8. PopContainer(kind, src, pop, n, p, d) = IF r.ok THEN Done(<<kind, r.val>>, r.pos, r.depth) ELSE r
  BY DEF PopContainer, f
<1>9. r.ok
  BY <1>8
<1>10. PICK m \in 0 .. Len(s) : HasRead(f[Len(src)], s, place, m) /\ (m = Len(s) \/ m = Len(src))
  BY <1>7, <1>9 DEF ReadTo
<1>11. m = Len(s)
  BY <1>0, <1>10
<1>12. r.pos = place[Len(s)] /\ r.val = SubSeq(s, 1, Len(s))
  BY <1>10, <1>11 DEF HasRead
<1>13. r.val = s
  BY <1>12, PrefixEnds
<1>14. PopContainer(kind, src, pop, n, p, d) = Done(<<kind, s>>, place[Len(s)], r.depth)
  BY <1>8, <1>9, <1>12, <1>13
<1>15. \A v, q, e : Done(v, q, e).val = v /\ Done(v, q, e).pos = q
  BY DEF Done
<1>16. QED
  BY <1>14, <1>15 DEF ReadAs

(* The items that pop finds at the depths from low are the values whose elements
   lie there. *)
ReadsBack(src, pop, inner, low) ==
    \A d \in low .. MaxDepth : \A p \in 1 .. Len(src) + 1 : \A x \in Values :
        inner[x].ok /\ At(src, p, inner[x].out) /\ pop[d][p].ok =>
            pop[d][p].val = x /\ pop[d][p].pos = p + Len(inner[x].out)

(* Values that are written take place. *)
Solid(inner) == \A x \in Values : Elements(inner[x]) /\ (inner[x].ok => Len(inner[x].out) >= 1)

(* Elements in the buffer: where they end, and the first of them. *)
LEMMA AtPlace ==
  ASSUME NEW src, Len(src) \in Nat, NEW p \in 1 .. Len(src) + 1, NEW e \in Seq(Element), At(src, p, e)
  PROVE  p + Len(e) \in 1 .. Len(src) + 1 /\ (Len(e) >= 1 => src[p] = e[1] /\ p \in 1 .. Len(src))
<1>1. Len(e) \in Nat /\ p + Len(e) <= Len(src) + 1
  BY DEF At
<1>2. ASSUME Len(e) >= 1 PROVE src[p] = e[1] /\ p \in 1 .. Len(src)
  <2>1. 1 \in 1 .. Len(e) /\ p + 1 - 1 = p
    BY <1>1, <1>2
  <2>2. src[p + 1 - 1] = e[1]
    BY <2>1 DEF At
  <2>3. QED
    BY <1>1, <1>2, <2>1, <2>2
<1>3. QED
  BY <1>1, <1>2

(* A turn of the loop over a list reads its next item. *)
LEMMA ListTurns ==
  ASSUME NEW src, Len(src) \in Nat, NEW pop, NEW d \in Int, d <= MaxDepth, MaxDepth \in Nat, PopsAt(src, pop, d),
         NEW inner, Solid(inner), ReadsBack(src, pop, inner, d), NEW v \in Values, v[1] = "list",
         NEW place,
         \A m \in 0 .. Len(v[2]) - 1 :
            /\ place[m] \in 1 .. Len(src) + 1 /\ inner[v[2][m + 1]].ok /\ At(src, place[m], inner[v[2][m + 1]].out)
            /\ place[m + 1] = place[m] + Len(inner[v[2][m + 1]].out)
  PROVE  TurnsRead("list", pop, v[2], place, d)
<1>0. Len(v[2]) \in Nat /\ v[2] \in Seq(Values) /\ \A i \in 1 .. Len(v[2]) : v[2][i] \in Values
  BY ListItems, CborValues
<1>1. SUFFICES ASSUME NEW m \in 0 .. Len(v[2]) - 1, NEW r, r.depth = d, r.pos = place[m], r.val = SubSeq(v[2], 1, m),
                      PopListItem(pop, r).ok
               PROVE  PopListItem(pop, r).pos = place[m + 1] /\ PopListItem(pop, r).val = SubSeq(v[2], 1, m + 1)
  BY DEF TurnsRead, NextRead
<1> DEFINE x == pop[d][place[m]]
           i == v[2][m + 1]
<1>2. PopListItem(pop, r) = IF x.ok THEN Done(Append(r.val, x.val), x.pos, x.depth) ELSE x
  BY <1>1 DEF PopListItem
<1>3. x.ok
  BY <1>1, <1>2
<1>4. i \in Values /\ d \in d .. MaxDepth /\ place[m] \in 1 .. Len(src) + 1 /\ inner[i].ok /\ At(src, place[m], inner[i].out)
      /\ place[m + 1] = place[m] + Len(inner[i].out)
  BY <1>0
<1> HIDE DEF i
<1>5. x.val = i /\ x.pos = place[m + 1]
  BY <1>3, <1>4 DEF ReadsBack
<1>6. Append(SubSeq(v[2], 1, m), i) = SubSeq(v[2], 1, m + 1)
  BY <1>0, PrefixGrows DEF i
<1> HIDE DEF x
<1>7. PopListItem(pop, r) = Done(SubSeq(v[2], 1, m + 1), place[m + 1], x.depth)
  BY <1>1, <1>2, <1>3, <1>5, <1>6
<1> DEFINE c == PopListItem(pop, r)
           s == SubSeq(v[2], 1, m + 1)
           q == place[m + 1]
<1>8. c = Done(s, q, x.depth)
  BY <1>7
<1> HIDE DEF c, s, q
<1>9. c.val = s /\ c.pos = q
  BY <1>8 DEF Done
<1>10. QED
  BY <1>9 DEF c, s, q

(* A key that is not there is added at the end. *)
LEMMA PutNew ==
  ASSUME NEW E, NEW s \in Seq(E), Unique(s), NEW m \in 0 .. Len(s) - 1
  PROVE  Put(SubSeq(s, 1, m), s[m + 1]) = SubSeq(s, 1, m + 1)
<1> DEFINE a == SubSeq(s, 1, m)
<1>1. Append(a, s[m + 1]) = SubSeq(s, 1, m + 1) /\ a \in Seq(E) /\ Len(a) = m /\ \A i \in 1 .. m : a[i] = s[i]
  BY PrefixGrows
<1> HIDE DEF a
<1>2. DOMAIN a = 1 .. m /\ DOMAIN s = 1 .. Len(s) /\ Len(s) \in Nat
  BY <1>1
<1>3. s[m + 1][1] \notin Keys(a)
  <2>1. SUFFICES ASSUME NEW i \in 1 .. m, a[i][1] = s[m + 1][1] PROVE FALSE
    BY <1>2 DEF Keys
  <2>2. s[i][1] = s[m + 1][1] /\ i \in DOMAIN s /\ m + 1 \in DOMAIN s /\ i # m + 1
    BY <1>1, <1>2, <2>1
  <2>3. QED
    BY <2>2 DEF Unique
<1>4. QED
  BY <1>1, <1>3 DEF Put, a

(* A turn of the loop over a dictionary reads its next pair. *)
LEMMA DictTurns ==
  ASSUME NEW src, Len(src) \in Nat, NEW pop, NEW d \in Int, d <= MaxDepth, MaxDepth \in Nat, PopsAt(src, pop, d),
         NEW inner, Solid(inner), ReadsBack(src, pop, inner, d), NEW v \in Values, v[1] = "dict",
         NEW place,
         \A m \in 0 .. Len(v[2]) - 1 :
            /\ place[m] \in 1 .. Len(src) + 1
            /\ DictParts(v, inner)[m + 1].ok /\ At(src, place[m], DictParts(v, inner)[m + 1].out)
            /\ place[m + 1] = place[m] + Len(DictParts(v, inner)[m + 1].out)
  PROVE  TurnsRead("dict", pop, v[2], place, d)
<1>0. /\ Len(v[2]) \in Nat /\ v[2] \in Seq(Values \X Values) /\ Unique(v[2]) /\ \A key \in Keys(v[2]) : Hashable(key)
      /\ \A i \in 1 .. Len(v[2]) : v[2][i] = <<v[2][i][1], v[2][i][2]>> /\ v[2][i][1] \in Values /\ v[2][i][2] \in Values
  BY DictPairs, CborValues
<1>1. SUFFICES ASSUME NEW m \in 0 .. Len(v[2]) - 1, NEW r, r.depth = d, r.pos = place[m], r.val = SubSeq(v[2], 1, m),
                      PopPair(pop, r).ok
               PROVE  PopPair(pop, r).pos = place[m + 1] /\ PopPair(pop, r).val = SubSeq(v[2], 1, m + 1)
  BY DEF TurnsRead, NextRead
<1> DEFINE k == v[2][m + 1][1]
           w == v[2][m + 1][2]
           x == pop[d][place[m]]
           y == pop[x.depth][x.pos]
<1>2. m + 1 \in 1 .. Len(v[2]) /\ k \in Values /\ w \in Values /\ v[2][m + 1] = <<k, w>> /\ Elements(inner[k])
        /\ Elements(inner[w])
  BY <1>0 DEF Solid
<1>3. Hashable(k)
  <2>1. k \in Keys(v[2])
    BY <1>0, <1>2 DEF Keys
  <2>2. QED
    BY <1>0, <2>1
<1>4. DictParts(v, inner)[m + 1] = Then(inner[k], inner[w])
  BY <1>2 DEF DictParts
<1>5. place[m] \in 1 .. Len(src) + 1 /\ Then(inner[k], inner[w]).ok /\ At(src, place[m], Then(inner[k], inner[w]).out)
      /\ place[m + 1] = place[m] + Len(Then(inner[k], inner[w]).out)
  BY <1>4
<1>6. PopPair(pop, r) = IF ~(x.ok /\ y.ok) THEN Failed(y.pos, y.depth, IF y.ok THEN x.error ELSE y.error)
                        ELSE IF ~Hashable(x.val) THEN Failed(y.pos, y.depth, "unhashable")
                        ELSE Done(Put(r.val, <<x.val, y.val>>), y.pos, y.depth)
  BY <1>1 DEF PopPair
<1>7. Put(SubSeq(v[2], 1, m), <<k, w>>) = SubSeq(v[2], 1, m + 1)
  BY <1>0, <1>2, PutNew
<1> HIDE DEF k, w
<1>8. inner[k].ok /\ inner[w].ok /\ Then(inner[k], inner[w]).out = inner[k].out \o inner[w].out
  BY <1>2, <1>5, ThenParts
<1> DEFINE a == inner[k].out
           b == inner[w].out
<1>9. a \in Seq(Element) /\ b \in Seq(Element) /\ At(src, place[m], a \o b) /\ place[m] \in Int
  BY <1>2, <1>5, <1>8 DEF Elements
<1>10. At(src, place[m], a) /\ At(src, place[m] + Len(a), b) /\ Len(a \o b) = Len(a) + Len(b) /\ Len(a) \in Nat
         /\ Len(b) \in Nat
  <2> DEFINE q == place[m]
  <2>1. a \in Seq(Element) /\ b \in Seq(Element) /\ At(src, q, a \o b) /\ q \in Int
    BY <1>9
  <2> HIDE DEF a, b, q
  <2>2. At(src, q, a) /\ At(src, q + Len(a), b) /\ Len(a \o b) = Len(a) + Len(b) /\ Len(a) \in Nat /\ Len(b) \in Nat
    BY <2>1, AtConcat
  <2>3. QED
    BY <2>2 DEF q
<1>11. place[m] + Len(a) \in 1 .. Len(src) + 1
  BY <1>5, <1>9, <1>10, AtPlace
<1>12. place[m + 1] = place[m] + Len(a) + Len(b)
  <2>1. Len(Then(inner[k], inner[w]).out) = Len(a \o b)
    BY <1>8
  <2> HIDE DEF a, b
  <2>2. place[m + 1] = place[m] + (Len(a) + Len(b))
    BY <1>5, <1>10, <2>1
  <2>3. QED
    BY <1>9, <1>10, <2>2
<1>13. x.ok /\ y.ok
  <2> HIDE DEF x, y
  <2>1. \A q, e, z : ~Failed(q, e, z).ok
    BY DEF Failed
  <2>2. QED
    BY <1>1, <1>6, <2>1
<1>14. d \in d .. MaxDepth
  OBVIOUS
<1>15. x.depth = d
  BY <1>5, <1>14 DEF PopsAt, Popped
<1>16. x.val = k /\ x.pos = place[m] + Len(a)
  BY <1>2, <1>5, <1>8, <1>10, <1>13, <1>14 DEF ReadsBack
<1>17. y = pop[d][place[m] + Len(a)]
  BY <1>15, <1>16
<1>18. y.val = w /\ y.pos = place[m] + Len(a) + Len(b)
  <2> DEFINE q == place[m] + Len(a)
  <2>1. q \in 1 .. Len(src) + 1 /\ At(src, q, inner[w].out) /\ inner[w].ok /\ w \in Values /\ pop[d][q].ok /\ y = pop[d][q]
    BY <1>2, <1>8, <1>10, <1>11, <1>13, <1>17
  <2> HIDE DEF q, y
  <2>2. pop[d][q].val = w /\ pop[d][q].pos = q + Len(inner[w].out)
    BY <1>14, <2>1 DEF ReadsBack
  <2>3. QED
    BY <2>1, <2>2 DEF q
<1> HIDE DEF x, y, a, b
<1>19. PopPair(pop, r) = Done(SubSeq(v[2], 1, m + 1), place[m + 1], y.depth)
  BY <1>1, <1>3, <1>6, <1>7, <1>12, <1>13, <1>16, <1>18
<1> DEFINE c == PopPair(pop, r)
           s == SubSeq(v[2], 1, m + 1)
           q == place[m + 1]
<1>20. c = Done(s, q, y.depth)
  BY <1>19
<1> HIDE DEF c, s, q
<1>21. c.val = s /\ c.pos = q
  BY <1>20 DEF Done
<1>22. QED
  BY <1>21 DEF c, s, q

(* The head of a list or dictionary and its parts in the buffer: place[m] is
   where the first m parts end. *)
EndPlaces(p, f, n) == [m \in 0 .. n |-> p + Len(f[m].out)]
LaidOut(src, p, k, parts, place) ==
    /\ p \in 1 .. Len(src) /\ src[p] = <<k, Len(parts)>> /\ Len(parts) <= Len(src) /\ place[0] = p + 1
    /\ \A m \in 0 .. Len(parts) - 1 :
         /\ place[m] \in 1 .. Len(src) + 1 /\ parts[m + 1].ok /\ At(src, place[m], parts[m + 1].out)
         /\ place[m + 1] = place[m] + Len(parts[m + 1].out)

(* Where the head and the parts of a list or dictionary lie. *)
LEMMA ContainerLaid ==
  ASSUME NEW src, Len(src) \in Nat, NEW p \in 1 .. Len(src) + 1, NEW k \in {"array", "map"}, NEW parts, Len(parts) \in Nat,
         \A i \in 1 .. Len(parts) : Elements(parts[i]) /\ (parts[i].ok => Len(parts[i].out) >= 1),
         Follow(Wrote(<<<<k, Len(parts)>>>>), parts)[Len(parts)].ok,
         At(src, p, Follow(Wrote(<<<<k, Len(parts)>>>>), parts)[Len(parts)].out)
  PROVE  LaidOut(src, p, k, parts, EndPlaces(p, Follow(Wrote(<<<<k, Len(parts)>>>>), parts), Len(parts)))
<1> DEFINE n == Len(parts)
           head == Wrote(<<<<k, n>>>>)
           f == Follow(head, parts)
           place == EndPlaces(p, f, n)
<1>1. <<k, n>> \in Element
  BY NumberElement
<1>2. Elements(head) /\ head.out = <<<<k, n>>>> /\ Len(head.out) = 1 /\ head.out[1] = <<k, n>>
  BY <1>1, OneWritten DEF Wrote
<1>3. f[n].ok /\ At(src, p, f[n].out) /\ n \in Nat /\ p \in Int
  OBVIOUS
<1>4. f[0] = head
  <2> HIDE DEF head
  <2>1. QED
    BY FollowDef
<1> HIDE DEF head
<1>5. LaidParts(src, p, f, parts)
  BY <1>2, <1>3, FollowLaid
<1>6. \A i \in 0 .. n : Len(f[i].out) \in Nat /\ Len(f[i].out) >= Len(head.out) + i
  BY <1>2, <1>5, FollowLength
<1> HIDE DEF f, n
<1>7. \A m \in 0 .. n : place[m] = p + Len(f[m].out)
  BY DEF EndPlaces
<1>8. p \in 1 .. Len(src) /\ src[p] = <<k, n>> /\ place[0] = p + 1
  <2>1. At(src, p, head.out)
    BY <1>4, <1>5 DEF LaidParts
  <2>2. head.out \in Seq(Element)
    BY <1>2 DEF Elements
  <2>3. p \in 1 .. Len(src) /\ src[p] = head.out[1]
    <3> DEFINE e == head.out
    <3>1. e \in Seq(Element) /\ At(src, p, e) /\ Len(e) >= 1
      BY <1>2, <2>1, <2>2
    <3> HIDE DEF e
    <3>2. p \in 1 .. Len(src) /\ src[p] = e[1]
      BY <3>1, AtPlace
    <3>3. QED
      BY <3>2 DEF e
  <2>4. place[0] = p + Len(head.out)
    <3> HIDE DEF place
    <3>1. 0 \in 0 .. n
      BY <1>3
    <3>2. QED
      BY <1>4, <1>7, <3>1
  <2>5. QED
    BY <1>2, <2>3, <2>4
<1>9. n <= Len(src)
  <2>1. p + Len(f[n].out) <= Len(src) + 1
    BY <1>3 DEF At
  <2>2. Len(f[n].out) \in Nat /\ Len(f[n].out) >= 1 + n
    BY <1>2, <1>3, <1>6
  <2>3. QED
    BY <1>3, <2>1, <2>2
<1>10. ASSUME NEW m \in 0 .. n - 1
       PROVE  /\ place[m] \in 1 .. Len(src) + 1 /\ parts[m + 1].ok /\ At(src, place[m], parts[m + 1].out)
              /\ place[m + 1] = place[m] + Len(parts[m + 1].out)
  <2>1. m + 1 \in 1 .. n /\ (m + 1) - 1 = m /\ m \in 0 .. n /\ m + 1 \in 0 .. n
    BY <1>3
  <2>2. /\ parts[m + 1].ok /\ At(src, p + Len(f[(m + 1) - 1].out), parts[m + 1].out)
        /\ Len(f[m + 1].out) = Len(f[(m + 1) - 1].out) + Len(parts[m + 1].out)
    BY <1>5, <2>1 DEF LaidParts, n
  <2>3. place[m] = p + Len(f[m].out) /\ place[m + 1] = p + Len(f[m + 1].out)
    BY <1>7, <2>1
  <2> HIDE DEF place
  <2>4. At(src, place[m], parts[m + 1].out) /\ Len(f[m + 1].out) = Len(f[m].out) + Len(parts[m + 1].out)
    BY <2>1, <2>2, <2>3
  <2>5. Elements(parts[m + 1])
    BY <2>1 DEF n
  <2>6. Len(parts[m + 1].out) \in Nat
    BY <2>5 DEF Elements
  <2>7. Len(f[m].out) \in Nat
    BY <1>6, <2>1
  <2>8. place[m] + Len(parts[m + 1].out) <= Len(src) + 1
    BY <2>4 DEF At
  <2> DEFINE a == Len(f[m].out)
             b == Len(parts[m + 1].out)
             c == Len(f[m + 1].out)
  <2>9. a \in Nat /\ b \in Nat /\ place[m] = p + a /\ place[m + 1] = p + c /\ c = a + b /\ place[m] + b <= Len(src) + 1
    BY <2>3, <2>4, <2>6, <2>7, <2>8
  <2> HIDE DEF a, b, c
  <2>10. place[m] \in 1 .. Len(src) + 1 /\ place[m + 1] = place[m] + b
    BY <1>3, <2>9
  <2>11. QED
    BY <2>2, <2>4, <2>10 DEF b
<1> HIDE DEF place
<1>11. LaidOut(src, p, k, parts, place)
  BY <1>8, <1>9, <1>10 DEF LaidOut, n
<1>12. QED
  BY <1>11 DEF place, f, head, n

(* A list is read back after its head. *)
LEMMA ListReads ==
  ASSUME NEW src, Len(src) \in Nat, NEW pop, NEW d \in Int, d <= MaxDepth, MaxDepth \in Nat, PopsAt(src, pop, d),
         NEW inner, Solid(inner), ReadsBack(src, pop, inner, d), NEW v \in Values, v[1] = "list",
         NEW p \in 1 .. Len(src) + 1,
         ObjectElements(v, inner).ok, At(src, p, ObjectElements(v, inner).out)
  PROVE  /\ PeekType(src, p) = "array"
         /\ PopList(src, p, d, pop).ok => ReadAs(PopList(src, p, d, pop), v, p + Len(ObjectElements(v, inner).out))
<1> DEFINE parts == ListParts(v, inner)
           n == Len(v[2])
           f == Follow(Wrote(<<<<"array", Len(parts)>>>>), parts)
           place == EndPlaces(p, f, Len(parts))
<1>1. n \in Nat /\ Len(parts) = n /\ v[2] \in Seq(Values) /\ v = <<"list", v[2]>> /\ \A i \in 1 .. n : v[2][i] \in Values
  BY ListItems, CborValues
<1>2. \A i \in 1 .. n : parts[i] = inner[v[2][i]]
  BY DEF ListParts
<1>3. \A i \in 1 .. Len(parts) : Elements(parts[i]) /\ (parts[i].ok => Len(parts[i].out) >= 1)
  BY <1>1, <1>2 DEF Solid
<1>4. ObjectElements(v, inner) = f[Len(parts)]
  BY <1>1 DEF ObjectElements, ListParts
<1> HIDE DEF parts
<1>5. LaidOut(src, p, "array", parts, place)
  BY <1>1, <1>3, <1>4, ContainerLaid
<1>6. place[n] = p + Len(ObjectElements(v, inner).out)
  BY <1>1, <1>4 DEF EndPlaces
<1> HIDE DEF place, f, n
<1>7. p \in 1 .. Len(src) /\ src[p] = <<"array", n>> /\ n <= Len(src) /\ place[0] = p + 1 /\ p + 1 \in 1 .. Len(src) + 1
  BY <1>1, <1>5 DEF LaidOut
<1>8. ASSUME NEW m \in 0 .. n - 1
      PROVE  /\ place[m] \in 1 .. Len(src) + 1 /\ inner[v[2][m + 1]].ok /\ At(src, place[m], inner[v[2][m + 1]].out)
             /\ place[m + 1] = place[m] + Len(inner[v[2][m + 1]].out)
  <2>1. m + 1 \in 1 .. n /\ m \in 0 .. Len(parts) - 1
    BY <1>1
  <2>2. parts[m + 1] = inner[v[2][m + 1]]
    BY <1>2, <2>1
  <2>3. QED
    BY <1>5, <2>1, <2>2 DEF LaidOut
<1>9. TurnsRead("list", pop, v[2], place, d)
  BY <1>8, ListTurns DEF n
<1> DEFINE c == PopContainer("list", src, pop, n, p + 1, d)
<1>10. PeekType(src, p) = "array" /\ src[p][2] = n
  BY <1>7 DEF PeekType
<1>11. PopList(src, p, d, pop) = IF n > SsizeMax THEN Failed(p + 1, d, "overflow") ELSE c
  BY <1>10 DEF PopList
<1> SUFFICES ASSUME PopList(src, p, d, pop).ok
             PROVE  ReadAs(PopList(src, p, d, pop), v, p + Len(ObjectElements(v, inner).out))
  BY <1>10
<1>12. PopList(src, p, d, pop) = c /\ c.ok
  <2> HIDE DEF c
  <2>1. ~Failed(p + 1, d, "overflow").ok
    BY DEF Failed
  <2>2. QED
    BY <1>11, <2>1
<1>13. ReadAs(c, <<"list", v[2]>>, place[n])
  <2> DEFINE s == v[2]
             q == p + 1
  <2>1. s \in Seq(Values) /\ q \in 1 .. Len(src) + 1 /\ place[0] = q /\ Len(s) <= Len(src)
          /\ TurnsRead("list", pop, s, place, d)
        /\ PopContainer("list", src, pop, Len(s), q, d).ok /\ d \in d .. MaxDepth
    BY <1>1, <1>7, <1>9, <1>12 DEF n
  <2> HIDE DEF s, q, c
  <2>2. ReadAs(PopContainer("list", src, pop, Len(s), q, d), <<"list", s>>, place[Len(s)])
    BY <2>1, LoopReads
  <2>3. QED
    BY <2>2 DEF s, q, c, n
<1>14. QED
  BY <1>1, <1>6, <1>12, <1>13

(* A dictionary is read back after its head. *)
LEMMA MapReads ==
  ASSUME NEW src, Len(src) \in Nat, NEW pop, NEW d \in Int, d <= MaxDepth, MaxDepth \in Nat, PopsAt(src, pop, d),
         NEW inner, Solid(inner), ReadsBack(src, pop, inner, d), NEW v \in Values, v[1] = "dict",
         NEW p \in 1 .. Len(src) + 1,
         ObjectElements(v, inner).ok, At(src, p, ObjectElements(v, inner).out)
  PROVE  /\ PeekType(src, p) = "map"
         /\ PopMap(src, p, d, pop).ok => ReadAs(PopMap(src, p, d, pop), v, p + Len(ObjectElements(v, inner).out))
<1> DEFINE parts == DictParts(v, inner)
           n == Len(v[2])
           f == Follow(Wrote(<<<<"map", Len(parts)>>>>), parts)
           place == EndPlaces(p, f, Len(parts))
<1>1. n \in Nat /\ Len(parts) = n /\ v[2] \in Seq(Values \X Values) /\ v = <<"dict", v[2]>>
      /\ \A i \in 1 .. n : v[2][i][1] \in Values /\ v[2][i][2] \in Values
  BY DictPairs, CborValues
<1>2. \A i \in 1 .. n : parts[i] = Then(inner[v[2][i][1]], inner[v[2][i][2]])
  BY DEF DictParts
<1>3. ASSUME NEW i \in 1 .. Len(parts) PROVE Elements(parts[i]) /\ (parts[i].ok => Len(parts[i].out) >= 1)
  <2> DEFINE a == inner[v[2][i][1]]
             b == inner[v[2][i][2]]
  <2>1. parts[i] = Then(a, b) /\ Elements(a) /\ Elements(b) /\ (a.ok => Len(a.out) >= 1)
    BY <1>1, <1>2 DEF Solid
  <2> HIDE DEF a, b, parts
  <2>2. Elements(Then(a, b))
    BY <2>1, ThenWritten
  <2>3. Then(a, b).ok => a.ok /\ Then(a, b).out = a.out \o b.out
    BY <2>1, ThenParts
  <2>4. Len(a.out \o b.out) = Len(a.out) + Len(b.out) /\ Len(a.out) \in Nat /\ Len(b.out) \in Nat
    BY <2>1 DEF Elements
  <2>5. a.ok => Len(a.out \o b.out) >= 1
    <3> DEFINE la == Len(a.out)
               lb == Len(b.out)
    <3>1. la \in Nat /\ lb \in Nat /\ Len(a.out \o b.out) = la + lb /\ (a.ok => la >= 1)
      BY <2>1, <2>4
    <3> HIDE DEF la, lb
    <3>2. QED
      BY <3>1
  <2>6. QED
    BY <2>1, <2>2, <2>3, <2>5
<1>4. ObjectElements(v, inner) = f[Len(parts)]
  BY <1>1 DEF ObjectElements, DictParts
<1>5. LaidOut(src, p, "map", parts, place)
  <2> HIDE DEF parts
  <2>1. QED
    BY <1>1, <1>3, <1>4, ContainerLaid
<1>6. place[n] = p + Len(ObjectElements(v, inner).out)
  BY <1>1, <1>4 DEF EndPlaces
<1>7. p \in 1 .. Len(src) /\ src[p] = <<"map", n>> /\ n <= Len(src) /\ place[0] = p + 1 /\ p + 1 \in 1 .. Len(src) + 1
  <2> HIDE DEF place, f, n, parts
  <2>1. QED
    BY <1>1, <1>5 DEF LaidOut
<1>8. ASSUME NEW m \in 0 .. n - 1
      PROVE  /\ place[m] \in 1 .. Len(src) + 1
             /\ DictParts(v, inner)[m + 1].ok /\ At(src, place[m], DictParts(v, inner)[m + 1].out)
             /\ place[m + 1] = place[m] + Len(DictParts(v, inner)[m + 1].out)
  <2> HIDE DEF place, f
  <2>1. m \in 0 .. Len(parts) - 1
    BY <1>1
  <2>2. QED
    BY <1>5, <2>1 DEF LaidOut
<1> HIDE DEF place, f
<1>9. TurnsRead("dict", pop, v[2], place, d)
  BY <1>8, DictTurns
<1> HIDE DEF n, parts
<1> DEFINE c == PopContainer("dict", src, pop, n, p + 1, d)
<1>10. PeekType(src, p) = "map" /\ src[p][2] = n
  BY <1>7 DEF PeekType
<1>11. PopMap(src, p, d, pop) = IF n > SsizeMax THEN Failed(p + 1, d, "overflow") ELSE c
  BY <1>10 DEF PopMap
<1> SUFFICES ASSUME PopMap(src, p, d, pop).ok
             PROVE  ReadAs(PopMap(src, p, d, pop), v, p + Len(ObjectElements(v, inner).out))
  BY <1>10
<1>12. PopMap(src, p, d, pop) = c /\ c.ok
  <2> HIDE DEF c
  <2>1. ~Failed(p + 1, d, "overflow").ok
    BY DEF Failed
  <2>2. QED
    BY <1>11, <2>1
<1>13. ReadAs(c, <<"dict", v[2]>>, place[n])
  <2> DEFINE s == v[2]
             q == p + 1
             E == Values \X Values
  <2>1. s \in Seq(E) /\ q \in 1 .. Len(src) + 1 /\ place[0] = q /\ Len(s) <= Len(src) /\ TurnsRead("dict", pop, s, place, d)
        /\ PopContainer("dict", src, pop, Len(s), q, d).ok /\ d \in d .. MaxDepth
    BY <1>1, <1>7, <1>9, <1>12 DEF n
  <2> HIDE DEF s, q, c, E
  <2>2. ReadAs(PopContainer("dict", src, pop, Len(s), q, d), <<"dict", s>>, place[Len(s)])
    BY <2>1, LoopReads
  <2>3. QED
    BY <2>2 DEF s, q, c, n
<1>14. QED
  BY <1>1, <1>6, <1>12, <1>13

(* A value that is one element. *)
LEMMA OneRead ==
  ASSUME NEW src, Len(src) \in Nat, NEW p \in 1 .. Len(src) + 1, NEW e \in Element, At(src, p, <<e>>)
  PROVE  p \in 1 .. Len(src) /\ src[p] = e /\ PeekType(src, p) = e[1] /\ Len(<<e>>) = 1
<1> DEFINE s == <<e>>
<1>1. s \in Seq(Element) /\ Len(s) = 1 /\ s[1] = e /\ At(src, p, s)
  OBVIOUS
<1> HIDE DEF s
<1>2. p \in 1 .. Len(src) /\ src[p] = e
  <2>1. Len(s) >= 1
    BY <1>1
  <2>2. src[p] = s[1] /\ p \in 1 .. Len(src)
    BY <1>1, <2>1, AtPlace
  <2>3. QED
    BY <1>1, <2>2
<1>3. QED
  BY <1>1, <1>2 DEF PeekType, s

(* The one element of an integer. *)
LEMMA IntRead ==
  ASSUME NEW n \in Int, IntElements(n).ok
  PROVE  \/ n >= 0 /\ IntElements(n).out = <<<<"uint", n>>>>
         \/ n < 0 /\ IntElements(n).out = <<<<"negint", -1 - n>>>>
<1>1. CASE n >= 0
  <2>1. IntElements(n) = AsUnsigned("uint", n)
    BY <1>1 DEF IntElements
  <2>2. QED
    BY <1>1, <2>1 DEF AsUnsigned, Wrote, Raised
<1>2. CASE n < 0
  <2>1. IntElements(n) = AsUnsigned("negint", -1 - n)
    BY <1>2 DEF IntElements
  <2>2. QED
    BY <1>2, <2>1 DEF AsUnsigned, Wrote, Raised
<1>3. QED
  BY <1>1, <1>2

(* It is popped as the integer. *)
LEMMA IntBody ==
  ASSUME NEW src, Len(src) \in Nat, NEW p \in 1 .. Len(src) + 1, NEW n \in Int, IntElements(n).ok,
         At(src, p, IntElements(n).out), NEW d, NEW ep, NEW pop
  PROVE  /\ PopBody(src, p, d, ep, pop) = Done(<<"int", n>>, p + 1, d) /\ Len(IntElements(n).out) = 1
         /\ PeekType(src, p) \in {"uint", "negint"}
<1>1. CASE n >= 0
  <2> DEFINE e == <<"uint", n>>
  <2>1. IntElements(n).out = <<e>> /\ e \in Element
    BY <1>1, IntRead, NumberElement
  <2>2. src[p] = e /\ PeekType(src, p) = "uint" /\ Len(IntElements(n).out) = 1
    BY <2>1, OneRead
  <2>3. QED
    BY <2>2 DEF PopBody
<1>2. CASE n < 0
  <2> DEFINE e == <<"negint", -1 - n>>
  <2>1. IntElements(n).out = <<e>> /\ e \in Element
    BY <1>2, IntRead, NumberElement
  <2>2. src[p] = e /\ PeekType(src, p) = "negint" /\ Len(IntElements(n).out) = 1
    BY <2>1, OneRead
  <2>3. PopBody(src, p, d, ep, pop) = Done(<<"int", -1 - (-1 - n)>>, p + 1, d)
    BY <2>2 DEF PopBody
  <2>4. -1 - (-1 - n) = n
    OBVIOUS
  <2>5. QED
    BY <2>2, <2>3, <2>4
<1>3. QED
  BY <1>1, <1>2

(* An item is the value whose elements lie where it is popped. *)
LEMMA BodyReads ==
  ASSUME NEW src, Len(src) \in Nat, NEW pop, NEW d \in Int, d <= MaxDepth, MaxDepth \in Nat, PopsAt(src, pop, d),
         NEW inner, Solid(inner), ReadsBack(src, pop, inner, d), NEW v \in Values, NEW p \in 1 .. Len(src) + 1, NEW ep,
         ObjectElements(v, inner).ok, At(src, p, ObjectElements(v, inner).out), PopBody(src, p, d, ep, pop).ok
  PROVE  ReadAs(PopBody(src, p, d, ep, pop), v, p + Len(ObjectElements(v, inner).out))
<1> DEFINE w == ObjectElements(v, inner)
           B == PopBody(src, p, d, ep, pop)
<1>0. /\ v = <<v[1], v[2]>>
      /\ v[1] \in {"int", "text", "bytes", "float", "bool", "null", "list", "dict", "object"}
      /\ v[1] = "int" => v[2] \in Int
      /\ v[1] = "null" => v[2] = 0
  BY CborValues
<1>1. \A x, q : ReadAs(Done(x, q, d), x, q)
  BY DEF ReadAs, Done
<1>2. CASE v[1] = "int"
  <2>1. w = IntElements(v[2]) /\ v[2] \in Int
    BY <1>0, <1>2, SameIntegers DEF ObjectElements
  <2>2. B = Done(<<"int", v[2]>>, p + 1, d) /\ Len(w.out) = 1
    BY <2>1, IntBody
  <2>3. QED
    BY <1>0, <1>1, <1>2, <2>2
<1>3. CASE v[1] \in {"text", "bytes", "float", "bool", "null"}
  <2>1. v \in Element
    BY <1>0, <1>3 DEF Element, OneElement
  <2>2. w = Wrote(<<v>>)
    BY <1>3 DEF ObjectElements
  <2>3. w.out = <<v>>
    BY <2>2 DEF Wrote
  <2>4. src[p] = v /\ PeekType(src, p) = v[1] /\ Len(w.out) = 1
    BY <2>1, <2>3, OneRead
  <2>5. B = Done(v, p + 1, d)
    <3>1. CASE v[1] = "null"
      <4>1. v = <<"null", 0>>
        BY <1>0, <3>1
      <4>2. QED
        BY <2>4, <3>1, <4>1 DEF PopBody
    <3>2. CASE v[1] # "null"
      BY <1>3, <2>4, <3>2 DEF PopBody
    <3>3. QED
      BY <3>1, <3>2
  <2>6. QED
    BY <1>1, <2>4, <2>5
<1>4. CASE v[1] = "list"
  <2>1. /\ PeekType(src, p) = "array"
        /\ PopList(src, p, d, pop).ok => ReadAs(PopList(src, p, d, pop), v, p + Len(w.out))
    BY <1>4, ListReads
  <2>2. B = PopList(src, p, d, pop)
    BY <2>1 DEF PopBody
  <2>3. QED
    BY <2>1, <2>2
<1>5. CASE v[1] = "dict"
  <2>1. /\ PeekType(src, p) = "map"
        /\ PopMap(src, p, d, pop).ok => ReadAs(PopMap(src, p, d, pop), v, p + Len(w.out))
    BY <1>5, MapReads
  <2>2. B = PopMap(src, p, d, pop)
    BY <2>1 DEF PopBody
  <2>3. QED
    BY <2>1, <2>2
<1>6. CASE v[1] = "object"
  <2>1. w = Raised(<<>>)
    BY <1>6 DEF ObjectElements
  <2>2. QED
    BY <2>1 DEF Raised
<1>7. QED
  BY <1>0, <1>2, <1>3, <1>4, <1>5, <1>6

(* A list or dictionary takes place at least for its head. *)
LEMMA FollowSolid ==
  ASSUME NEW e \in Element, NEW parts, Len(parts) \in Nat, \A i \in 1 .. Len(parts) : Elements(parts[i]),
         Follow(Wrote(<<e>>), parts)[Len(parts)].ok
  PROVE  Len(Follow(Wrote(<<e>>), parts)[Len(parts)].out) >= 1
<1> DEFINE head == Wrote(<<e>>)
           f == Follow(head, parts)
           src == f[Len(parts)].out
<1>1. Elements(head) /\ head.out = <<e>>
  BY OneWritten DEF Wrote
<1> HIDE DEF head
<1>2. Elements(f[Len(parts)])
  BY <1>1, FollowWritten
<1>3. src \in Seq(Element) /\ Len(src) \in Nat
  BY <1>2 DEF Elements
<1>4. f[0] = head
  BY FollowDef
<1>5. At(src, 1, src)
  <2> HIDE DEF src
  <2>1. QED
    BY <1>3 DEF At
<1>6. f[Len(parts)].ok /\ At(src, 1, f[Len(parts)].out) /\ 1 \in Int
  BY <1>5 DEF head
<1>7. LaidParts(src, 1, f, parts)
  <2> DEFINE t == src
  <2>1. Len(t) \in Nat /\ At(t, 1, f[Len(parts)].out) /\ f[Len(parts)].ok
    BY <1>3, <1>6
  <2> HIDE DEF t
  <2>2. LaidParts(t, 1, f, parts)
    BY <1>1, <2>1, FollowLaid
  <2>3. QED
    BY <2>2 DEF t
<1>8. At(src, 1, head.out)
  BY <1>4, <1>7 DEF LaidParts
<1>9. 1 + Len(<<e>>) <= Len(src) + 1 /\ Len(<<e>>) = 1
  BY <1>1, <1>8 DEF At
<1>10. Len(src) >= 1
  <2> HIDE DEF src
  <2>1. QED
    BY <1>3, <1>9
<1>11. QED
  BY <1>10 DEF head

(* A value that was written has an element. *)
LEMMA ObjectSolid ==
  ASSUME NEW v \in Values, NEW inner, \A x \in Values : Elements(inner[x]), ObjectElements(v, inner).ok
  PROVE  Len(ObjectElements(v, inner).out) >= 1
<1>0. /\ v[1] \in {"int", "text", "bytes", "float", "bool", "null", "list", "dict", "object"}
      /\ v[1] = "int" => v[2] \in Int
  BY CborValues
<1>1. CASE v[1] = "int"
  <2>1. ObjectElements(v, inner) = IntElements(v[2])
    BY <1>0, <1>1, SameIntegers DEF ObjectElements
  <2>2. \E e : IntElements(v[2]).out = <<e>>
    BY <1>0, <1>1, <2>1, IntRead
  <2>3. QED
    BY <2>1, <2>2
<1>2. CASE v[1] \in {"text", "bytes", "float", "bool", "null"}
  <2>1. ObjectElements(v, inner) = Wrote(<<v>>)
    BY <1>2 DEF ObjectElements
  <2>2. QED
    BY <2>1 DEF Wrote
<1>3. CASE v[1] = "list"
  <2> DEFINE parts == ListParts(v, inner)
             e == <<"array", Len(v[2])>>
  <2>1. Len(v[2]) \in Nat /\ Len(parts) = Len(v[2]) /\ \A i \in 1 .. Len(v[2]) : v[2][i] \in Values
    BY <1>3, ListItems
  <2>2. e \in Element
    BY <2>1, NumberElement
  <2>3. \A i \in 1 .. Len(parts) : Elements(parts[i])
    BY <2>1 DEF ListParts
  <2>4. ObjectElements(v, inner) = Follow(Wrote(<<e>>), parts)[Len(parts)] /\ Len(parts) \in Nat
    BY <1>3, <2>1 DEF ObjectElements, ListParts
  <2> HIDE DEF parts, e
  <2>5. Follow(Wrote(<<e>>), parts)[Len(parts)].ok
    BY <2>4
  <2>6. Len(Follow(Wrote(<<e>>), parts)[Len(parts)].out) >= 1
    BY <2>2, <2>3, <2>4, <2>5, FollowSolid
  <2>7. QED
    BY <2>4, <2>6
<1>4. CASE v[1] = "dict"
  <2> DEFINE parts == DictParts(v, inner)
             e == <<"map", Len(v[2])>>
  <2>1. Len(v[2]) \in Nat /\ Len(parts) = Len(v[2]) /\ \A i \in 1 .. Len(v[2]) : v[2][i][1] \in Values
          /\ v[2][i][2] \in Values
    BY <1>4, DictPairs
  <2>2. e \in Element
    BY <2>1, NumberElement
  <2>3. \A i \in 1 .. Len(parts) : Elements(parts[i])
    BY <2>1, ThenWritten DEF DictParts
  <2>4. ObjectElements(v, inner) = Follow(Wrote(<<e>>), parts)[Len(parts)] /\ Len(parts) \in Nat
    BY <1>4, <2>1 DEF ObjectElements, DictParts
  <2> HIDE DEF parts, e
  <2>5. Follow(Wrote(<<e>>), parts)[Len(parts)].ok
    BY <2>4
  <2>6. Len(Follow(Wrote(<<e>>), parts)[Len(parts)].out) >= 1
    BY <2>2, <2>3, <2>4, <2>5, FollowSolid
  <2>7. QED
    BY <2>4, <2>6
<1>5. CASE v[1] = "object"
  <2>1. ObjectElements(v, inner) = Raised(<<>>)
    BY <1>5 DEF ObjectElements
  <2>2. QED
    BY <2>1 DEF Raised
<1>6. QED
  BY <1>0, <1>1, <1>2, <1>3, <1>4, <1>5

(* ...on every level. *)
LEMMA NestedSolid ==
  \A j \in 0 .. MaxNesting : Solid(Nested[j])
<1> DEFINE f == Nested
           S == {j \in Nat : j <= MaxNesting => Solid(f[j])}
<1>0. MaxNesting \in Nat
  BY CborWidths
<1>1. f[0] = [x \in Values |-> Raised(<<>>)] /\ \A k \in 0 .. MaxNesting - 1 : f[k + 1] = Around(f[k])
  BY <1>0, NestedDef
<1> HIDE DEF f
<1>2. 0 \in S
  <2>1. \A x \in Values : f[0][x] = Raised(<<>>)
    BY <1>1
  <2>2. ~Raised(<<>>).ok
    BY DEF Raised
  <2>3. Solid(f[0])
    BY <2>1, <2>2, NoneWritten DEF Solid
  <2>4. QED
    BY <2>3
<1>3. ASSUME NEW k \in S PROVE k + 1 \in S
  <2>1. CASE k + 1 <= MaxNesting
    <3>1. k \in 0 .. MaxNesting - 1 /\ Solid(f[k])
      BY <1>0, <2>1
    <3>2. \A x \in Values : f[k + 1][x] = ObjectElements(x, f[k])
      BY <1>1, <3>1 DEF Around
    <3>3. \A x \in Values : Elements(f[k][x])
      BY <3>1 DEF Solid
    <3>4. \A x \in Values : Elements(ObjectElements(x, f[k]))
            /\ (ObjectElements(x, f[k]).ok => Len(ObjectElements(x, f[k]).out) >= 1)
      BY <3>3, ObjectWritten, ObjectSolid
    <3>5. Solid(f[k + 1])
      BY <3>2, <3>4 DEF Solid
    <3>6. QED
      BY <3>5
  <2>2. QED
    BY <2>1
<1>4. S = Nat
  <2> HIDE DEF S
  <2>1. S \in SUBSET Nat
    BY DEF S
  <2>2. QED
    BY <1>2, <1>3, <2>1, SetInduction
<1>5. QED
  BY <1>0, <1>4 DEF f

(* ... for values of all levels; there is none at the end. *)
NoneAtEnd(src, pop, low) == \A d \in low .. MaxDepth : ~pop[d][Len(src) + 1].ok
AllReadBack(src, pop, low) ==
    (\A j \in 0 .. MaxNesting : ReadsBack(src, pop, Nested[j], low)) /\ NoneAtEnd(src, pop, low)

(* There is nothing to pop at the end of the buffer. *)
LEMMA EndFails ==
  ASSUME NEW src, Len(src) \in Nat, NEW d, NEW ep, NEW pop
  PROVE  LET p == Len(src) + 1
         IN  ~PopBody(src, p, d, ep, pop).ok /\ ~PopList(src, p, d, pop).ok /\ ~PopMap(src, p, d, pop).ok
             /\ ~LeaveItem(PopBody(src, p, d, ep, pop)).ok
<1> DEFINE p == Len(src) + 1
           F == Failed(p, d, "unexpected")
<1>1. PeekType(src, p) = "end"
  BY DEF PeekType
<1>2. PopBody(src, p, d, ep, pop) = F /\ PopList(src, p, d, pop) = F /\ PopMap(src, p, d, pop) = F
  BY <1>1 DEF PopBody, PopList, PopMap
<1>3. ~F.ok /\ ~LeaveItem(F).ok
  BY DEF Failed, LeaveItem
<1>4. QED
  BY <1>2, <1>3

(* A value that was written is written with its items one level down. *)
LEMMA NestedTop ==
  ASSUME NEW j \in 0 .. MaxNesting, NEW x \in Values, Nested[j][x].ok
  PROVE  j - 1 \in 0 .. MaxNesting /\ Nested[j][x] = ObjectElements(x, Nested[j - 1])
<1>0. MaxNesting \in Nat
  BY CborWidths
<1>1. Nested[0] = [y \in Values |-> Raised(<<>>)] /\ \A k \in 0 .. MaxNesting - 1 : Nested[k + 1] = Around(Nested[k])
  BY <1>0, NestedDef
<1>2. j # 0
  <2>1. SUFFICES ASSUME j = 0 PROVE FALSE
    OBVIOUS
  <2>2. Nested[j][x] = Raised(<<>>)
    BY <1>1, <2>1
  <2>3. QED
    BY <2>2 DEF Raised
<1>3. j - 1 \in 0 .. MaxNesting - 1 /\ j - 1 \in 0 .. MaxNesting /\ (j - 1) + 1 = j
  BY <1>0, <1>2
<1>4. Nested[j] = Around(Nested[j - 1])
  BY <1>1, <1>3
<1>5. QED
  BY <1>3, <1>4 DEF Around

(* Leaving an item changes its depth only. *)
LEMMA LeaveReads ==
  ASSUME NEW src, NEW p, NEW d, NEW m, NEW r, Popped(src, r, p, d, m)
  PROVE  LeaveItem(r).ok = r.ok /\ LeaveItem(r).val = r.val /\ LeaveItem(r).pos = r.pos
<1>1. LeaveItem(r) = [ok |-> r.ok, val |-> r.val, pos |-> r.pos, depth |-> r.depth - 1, error |-> r.error]
  BY DEF LeaveItem, Popped
<1>2. QED
  BY <1>1

(* Items at one depth less are read back when those below are. *)
LEMMA BelowReads ==
  ASSUME NEW src, Len(src) \in Nat, NEW pop, NEW ep, MaxDepth \in Nat, NEW k \in 1 .. MaxDepth,
         PopsAt(src, pop, MaxDepth - (k - 1)), AllReadBack(src, pop, MaxDepth - (k - 1))
  PROVE  AllReadBack(src, Below(src, ep, k, pop), MaxDepth - k)
<1> DEFINE b == Below(src, ep, k, pop)
<1>0. NoneAtEnd(src, b, MaxDepth - k)
  <2>1. SUFFICES ASSUME NEW d \in MaxDepth - k .. MaxDepth PROVE ~b[d][Len(src) + 1].ok
    BY DEF NoneAtEnd
  <2>2. CASE d > MaxDepth - k
    <3>1. b[d] = pop[d] /\ d \in MaxDepth - (k - 1) .. MaxDepth
      BY <2>2 DEF Below
    <3>2. QED
      BY <3>1 DEF AllReadBack, NoneAtEnd
  <2>3. CASE d = MaxDepth - k
    <3>1. b[d][Len(src) + 1] = LeaveItem(PopBody(src, Len(src) + 1, d + 1, ep, pop))
      BY <2>3 DEF Below
    <3>2. QED
      BY <3>1, EndFails
  <2>4. QED
    BY <2>2, <2>3
<1>1. SUFFICES ASSUME NEW j \in 0 .. MaxNesting, NEW d \in MaxDepth - k .. MaxDepth,
        NEW p \in 1 .. Len(src) + 1, NEW x \in Values,
                      Nested[j][x].ok, At(src, p, Nested[j][x].out), b[d][p].ok
               PROVE  b[d][p].val = x /\ b[d][p].pos = p + Len(Nested[j][x].out)
  BY <1>0 DEF AllReadBack, ReadsBack
<1>2. CASE d > MaxDepth - k
  <2>1. b[d] = pop[d] /\ d \in MaxDepth - (k - 1) .. MaxDepth
    BY <1>2 DEF Below
  <2>2. ReadsBack(src, pop, Nested[j], MaxDepth - (k - 1))
    BY DEF AllReadBack
  <2>3. pop[d][p].ok
    BY <1>1, <2>1
  <2>4. pop[d][p].val = x /\ pop[d][p].pos = p + Len(Nested[j][x].out)
    BY <1>1, <2>1, <2>2, <2>3 DEF ReadsBack
  <2>5. QED
    BY <2>1, <2>4
<1>3. CASE d = MaxDepth - k
  <2> DEFINE B == PopBody(src, p, d + 1, ep, pop)
             inner == Nested[j - 1]
  <2>1. b[d][p] = LeaveItem(B)
    BY <1>3 DEF Below
  <2>2. d + 1 = MaxDepth - (k - 1) /\ d + 1 <= MaxDepth /\ d + 1 \in Int
    BY <1>3
  <2>3. Popped(src, B, p, d + 1, MaxDepth - (d + 1) + 1)
    BY <2>2, BodyPopped
  <2>4. B.ok /\ b[d][p].val = B.val /\ b[d][p].pos = B.pos
    <3> HIDE DEF B
    <3>1. LeaveItem(B).ok = B.ok /\ LeaveItem(B).val = B.val /\ LeaveItem(B).pos = B.pos
      BY <2>3, LeaveReads
    <3>2. QED
      BY <1>1, <2>1, <3>1
  <2>5. j - 1 \in 0 .. MaxNesting /\ Nested[j][x] = ObjectElements(x, inner)
    BY <1>1, NestedTop
  <2>6. Solid(inner) /\ ReadsBack(src, pop, inner, d + 1) /\ PopsAt(src, pop, d + 1)
    BY <2>2, <2>5, NestedSolid DEF AllReadBack
  <2>7. ObjectElements(x, inner).ok /\ At(src, p, ObjectElements(x, inner).out)
    BY <1>1, <2>5
  <2>8. ReadAs(B, x, p + Len(ObjectElements(x, inner).out))
    <3> DEFINE e == d + 1
    <3>1. e \in Int /\ e <= MaxDepth /\ ReadsBack(src, pop, inner, e) /\ PopsAt(src, pop, e)
            /\ PopBody(src, p, e, ep, pop).ok
      BY <2>2, <2>4, <2>6
    <3> HIDE DEF e, inner
    <3>2. ReadAs(PopBody(src, p, e, ep, pop), x, p + Len(ObjectElements(x, inner).out))
      BY <2>6, <2>7, <3>1, BodyReads
    <3>3. QED
      BY <3>2 DEF e
  <2>9. QED
    BY <2>4, <2>5, <2>8 DEF ReadAs
<1>4. QED
  BY <1>2, <1>3

(* Nothing is popped at the limit. *)
LEMMA LimitReads ==
  ASSUME NEW src, Len(src) \in Nat, MaxDepth \in Nat
  PROVE  AllReadBack(src, AtLimit(src), MaxDepth)
<1>1. \A d \in MaxDepth .. MaxDepth : \A p \in 1 .. Len(src) + 1 : ~AtLimit(src)[d][p].ok
  BY DEF AtLimit, Failed
<1>2. QED
  BY <1>1 DEF AllReadBack, ReadsBack, NoneAtEnd

(* Every value is popped as itself from where it was written, at every depth. *)
LEMMA ItemsRead ==
  ASSUME NEW src, Len(src) \in Nat, NEW ep, MaxDepth \in Nat
  PROVE  AllReadBack(src, PopItem(src, ep), 0)
<1> DEFINE f == Poppers(src, ep)
           S == {k \in Nat : k <= MaxDepth => PopsAt(src, f[k], MaxDepth - k) /\ AllReadBack(src, f[k], MaxDepth - k)}
<1>1. f[0] = AtLimit(src) /\ \A k \in 0 .. MaxDepth - 1 : f[k + 1] = Below(src, ep, k + 1, f[k])
  BY PoppersDef
<1> HIDE DEF f
<1>2. 0 \in S
  <2>1. PopsAt(src, f[0], MaxDepth - 0) /\ AllReadBack(src, f[0], MaxDepth - 0)
    BY <1>1, LimitPops, LimitReads
  <2>2. QED
    BY <2>1
<1>3. ASSUME NEW k \in S PROVE k + 1 \in S
  <2>1. CASE k + 1 <= MaxDepth
    <3>1. k \in 0 .. MaxDepth - 1 /\ k + 1 \in 1 .. MaxDepth /\ (k + 1) - 1 = k
          /\ PopsAt(src, f[k], MaxDepth - k) /\ AllReadBack(src, f[k], MaxDepth - k)
      BY <2>1
    <3>2. PopsAt(src, Below(src, ep, k + 1, f[k]), MaxDepth - (k + 1))
            /\ AllReadBack(src, Below(src, ep, k + 1, f[k]), MaxDepth - (k + 1))
      BY <3>1, BelowPops, BelowReads
    <3>3. PopsAt(src, f[k + 1], MaxDepth - (k + 1)) /\ AllReadBack(src, f[k + 1], MaxDepth - (k + 1))
      BY <1>1, <3>1, <3>2
    <3>4. QED
      BY <3>3
  <2>2. QED
    BY <2>1
<1>4. S = Nat
  <2> HIDE DEF S
  <2>1. S \in SUBSET Nat
    BY DEF S
  <2>2. QED
    BY <1>2, <1>3, <2>1, SetInduction
<1>5. AllReadBack(src, f[MaxDepth], MaxDepth - MaxDepth)
  BY <1>4
<1>6. QED
  BY <1>5 DEF f, PopItem

(* The elements of a value begin as its type says. *)
LEMMA HeadType ==
  ASSUME NEW src, Len(src) \in Nat, NEW p \in 1 .. Len(src) + 1, NEW inner, Solid(inner), NEW v \in Values,
         ObjectElements(v, inner).ok, At(src, p, ObjectElements(v, inner).out), v[1] \notin {"list", "dict"}
  PROVE  PeekType(src, p) \notin {"array", "indef_array", "map", "indef_map"}
<1> DEFINE w == ObjectElements(v, inner)
<1>0. /\ v = <<v[1], v[2]>>
      /\ v[1] \in {"int", "text", "bytes", "float", "bool", "null", "list", "dict", "object"}
      /\ v[1] = "int" => v[2] \in Int
  BY CborValues
<1>1. CASE v[1] = "int"
  <2>1. w = IntElements(v[2]) /\ v[2] \in Int
    BY <1>0, <1>1, SameIntegers DEF ObjectElements
  <2>2. PeekType(src, p) \in {"uint", "negint"}
    BY <2>1, IntBody
  <2>3. QED
    BY <2>2
<1>2. CASE v[1] \in {"text", "bytes", "float", "bool", "null"}
  <2>1. v \in Element
    BY <1>0, <1>2 DEF Element, OneElement
  <2>2. w = Wrote(<<v>>)
    BY <1>2 DEF ObjectElements
  <2>3. w.out = <<v>>
    BY <2>2 DEF Wrote
  <2>4. PeekType(src, p) = v[1]
    BY <2>1, <2>3, OneRead
  <2>5. QED
    BY <1>2, <2>4
<1>3. CASE v[1] = "object"
  <2>1. w = Raised(<<>>)
    BY <1>3 DEF ObjectElements
  <2>2. QED
    BY <2>1 DEF Raised
<1>4. QED
  BY <1>0, <1>1, <1>2, <1>3

(* The three calls that pop a whole value. *)
WholePops(src, ep, p) ==
    {PopItem(src, ep)[0][p], PopList(src, p, 0, PopItem(src, ep)), PopMap(src, p, 0, PopItem(src, ep))}

(* An item that is popped by itself has been entered and left. *)
LEMMA TopItem ==
  ASSUME NEW src, Len(src) \in Nat, NEW ep, NEW p \in 1 .. Len(src) + 1, PopItem(src, ep)[0][p].ok
  PROVE  \E d, pop : PopItem(src, ep)[0][p] = LeaveItem(PopBody(src, p, d, ep, pop))
<1> DEFINE f == Poppers(src, ep)
<1>0. MaxDepth \in Nat
  BY CborWidths
<1>1. f[0] = AtLimit(src) /\ \A k \in 0 .. MaxDepth - 1 : f[k + 1] = Below(src, ep, k + 1, f[k])
  BY <1>0, PoppersDef
<1>2. f[MaxDepth][0][p].ok
  BY DEF PopItem
<1>3. SUFFICES \E d, pop : f[MaxDepth][0][p] = LeaveItem(PopBody(src, p, d, ep, pop))
  BY DEF PopItem
<1> HIDE DEF f
<1>4. MaxDepth # 0
  <2> SUFFICES ASSUME MaxDepth = 0 PROVE FALSE
    OBVIOUS
  <2>1. f[MaxDepth][0][p] = Failed(p, 0, "depth")
    BY <1>1 DEF AtLimit
  <2>2. QED
    BY <1>2, <2>1 DEF Failed
<1> DEFINE k == MaxDepth - 1
<1>5. k \in 0 .. MaxDepth - 1 /\ k + 1 = MaxDepth /\ MaxDepth - MaxDepth = 0 /\ 0 \in 0 .. MaxDepth
  BY <1>0, <1>4
<1>6. f[MaxDepth] = Below(src, ep, MaxDepth, f[k])
  BY <1>1, <1>5
<1>7. Below(src, ep, MaxDepth, f[k])[0][p] = LeaveItem(PopBody(src, p, 0 + 1, ep, f[k]))
  BY <1>0, <1>5 DEF Below
<1>8. QED
  BY <1>6, <1>7

(* What write_int and the calls for data items write, when it is the value. *)
Stored(v) == IF v[1] = "int" THEN IntElements(v[2]) ELSE PyObjectElements(v)

LEMMA StoredWritten ==
  ASSUME NEW v \in Values
  PROVE  Elements(Stored(v))
<1>1. v[1] = "int" => v[2] \in Int
  BY CborValues
<1>2. QED
  BY <1>1, IntWritten, ValueWritten DEF Stored

(* Each of the three calls pops the value that lies there, or fails. *)
LEMMA WholeReads ==
  ASSUME NEW src, Len(src) \in Nat, NEW ep, NEW p \in 1 .. Len(src) + 1, NEW x \in Values, NEW r \in WholePops(src, ep, p),
         Stored(x).ok, At(src, p, Stored(x).out), r.ok
  PROVE  ReadAs(r, x, p + Len(Stored(x).out))
<1>int. CASE x[1] = "int"
  <2>1. x = <<"int", x[2]>> /\ x[2] \in Int /\ Stored(x) = IntElements(x[2])
    BY <1>int, CborValues DEF Stored
  <2> DEFINE n == x[2]
             w == IntElements(n)
  <2>2. n \in Int /\ w.ok /\ At(src, p, w.out) /\ x = <<"int", n>>
    BY <2>1
  <2> HIDE DEF n
  <2>3. /\ \A d, pop : PopBody(src, p, d, ep, pop) = Done(<<"int", n>>, p + 1, d)
        /\ PeekType(src, p) \in {"uint", "negint"} /\ Len(w.out) = 1
    <3>0. n \in Int /\ w.ok /\ At(src, p, w.out)
      BY <2>2
    <3>1. ASSUME NEW d, NEW pop
          PROVE  /\ PopBody(src, p, d, ep, pop) = Done(<<"int", n>>, p + 1, d)
                 /\ PeekType(src, p) \in {"uint", "negint"} /\ Len(w.out) = 1
      BY <3>0, IntBody
    <3>2. QED
      BY <3>1
  <2>4. ~PopList(src, p, 0, PopItem(src, ep)).ok /\ ~PopMap(src, p, 0, PopItem(src, ep)).ok
    BY <2>3 DEF PopList, PopMap, Failed
  <2>5. r = PopItem(src, ep)[0][p]
    BY <2>4 DEF WholePops
  <2>6. PICK d, pop : r = LeaveItem(PopBody(src, p, d, ep, pop))
    BY <2>5, TopItem
  <2>7. r = LeaveItem(Done(<<"int", n>>, p + 1, d))
    BY <2>3, <2>6
  <2>8. r.val = <<"int", n>> /\ r.pos = p + 1
    BY <2>7 DEF LeaveItem, Done
  <2>9. QED
    BY <2>1, <2>2, <2>3, <2>8 DEF ReadAs, n
<1>other. SUFFICES ASSUME x[1] # "int", PyObjectElements(x).ok, At(src, p, PyObjectElements(x).out)
                   PROVE  ReadAs(r, x, p + Len(PyObjectElements(x).out))
  BY <1>int DEF Stored
<1> DEFINE pop == PopItem(src, ep)
           inner == Nested[MaxNesting - 1]
           w == PyObjectElements(x)
<1>0. MaxDepth \in Nat /\ MaxNesting \in Nat /\ MaxNesting \in 0 .. MaxNesting /\ 0 \in 0 .. MaxDepth
  BY CborWidths
<1>1. PopsAt(src, pop, 0) /\ AllReadBack(src, pop, 0)
  BY <1>0, ItemsPop, ItemsRead
<1> HIDE DEF pop
<1>2. Nested[MaxNesting][x].ok /\ w = Nested[MaxNesting][x]
  BY <1>other DEF PyObjectElements
<1>3. MaxNesting - 1 \in 0 .. MaxNesting /\ w = ObjectElements(x, inner)
  BY <1>0, <1>2, NestedTop
<1>4. Solid(inner) /\ ReadsBack(src, pop, inner, 0)
  BY <1>1, <1>3, NestedSolid DEF AllReadBack
<1>5. ObjectElements(x, inner).ok /\ At(src, p, ObjectElements(x, inner).out)
  BY <1>3, <1>other
<1>6. CASE r = pop[0][p]
  <2>1. ReadsBack(src, pop, Nested[MaxNesting], 0)
    BY <1>0, <1>1 DEF AllReadBack
  <2>2. r.val = x /\ r.pos = p + Len(Nested[MaxNesting][x].out)
    <3>1. At(src, p, Nested[MaxNesting][x].out) /\ pop[0][p].ok
      BY <1>2, <1>6, <1>other
    <3>2. QED
      BY <1>0, <1>2, <1>6, <2>1, <3>1 DEF ReadsBack
  <2>3. QED
    BY <1>2, <2>2 DEF ReadAs
<1> HIDE DEF inner
<1>7. x[1] = "list" => PeekType(src, p) = "array" /\ (PopList(src, p, 0, pop).ok
        => ReadAs(PopList(src, p, 0, pop), x, p + Len(ObjectElements(x, inner).out)))
  BY <1>0, <1>1, <1>4, <1>5, ListReads
<1>8. x[1] = "dict" => PeekType(src, p) = "map" /\ (PopMap(src, p, 0, pop).ok
        => ReadAs(PopMap(src, p, 0, pop), x, p + Len(ObjectElements(x, inner).out)))
  BY <1>0, <1>1, <1>4, <1>5, MapReads
<1>9. x[1] \notin {"list", "dict"} => PeekType(src, p) \notin {"array", "indef_array", "map", "indef_map"}
  BY <1>4, <1>5, HeadType
<1>10. ~Failed(p, 0, "unexpected").ok
  BY DEF Failed
<1>11. CASE r = PopList(src, p, 0, pop)
  <2>1. PeekType(src, p) \in {"array", "indef_array"}
    BY <1>10, <1>11 DEF PopList
  <2>2. x[1] = "list"
    BY <1>8, <1>9, <2>1
  <2>3. QED
    BY <1>3, <1>7, <1>11, <2>2
<1>12. CASE r = PopMap(src, p, 0, pop)
  <2>1. PeekType(src, p) \in {"map", "indef_map"}
    BY <1>10, <1>12 DEF PopMap
  <2>2. x[1] = "dict"
    BY <1>7, <1>9, <2>1
  <2>3. QED
    BY <1>3, <1>8, <1>12, <2>2
<1>13. QED
  BY <1>6, <1>11, <1>12 DEF WholePops, pop

(* None pops anything at the end. *)
LEMMA WholeEnds ==
  ASSUME NEW src, Len(src) \in Nat, NEW ep, NEW r \in WholePops(src, ep, Len(src) + 1)
  PROVE  ~r.ok
<1>0. MaxDepth \in Nat /\ 0 \in 0 .. MaxDepth
  BY CborWidths
<1>1. AllReadBack(src, PopItem(src, ep), 0)
  BY <1>0, ItemsRead
<1>2. ~PopItem(src, ep)[0][Len(src) + 1].ok
  BY <1>0, <1>1 DEF AllReadBack, NoneAtEnd
<1>3. ~PopList(src, Len(src) + 1, 0, PopItem(src, ep)).ok /\ ~PopMap(src, Len(src) + 1, 0, PopItem(src, ep)).ok
  BY EndFails
<1>4. QED
  BY <1>2, <1>3 DEF WholePops

(* The elements of the values lie in the buffer one after the other: place[i] is
   where those of the first i end. *)
Laid(src, vals, place) ==
    /\ vals \in Seq(Values) /\ place[0] = 1 /\ place[Len(vals)] = Len(src) + 1
    /\ \A i \in 0 .. Len(vals) - 1 :
         /\ place[i] \in 1 .. Len(src) + 1
         /\ Stored(vals[i + 1]).ok /\ At(src, place[i], Stored(vals[i + 1]).out)
         /\ place[i + 1] = place[i] + Len(Stored(vals[i + 1]).out)

ReadOff(src, vals, place, got, pos) ==
    \E m \in 0 .. Len(vals) : got = SubSeq(vals, 1, m) /\ pos = place[m]

CborRead ==
    /\ written # Dirty => \E place : Laid(encoded, written, place)
    /\ decoder.expect # Dirty =>
         \E place : /\ Laid(decoder.src, decoder.expect, place)
                    /\ popped # Dirty => ReadOff(decoder.src, decoder.expect, place, popped, decoder.pos)

(* No values in an empty buffer; nothing popped from the beginning. *)
LEMMA NothingLaid ==
  /\ Laid(<<>>, <<>>, [i \in {0} |-> 1])
  /\ \A src, vals, place : Laid(src, vals, place) => ReadOff(src, vals, place, <<>>, 1)
<1>1. <<>> \in Seq(Values) /\ Len(<<>>) = 0
  OBVIOUS
<1>2. Laid(<<>>, <<>>, [i \in {0} |-> 1])
  BY <1>1 DEF Laid
<1>3. ASSUME NEW src, NEW vals, NEW place, Laid(src, vals, place) PROVE ReadOff(src, vals, place, <<>>, 1)
  <2>1. vals \in Seq(Values) /\ place[0] = 1
    BY <1>3 DEF Laid
  <2>2. SubSeq(vals, 1, 0) = <<>> /\ 0 \in 0 .. Len(vals)
    BY <2>1, PrefixEnds
  <2>3. QED
    BY <2>1, <2>2 DEF ReadOff
<1>4. QED
  BY <1>2, <1>3

(* Elements stay where they are when others follow. *)
LEMMA AtLonger ==
  ASSUME NEW src \in Seq(Element), NEW x \in Seq(Element), NEW p \in 1 .. Len(src) + 1, NEW e \in Seq(Element), At(src, p, e)
  PROVE  At(src \o x, p, e)
<1>1. Len(src \o x) = Len(src) + Len(x) /\ Len(src) \in Nat /\ Len(x) \in Nat /\ Len(e) \in Nat
      /\ \A i \in 1 .. Len(src) : (src \o x)[i] = src[i]
  OBVIOUS
<1>2. p + Len(e) <= Len(src) + 1 /\ \A i \in 1 .. Len(e) : src[p + i - 1] = e[i]
  BY DEF At
<1> DEFINE c == src \o x
<1>3. Len(c) = Len(src) + Len(x) /\ \A i \in 1 .. Len(src) : c[i] = src[i]
  BY <1>1
<1> HIDE DEF c
<1>4. ASSUME NEW i \in 1 .. Len(e) PROVE c[p + i - 1] = e[i]
  <2>1. p + i - 1 \in 1 .. Len(src)
    BY <1>1, <1>2
  <2>2. QED
    BY <1>2, <1>3, <2>1
<1>5. At(c, p, e)
  BY <1>1, <1>2, <1>3, <1>4 DEF At
<1>6. QED
  BY <1>5 DEF c

(* What is appended lies at the end. *)
LEMMA AtEnd ==
  ASSUME NEW src \in Seq(Element), NEW x \in Seq(Element)
  PROVE  At(src \o x, Len(src) + 1, x)
<1>1. Len(src \o x) = Len(src) + Len(x) /\ Len(src) \in Nat /\ Len(x) \in Nat
      /\ \A i \in 1 .. Len(x) : (src \o x)[Len(src) + i] = x[i]
  OBVIOUS
<1>2. \A i \in 1 .. Len(x) : Len(src) + 1 + i - 1 = Len(src) + i
  BY <1>1
<1>3. QED
  BY <1>1, <1>2 DEF At

(* A value that is written lies after the others. *)
LEMMA LaidMore ==
  ASSUME NEW src \in Seq(Element), NEW vals, NEW place, Laid(src, vals, place), NEW v \in Values, Stored(v).ok
  PROVE  \E more : Laid(src \o Stored(v).out, vals \o <<v>>, more)
<1> DEFINE x == Stored(v).out
           n == Len(vals)
           more == [i \in 0 .. n + 1 |-> IF i = n + 1 THEN Len(src) + 1 + Len(x) ELSE place[i]]
           c == src \o x
           w == vals \o <<v>>
<1>1. vals \in Seq(Values) /\ n \in Nat /\ place[0] = 1 /\ place[n] = Len(src) + 1
  BY DEF Laid
<1>2. x \in Seq(Element) /\ Len(x) \in Nat /\ Len(src) \in Nat
  BY StoredWritten DEF Elements
<1>3. w \in Seq(Values) /\ Len(w) = n + 1 /\ w[n + 1] = v /\ \A i \in 1 .. n : w[i] = vals[i]
  BY <1>1
<1>4. Len(c) = Len(src) + Len(x)
  BY <1>2
<1>5. more[n + 1] = Len(src) + 1 + Len(x) /\ \A i \in 0 .. n : more[i] = place[i]
  <2> HIDE DEF x, n
  <2>1. n + 1 \in 0 .. n + 1 /\ \A i \in 0 .. n : i \in 0 .. n + 1 /\ i # n + 1
    BY <1>1
  <2>2. QED
    BY <2>1
<1>6. At(c, Len(src) + 1, x)
  BY <1>2, AtEnd
<1>7. ASSUME NEW i \in 0 .. n - 1
      PROVE  /\ place[i] \in 1 .. Len(src) + 1
             /\ Stored(vals[i + 1]).ok /\ At(c, place[i], Stored(vals[i + 1]).out)
             /\ place[i + 1] = place[i] + Len(Stored(vals[i + 1]).out)
  <2>1. /\ place[i] \in 1 .. Len(src) + 1
        /\ Stored(vals[i + 1]).ok /\ At(src, place[i], Stored(vals[i + 1]).out)
        /\ place[i + 1] = place[i] + Len(Stored(vals[i + 1]).out)
    BY DEF Laid
  <2>2. vals[i + 1] \in Values
    BY <1>1
  <2>3. Stored(vals[i + 1]).out \in Seq(Element)
    BY <2>2, StoredWritten DEF Elements
  <2>4. At(c, place[i], Stored(vals[i + 1]).out)
    <3> DEFINE e == Stored(vals[i + 1]).out
               q == place[i]
    <3>1. e \in Seq(Element) /\ q \in 1 .. Len(src) + 1 /\ At(src, q, e)
      BY <2>1, <2>3
    <3> HIDE DEF e, q, x
    <3>2. At(src \o x, q, e)
      BY <1>2, <3>1, AtLonger
    <3>3. QED
      BY <3>2 DEF e, q
  <2>5. QED
    BY <2>1, <2>4
<1> HIDE DEF more, c, w, x
<1>8. ASSUME NEW i \in 0 .. Len(w) - 1
      PROVE  /\ more[i] \in 1 .. Len(c) + 1
             /\ Stored(w[i + 1]).ok /\ At(c, more[i], Stored(w[i + 1]).out)
             /\ more[i + 1] = more[i] + Len(Stored(w[i + 1]).out)
  <2>1. CASE i = n
    <3>1. more[i] = Len(src) + 1 /\ w[i + 1] = v /\ more[i + 1] = Len(src) + 1 + Len(x)
      BY <1>1, <1>3, <1>5, <2>1
    <3>2. QED
      BY <1>2, <1>4, <1>6, <3>1 DEF x
  <2>2. CASE i # n
    <3>1. i \in 0 .. n - 1 /\ i \in 0 .. n /\ i + 1 \in 0 .. n /\ i + 1 \in 1 .. n
      BY <1>1, <1>3, <2>2
    <3>2. more[i] = place[i] /\ more[i + 1] = place[i + 1] /\ w[i + 1] = vals[i + 1]
      BY <1>3, <1>5, <3>1
    <3>3. place[i] \in 1 .. Len(src) + 1 /\ place[i] \in 1 .. Len(c) + 1
      BY <1>2, <1>4, <1>7, <3>1
    <3>4. QED
      BY <1>7, <3>1, <3>2, <3>3
  <2>3. QED
    BY <2>1, <2>2
<1>9. more[0] = 1 /\ more[Len(w)] = Len(c) + 1
  BY <1>1, <1>2, <1>3, <1>4, <1>5
<1>10. Laid(c, w, more)
  BY <1>3, <1>8, <1>9 DEF Laid
<1>11. QED
  BY <1>10 DEF c, w, x

(* A value that write_data_item writes as it is, is stored. *)
LEMMA ItemStored ==
  ASSUME NEW v \in Values, PyObjectElements(v).ok
  PROVE  PyObjectElements(v) = Stored(v)
<1>0. MaxNesting \in 0 .. MaxNesting /\ (v[1] = "int" => v[2] \in Int)
  BY CborWidths, CborValues
<1>1. PyObjectElements(v) = ObjectElements(v, Nested[MaxNesting - 1])
  BY <1>0, NestedTop DEF PyObjectElements
<1>2. CASE v[1] = "int"
  <2>1. ObjectElements(v, Nested[MaxNesting - 1]) = PylongElements(v[2])
    BY <1>2 DEF ObjectElements
  <2>2. QED
    BY <1>0, <1>1, <1>2, <2>1, SameIntegers DEF Stored
<1>3. QED
  BY <1>2 DEF Stored

(* A call of the encoder keeps track of whole values or is dirty. *)
LEMMA WriteReads ==
  ASSUME CborInv, CborRead, NEW w, NEW value, Write(w, value),
         value = <<>> \/ \E v \in Values : value = <<v>> /\ (w.ok => w = Stored(v))
  PROVE  CborRead'
<1>1. decoder' = decoder /\ popped' = popped /\ encoded' = encoded \o w.out
      /\ written' = IF w.ok /\ value # <<>> /\ written # Dirty THEN written \o value ELSE Dirty
  BY DEF Write
<1>2. written' # Dirty => \E place : Laid(encoded', written', place)
  <2> SUFFICES ASSUME written' # Dirty PROVE \E place : Laid(encoded', written', place)
    OBVIOUS
  <2>1. w.ok /\ value # <<>> /\ written # Dirty /\ written' = written \o value
    BY <1>1
  <2>2. PICK v \in Values : value = <<v>> /\ w = Stored(v)
    BY <2>1
  <2>3. PICK place : Laid(encoded, written, place)
    BY <2>1 DEF CborRead
  <2>4. encoded \in Seq(Element) /\ Stored(v).ok
    BY <2>1, <2>2 DEF CborInv, CborTypeOK
  <2>5. \E more : Laid(encoded \o Stored(v).out, written \o <<v>>, more)
    BY <2>3, <2>4, LaidMore
  <2>6. QED
    BY <1>1, <2>1, <2>2, <2>5
<1>3. QED
  BY <1>1, <1>2 DEF CborRead

(* A call that pops a value pops the next one that was written. *)
LEMMA PopWholeReads ==
  ASSUME CborInv, CborRead, NEW r \in WholePops(decoder.src, decoder.epoch, decoder.pos), PopWhole(r)
  PROVE  CborRead'
<1>1. /\ decoder' = [decoder EXCEPT !.pos = r.pos, !.from = decoder.pos, !.depth = r.depth,
                                 !.error = r.error, !.usable = r.error # "fatal"]
      /\ encoded' = encoded /\ written' = written
      /\ popped' = IF r.ok /\ popped # Dirty THEN Append(popped, r.val) ELSE Dirty
  BY DEF PopWhole, Pop
<1>2. decoder'.src = decoder.src /\ decoder'.expect = decoder.expect /\ decoder'.pos = r.pos
  BY <1>1 DEF CborInv, CborTypeOK
<1>3. written' # Dirty => \E place : Laid(encoded', written', place)
  BY <1>1 DEF CborRead
<1> DEFINE src == decoder.src
           vals == decoder.expect
<1>4. SUFFICES ASSUME vals # Dirty
               PROVE  \E place : /\ Laid(src, vals, place)
                                 /\ popped' # Dirty => ReadOff(src, vals, place, popped', r.pos)
  BY <1>2, <1>3 DEF CborRead
<1>5. PICK place : /\ Laid(src, vals, place)
                   /\ popped # Dirty => ReadOff(src, vals, place, popped, decoder.pos)
  BY <1>4 DEF CborRead
<1>6. SUFFICES ASSUME popped' # Dirty PROVE ReadOff(src, vals, place, popped', r.pos)
  BY <1>5
<1>7. r.ok /\ popped # Dirty /\ popped' = Append(popped, r.val)
  BY <1>1, <1>6
<1>8. PICK m \in 0 .. Len(vals) : popped = SubSeq(vals, 1, m) /\ decoder.pos = place[m]
  BY <1>5, <1>7 DEF ReadOff
<1>9. Len(src) \in Nat /\ decoder.pos \in 1 .. Len(src) + 1 /\ vals \in Seq(Values) /\ Len(vals) \in Nat
  BY <1>5 DEF CborInv, CborTypeOK, Settled, Laid
<1> HIDE DEF src, vals
<1>10. r \in WholePops(src, decoder.epoch, decoder.pos)
  BY DEF src
<1>11. m # Len(vals)
  <2> SUFFICES ASSUME m = Len(vals) PROVE FALSE
    OBVIOUS
  <2>1. decoder.pos = Len(src) + 1
    BY <1>5, <1>8 DEF Laid
  <2>2. QED
    BY <1>7, <1>9, <1>10, <2>1, WholeEnds
<1>12. m \in 0 .. Len(vals) - 1 /\ m + 1 \in 0 .. Len(vals)
  BY <1>9, <1>11
<1> DEFINE x == vals[m + 1]
<1>13. x \in Values /\ Stored(x).ok /\ At(src, decoder.pos, Stored(x).out)
       /\ place[m + 1] = decoder.pos + Len(Stored(x).out)
  BY <1>5, <1>8, <1>9, <1>12 DEF Laid
<1> HIDE DEF x
<1>14. ReadAs(r, x, decoder.pos + Len(Stored(x).out))
  BY <1>7, <1>9, <1>10, <1>13, WholeReads
<1>15. r.val = x /\ r.pos = place[m + 1]
  BY <1>13, <1>14 DEF ReadAs
<1>16. Append(SubSeq(vals, 1, m), x) = SubSeq(vals, 1, m + 1)
  BY <1>9, <1>12, PrefixGrows DEF x
<1>17. popped' = SubSeq(vals, 1, m + 1)
  BY <1>7, <1>8, <1>15, <1>16
<1>18. QED
  BY <1>12, <1>15, <1>17 DEF ReadOff

(* A call that pops a part leaves the values dirty. *)
LEMMA PopPartReads ==
  ASSUME CborInv, CborRead, NEW r, Pop(r), popped' = Dirty
  PROVE  CborRead'
<1>1. decoder' = [decoder EXCEPT !.pos = r.pos, !.from = decoder.pos, !.depth = r.depth,
                                 !.error = r.error, !.usable = r.error # "fatal"]
      /\ encoded' = encoded /\ written' = written
  BY DEF Pop
<1>2. decoder'.src = decoder.src /\ decoder'.expect = decoder.expect
  BY <1>1 DEF CborInv, CborTypeOK
<1>3. QED
  BY <1>1, <1>2 DEF CborRead

(* What is popped is what was written, one case per call. *)
LEMMA ReadStep == CborInv /\ CborRead /\ [CborNext]_cborVars => CborRead'
<1> SUFFICES ASSUME CborInv, CborRead, [CborNext]_cborVars PROVE CborRead'
  OBVIOUS
<1>0. decoder.depth = 0
  BY DEF CborInv, Settled
<1>1. CASE WriteInt
  <2>1. PICK n \in Ints : Write(IntElements(n), <<<<"int", n>>>>)
    BY <1>1 DEF WriteInt
  <2>2. n \in Int /\ <<"int", n>> \in Values
    BY CborValues
  <2>3. IntElements(n) = Stored(<<"int", n>>)
    BY DEF Stored
  <2>4. QED
    BY <2>1, <2>2, <2>3, WriteReads
<1>2. CASE WriteDataItem \/ WriteList \/ WriteDict
  <2>1. ASSUME NEW v \in Values, Write(PyObjectElements(v), <<v>>) PROVE CborRead'
    BY <2>1, ItemStored, WriteReads
  <2>2. ASSUME NEW w, Write(w, <<>>) PROVE CborRead'
    BY <2>2, WriteReads
  <2>3. QED
    BY <1>2, <2>1, <2>2 DEF WriteDataItem, WriteList, WriteDict
<1>3. CASE WriteElement \/ WriteStart \/ WriteEpochTime
  <2>1. PICK w : Write(w, <<>>)
    BY <1>3 DEF WriteElement, WriteStart, WriteEpochTime
  <2>2. QED
    BY <2>1, WriteReads
<1>4. ASSUME NEW epoch \in {"number", "raises"}, DecoderNew(epoch) PROVE CborRead'
  <2>1. decoder' = [src |-> encoded, pos |-> 1, from |-> 1, depth |-> 0, expect |-> written, epoch |-> epoch,
                    error |-> "none", usable |-> TRUE] /\ encoded' = <<>> /\ written' = <<>> /\ popped' = <<>>
    BY <1>4 DEF DecoderNew, NoDecoder
  <2>2. decoder'.src = encoded /\ decoder'.expect = written /\ decoder'.pos = 1
    BY <2>1
  <2>3. \E place : Laid(encoded', written', place)
    BY <2>1, NothingLaid
  <2>4. ASSUME written # Dirty
        PROVE  \E place : Laid(encoded, written, place) /\ ReadOff(encoded, written, place, <<>>, 1)
    <3>1. PICK place : Laid(encoded, written, place)
      BY <2>4 DEF CborRead
    <3>2. QED
      BY <3>1, NothingLaid
  <2>5. QED
    BY <2>1, <2>2, <2>3, <2>4 DEF CborRead
<1>5. CASE PopNextDataItem \/ PopNextList \/ PopNextMap
  <2>1. PICK r \in WholePops(decoder.src, decoder.epoch, decoder.pos) : PopWhole(r)
    BY <1>0, <1>5 DEF PopNextDataItem, PopNextList, PopNextMap, WholePops
  <2>2. QED
    BY <2>1, PopWholeReads
<1>6. CASE PopNextElement \/ ConsumeNextSingleElement \/ ConsumeNextWholeDataItem
  <2>1. PICK r : Pop(r) /\ popped' = Dirty
    BY <1>6, Zenon DEF PopNextElement, ConsumeNextSingleElement, ConsumeNextWholeDataItem
  <2>2. QED
    BY <2>1, PopPartReads
<1>7. CASE ResetSrc
  <2>1. decoder' = [decoder EXCEPT !.usable = FALSE] /\ encoded' = encoded /\ written' = written /\ popped' = popped
    BY <1>7 DEF ResetSrc
  <2>2. decoder'.src = decoder.src /\ decoder'.expect = decoder.expect /\ decoder'.pos = decoder.pos
    BY <2>1 DEF CborInv, CborTypeOK
  <2>3. QED
    BY <2>1, <2>2 DEF CborRead
<1>8. CASE UNCHANGED cborVars
  BY <1>8 DEF cborVars, CborRead
<1>9. CASE EncoderReset
  <2>1. Laid(<<>>, <<>>, [i \in {0} |-> 1])
    BY NothingLaid
  <2>2. \E place : Laid(encoded', written', place)
    BY <1>9, <2>1 DEF EncoderReset
  <2>3. QED
    BY <1>9, <2>2 DEF EncoderReset, CborRead
<1>10. QED
  BY <1>1, <1>2, <1>3, <1>4, <1>5, <1>6, <1>7, <1>8, <1>9 DEF CborNext

(* Initially nothing was written and nothing popped. *)
LEMMA ReadInit == CborInit => CborRead
<1> SUFFICES ASSUME CborInit PROVE CborRead
  OBVIOUS
<1>1. encoded = <<>> /\ written = <<>> /\ popped = <<>> /\ decoder.src = <<>> /\ decoder.expect = <<>> /\ decoder.pos = 1
  BY DEF CborInit, NoDecoder
<1>2. \E place : Laid(<<>>, <<>>, place) /\ ReadOff(<<>>, <<>>, place, <<>>, 1)
  BY NothingLaid
<1>3. QED
  BY <1>1, <1>2 DEF CborRead

(* What write_int and the calls for data items write, the calls of the decoder that pop a whole value read back: value by
   value, in order, for all values, depths and lengths of the buffer and whatever the widths of a long and of a size; not
   so after a data item with the least long on a build that has no room to negate it. *)
THEOREM RoundTripHolds == CborSpec => []CborRoundTrip
<1>1. CborInit => CborInv /\ CborRead
  BY CborInitStep, ReadInit
<1>2. CborInv /\ CborRead /\ [CborNext]_cborVars => CborInv' /\ CborRead'
  BY CborStep, ReadStep
<1>3. CborInv /\ CborRead => CborRoundTrip
  <2> SUFFICES ASSUME CborInv, CborRead, decoder.expect # Dirty, popped # Dirty
               PROVE  IsPrefix(popped, decoder.expect)
    BY DEF CborRoundTrip
  <2> DEFINE vals == decoder.expect
  <2>1. PICK place : Laid(decoder.src, vals, place) /\ ReadOff(decoder.src, vals, place, popped, decoder.pos)
    BY DEF CborRead
  <2> HIDE DEF vals
  <2>2. vals \in Seq(Values) /\ Len(vals) \in Nat
    BY <2>1 DEF Laid
  <2>3. PICK m \in 0 .. Len(vals) : popped = SubSeq(vals, 1, m)
    BY <2>1 DEF ReadOff
  <2>4. popped \in Seq(Values) /\ Len(popped) = m
    BY <2>2, <2>3
  <2>5. SubSeq(popped, 1, Len(popped)) = popped
    BY <2>4, PrefixEnds
  <2>6. QED
    BY <2>3, <2>4, <2>5 DEF IsPrefix, vals
<1>4. QED
  BY <1>1, <1>2, <1>3, PTL DEF CborSpec
=============================================================================
