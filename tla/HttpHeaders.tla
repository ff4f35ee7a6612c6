----------------------------- MODULE HttpHeaders -----------------------------
(***************************************************************************)
(* HttpHeaders (awscrt/http.py): an ordered multimap with names that       *)
(* compare without case, and the two generators that walk over it while    *)
(* the application goes on changing it.                                    *)
(*                                                                         *)
(* The native collection is external: it keeps the order of insertion, and *)
(* erases or replaces by name.  A header is a pair of name and value; a    *)
(* name is written in one of two cases.  The collection compares names by  *)
(* the case of ASCII letters, the generators by Python's lower(), which    *)
(* knows the case of every letter.                                         *)
(***************************************************************************)
EXTENDS Naturals, Sequences, SequencesExt, Collections

CONSTANTS NoName,     \* no name: the iteration is over every header; no value found
          Names,      \* names that the application uses, in any case
          Lower(_),   \* str.lower()
          AsciiLower(_),  \* a name with its ASCII letters in lower case
          Pairs,      \* the headers that the application adds, as <<name, value>>
          MaxHeaders  \* bound on the headers that are present

ASSUME HeadersAssumption ==
    /\ MaxHeaders \in Nat
    /\ \A p \in Pairs : p[1] \in Names /\ p = <<p[1], p[2]>>

VARIABLES
    headers,  \* the native collection
    walk,     \* the generator that is running
    error     \* what the last call raised

headersVars == <<headers, walk, error>>

(* A generator: the range fixed when it starts, the next index, the name it
   looks for, what it yielded; of its past, the headers present at the start
   and whether some were taken away since. *)
NoWalk == [state |-> "none", count |-> 0, next |-> 1, name |-> NoName, yielded |-> <<>>,
           start |-> <<>>, removed |-> FALSE]

HeadersTypeOK ==
    /\ headers \in Seq(Pairs)
    /\ walk \in [state : {"none", "running", "done", "raised"}, count : Nat, next : Nat,
                 name : Names \cup {NoName}, yielded : Seq(Pairs), start : Seq(Pairs),
                 removed : BOOLEAN]
    /\ error \in {"none", "TypeError", "KeyError", "ValueError", "AwsCrtError"}

HeadersInit == headers = <<>> /\ walk = NoWalk /\ error = "none"

----------------------------------------------------------------------------
(* The native collection *)

SameName(h, name) == AsciiLower(h[1]) = AsciiLower(name)
Without(name) == Select(headers, {h \in ToSet(headers) : ~SameName(h, name)})

RaiseError(e) == error' = e /\ UNCHANGED <<headers, walk>>
Change(new) ==
    /\ headers' = new
    /\ walk' = [walk EXCEPT !.removed = @ \/ ~IsPrefix(headers, new)]
    /\ error' = "none"

----------------------------------------------------------------------------
(* Calls that change the headers *)

HeadersNew == headers' = <<>> /\ walk' = NoWalk /\ error' = "none"

HeadersAdd(name, value) == Len(headers) < MaxHeaders /\ Change(Append(headers, <<name, value>>))

(* A pair of the wrong type raises; the pairs in front of it are in. *)
HeadersAddPairs(good, bad) ==
    /\ Len(headers) + Len(good) <= MaxHeaders
    /\ headers' = headers \o good
    /\ error' = IF bad THEN "TypeError" ELSE "none"
    /\ UNCHANGED walk

HeadersSet(name, value) ==
    Len(Without(name)) < MaxHeaders /\ Change(Append(Without(name), <<name, value>>))

HeadersRemove(name) ==
    IF Without(name) = headers THEN RaiseError("KeyError") ELSE Change(Without(name))

HeadersRemoveValue(name, value) ==
    LET found == {i \in DOMAIN headers : SameName(headers[i], name) /\ headers[i][2] = value}
    IN  IF found = {} THEN RaiseError("ValueError")
        ELSE \E i \in found : (\A j \in found : i <= j) /\ Change(RemoveAt(headers, i))

HeadersClear == Change(<<>>)

----------------------------------------------------------------------------
(* Calls that read them *)

HeadersGet(name) ==
    LET found == Select(headers, {h \in ToSet(headers) : SameName(h, name)})
    IN  IF found = <<>> THEN NoName ELSE Head(found)[2]

Wanted(h, name) == name = NoName \/ Lower(h[1]) = Lower(name)

(* Mutant: the count is read again for each header. *)
CountNow(n) == Len(headers)

HeadersCount(n) == n

(* __iter__ and get_values start: the count is read once. *)
Iterate(name) ==
    /\ walk' = [NoWalk EXCEPT !.state = "running", !.count = Len(headers), !.name = name,
                              !.start = headers]
    /\ error' = "none"
    /\ UNCHANGED headers

(* The next index is looked up in the headers there are by now. *)
NextHeader ==
    /\ walk.state = "running"
    /\ UNCHANGED headers
    /\ \/ /\ walk.next > HeadersCount(walk.count)
          /\ walk' = [walk EXCEPT !.state = "done"]
          /\ error' = "none"
       \/ /\ walk.next <= HeadersCount(walk.count)
          /\ walk.next > Len(headers)
          /\ walk' = [walk EXCEPT !.state = "raised"]
          /\ error' = "AwsCrtError"
       \/ /\ walk.next <= HeadersCount(walk.count)
          /\ walk.next <= Len(headers)
          /\ LET h == headers[walk.next]
             IN  walk' = [walk EXCEPT !.next = @ + 1,
                                      !.yielded = IF Wanted(h, walk.name) THEN Append(@, h) ELSE @]
          /\ error' = "none"

HeadersNext ==
    \/ HeadersNew \/ HeadersClear \/ NextHeader
    \/ \E p \in Pairs : HeadersAdd(p[1], p[2]) \/ HeadersSet(p[1], p[2]) \/ HeadersRemoveValue(p[1], p[2])
    \/ \E good \in BoundedSeq(Pairs, MaxHeaders), bad \in BOOLEAN : HeadersAddPairs(good, bad)
    \/ \E name \in Names : HeadersRemove(name) \/ Iterate(name)
    \/ Iterate(NoName)

HeadersSpec == HeadersInit /\ [][HeadersNext]_headersVars

----------------------------------------------------------------------------
(* str.lower() and the collection tell the same headers by this name. *)
Comparable(name) == \A h \in ToSet(headers) : Wanted(h, name) <=> SameName(h, name)

(* An iteration during which no header was taken away does not raise and
   yields, in their order, exactly the headers it looks for that were there
   when it started: headers added meanwhile stay out.  While the headers are
   still the same, get() returns the first value that get_values() yielded, and
   the default just when it yielded none, in whatever case the name is given,
   unless the two ways of comparing names disagree about a header. *)
IterationIsExact ==
    /\ walk.state = "raised" => walk.removed
    /\ walk.state = "done" /\ ~walk.removed =>
          /\ walk.yielded = Select(walk.start, {h \in ToSet(walk.start) : Wanted(h, walk.name)})
          /\ walk.name # NoName /\ headers = walk.start /\ Comparable(walk.name) =>
                HeadersGet(walk.name) = IF walk.yielded = <<>> THEN NoName ELSE walk.yielded[1][2]
=============================================================================
