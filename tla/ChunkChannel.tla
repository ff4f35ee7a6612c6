---------------------------- MODULE ChunkChannel ----------------------------
(***************************************************************************)
(* What get_next_response_chunk() promises, without locks, futures or      *)
(* threads: a channel of messages 1, 2, 3, ...  The i-th read gets message *)
(* i if it is ever sent, and end-of-file if the channel closed before it.  *)
(***************************************************************************)
EXTENDS Naturals

CONSTANTS
    MaxReads,    \* bound: reads
    MaxMessages  \* bound: messages

VARIABLES
    sent,    \* messages sent so far
    closed,  \* nothing more will be sent
    reads,   \* reads issued so far
    out      \* what each read returned: {} while it waits, then {v}

vars == <<sent, closed, reads, out>>

Read == 1 .. MaxReads
Eof == 0

TypeOK ==
    /\ sent \in 0 .. MaxMessages
    /\ closed \in BOOLEAN
    /\ reads \in 0 .. MaxReads
    /\ out \in [Read -> {{}} \union {{v} : v \in 0 .. MaxMessages}]

Init ==
    /\ sent = 0 /\ closed = FALSE /\ reads = 0
    /\ out = [r \in Read |-> {}]

Send ==
    /\ ~closed /\ sent < MaxMessages
    /\ sent' = sent + 1
    /\ UNCHANGED <<closed, reads, out>>

Close ==
    /\ closed' = TRUE
    /\ UNCHANGED <<sent, reads, out>>

(* What read r may return now. *)
Answer(r) ==
    (IF r <= sent THEN {r} ELSE {}) \union (IF r > sent /\ closed THEN {Eof} ELSE {})

(* Issue a read; it may wait or return at once. *)
Issue ==
    /\ reads < MaxReads
    /\ reads' = reads + 1
    /\ \/ UNCHANGED out
       \/ \E v \in Answer(reads + 1) : out' = [out EXCEPT ![reads + 1] = {v}]
    /\ UNCHANGED <<sent, closed>>

(* A waiting read returns; it may also wait for ever. *)
Deliver(r) ==
    /\ r <= reads /\ out[r] = {}
    /\ \E v \in Answer(r) : out' = [out EXCEPT ![r] = {v}]
    /\ UNCHANGED <<sent, closed, reads>>

Next == Send \/ Close \/ Issue \/ \E r \in Read : Deliver(r)

Spec == Init /\ [][Next]_vars
=============================================================================
