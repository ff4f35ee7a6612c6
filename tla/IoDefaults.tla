----------------------------- MODULE IoDefaults -----------------------------
(***************************************************************************)
(* The process-wide defaults of awscrt/io.py (EventLoopGroup,              *)
(* DefaultHostResolver, ClientBootstrap) and the order in which what they  *)
(* made is shut down (source/io.c).  get_or_create_static_default() holds  *)
(* the lock of its class while it calls the same function of the classes it*)
(* depends on, so a thread may hold three locks.  All three functions are  *)
(* public: a thread's outermost call is of any class.                      *)
(***************************************************************************)
EXTENDS Naturals, Sequences, SequencesExt

CONSTANTS
    Thread,
    MaxMade,   \* bound: objects made of one class
    MaxReleases, \* bound: releases of defaults
    Nobody

ASSUME IoAssumption == MaxMade \in Nat /\ MaxReleases \in Nat /\ Nobody \notin Thread

Class == {"group", "resolver", "bootstrap"}

(* Mutant: the default resolver is given the default bootstrap as well, which is
   itself made from the default resolver. *)
DependsBothWays == [c \in Class |->
              CASE c = "group" -> <<>>
                [] c = "resolver" -> <<"group", "bootstrap">>
                [] c = "bootstrap" -> <<"group", "resolver">>]

(* The defaults each constructor is given, in the order they are fetched. *)
Depends == [c \in Class |->
              CASE c = "group" -> <<>>
                [] c = "resolver" -> <<"group">>
                [] c = "bootstrap" -> <<"group", "resolver">>]

Object == Class \X (1 .. MaxMade)
NoObject == <<"none", 0>>

VARIABLES
    lock,      \* owner of the lock of each class
    default,   \* the static default of each class, or NoObject
    frames,    \* each thread's nested calls of get_or_create_static_default()
    result,    \* what the outermost call of each thread returned
    uses,      \* the objects that the binding of an object references
    made,      \* number of objects made of each class
    dropped,   \* number of times a default was released
    ended      \* objects whose native part has shut down

ioVars == <<lock, default, frames, result, uses, made, dropped, ended>>

Frame == [class : Class, got : Seq(Object)]

IoTypeOK ==
    /\ lock \in [Class -> Thread \cup {Nobody}]
    /\ default \in [Class -> Object \cup {NoObject}]
    /\ frames \in [Thread -> Seq(Frame)]
    /\ result \in [Thread -> Object \cup {NoObject}]
    /\ uses \in [Object -> SUBSET Object]
    /\ made \in [Class -> 0 .. MaxMade] /\ dropped \in [Class -> Nat]
    /\ ended \subseteq Object

IoInit ==
    /\ lock = [c \in Class |-> Nobody]
    /\ default = [c \in Class |-> NoObject]
    /\ frames = [t \in Thread |-> <<>>]
    /\ result = [t \in Thread |-> NoObject]
    /\ uses = [x \in Object |-> {}]
    /\ made = [c \in Class |-> 0] /\ dropped = [c \in Class |-> 0]
    /\ ended = {}

Made == {x \in Object : x[2] <= made[x[1]]}
Call(c) == [class |-> c, got |-> <<>>]
Running(t) == frames[t] # <<>>
Top(t) == Last(frames[t])

(* The innermost call holds the lock of its class.  threading.Lock is not
   reentrant: a lock that a call further out holds does not count. *)
Inside(t) ==
    /\ Running(t) /\ lock[Top(t).class] = t
    /\ \A i \in 1 .. Len(frames[t]) - 1 : frames[t][i].class # Top(t).class

GetStaticDefault(t, c) ==
    /\ ~Running(t) /\ result[t] = NoObject
    /\ frames' = [frames EXCEPT ![t] = <<Call(c)>>]
    /\ UNCHANGED <<lock, default, result, uses, made, dropped, ended>>

(* Mutant: the class is entered whoever holds its lock. *)
MayEnterAnyTime(c) == TRUE

MayEnter(c) == lock[c] = Nobody

EnterLock(t) ==
    /\ Running(t) /\ ~Inside(t) /\ MayEnter(Top(t).class)
    /\ lock' = [lock EXCEPT ![Top(t).class] = t]
    /\ UNCHANGED <<default, frames, result, uses, made, dropped, ended>>

(* Mutant: the lock is kept. *)
KeptLock(t) == lock

ReleasedLock(t) == [lock EXCEPT ![Top(t).class] = Nobody]

(* The innermost call returns x and gives its lock back. *)
Return(t, x) ==
    LET rest == Front(frames[t]) IN
    /\ lock' = ReleasedLock(t)
    /\ IF rest = <<>>
       THEN /\ frames' = [frames EXCEPT ![t] = <<>>]
            /\ result' = [result EXCEPT ![t] = x]
       ELSE /\ frames' = [frames EXCEPT ![t] =
                            [rest EXCEPT ![Len(rest)].got = Append(@, x)]]
            /\ UNCHANGED result

Existing(t) ==
    /\ Inside(t) /\ Top(t).got = <<>> /\ default[Top(t).class] # NoObject
    /\ Return(t, default[Top(t).class])
    /\ UNCHANGED <<default, uses, made, dropped, ended>>

(* The arguments of the constructor are fetched one after the other. *)
FetchDependency(t) ==
    LET f == Top(t) IN
    /\ Inside(t) /\ Len(f.got) < Len(Depends[f.class])
    /\ f.got = <<>> => default[f.class] = NoObject
    /\ frames' = [frames EXCEPT ![t] = Append(@, Call(Depends[f.class][Len(f.got) + 1]))]
    /\ UNCHANGED <<lock, default, result, uses, made, dropped, ended>>

Construct(t) ==
    LET f == Top(t)
        n == made[f.class] + 1
    IN  /\ Inside(t) /\ Len(f.got) = Len(Depends[f.class]) /\ n \in 1 .. MaxMade
        /\ f.got = <<>> => default[f.class] = NoObject
        /\ made' = [made EXCEPT ![f.class] = n]
        /\ uses' = [uses EXCEPT ![<<f.class, n>>] = ToSet(f.got)]
        /\ default' = [default EXCEPT ![f.class] = <<f.class, n>>]
        /\ Return(t, <<f.class, n>>)
        /\ UNCHANGED <<dropped, ended>>

(* The constructor raises (the native object or its capsule cannot be made): the
   exception leaves every nested call and each "with" gives its lock back, the
   innermost first.  Nobody can tell the order from one step, since a lock that
   is still held only delays those who wait for it. *)
ConstructFails(t) ==
    /\ Inside(t) /\ Len(Top(t).got) = Len(Depends[Top(t).class])
    /\ Top(t).got = <<>> => default[Top(t).class] = NoObject
    /\ lock' = [c \in Class |-> IF lock[c] = t THEN Nobody ELSE lock[c]]
    /\ frames' = [frames EXCEPT ![t] = <<>>]
    /\ UNCHANGED <<default, result, uses, made, dropped, ended>>

(* The caller lets go of what an outermost call gave it. *)
DropResult(t) ==
    /\ result[t] # NoObject
    /\ result' = [result EXCEPT ![t] = NoObject]
    /\ UNCHANGED <<lock, default, frames, uses, made, dropped, ended>>

(* release_static_default() *)
ReleaseStaticDefault(c) ==
    /\ lock[c] = Nobody /\ default[c] # NoObject
    /\ made[c] < MaxMade /\ FoldFunction(+, 0, dropped) < MaxReleases
    /\ default' = [default EXCEPT ![c] = NoObject]
    /\ dropped' = [dropped EXCEPT ![c] = @ + 1]
    /\ UNCHANGED <<lock, frames, result, uses, made, ended>>

(* Somebody references x: a class, a running call, a caller, or the binding of
   an object. *)
Referenced(x) ==
    \/ x = default[x[1]]
    \/ \E t \in Thread : x = result[t] \/ \E i \in DOMAIN frames[t] : x \in ToSet(frames[t][i].got)
    \/ \E y \in Object : x \in uses[y]

(* The last reference is gone and the asynchronous shutdown has ended: the
   shutdown event is set and the references of the binding are dropped. *)
ShutdownComplete(x) ==
    /\ x \in Made \ ended /\ ~Referenced(x)
    /\ ended' = ended \cup {x}
    /\ uses' = [uses EXCEPT ![x] = {}]
    /\ UNCHANGED <<lock, default, frames, result, made, dropped>>

CreatorStep(t) ==
    \/ EnterLock(t) \/ Existing(t) \/ FetchDependency(t)
    \/ Construct(t) \/ ConstructFails(t)

(* What the classes keep alive: their defaults, and what those are made from. *)
KeptByClasses ==
    LET first == {default[c] : c \in Class} \ {NoObject}
        second == first \cup UNION {uses[x] : x \in first}
    IN  second \cup UNION {uses[x] : x \in second}

(* A class makes a second default only after the first was released, however
   many threads ask for it at the same time. *)
OneDefaultAtATime == \A c \in Class : made[c] <= dropped[c] + 1

(* Whichever of the three classes each thread asks for first, and whether or not
   a constructor raises, the nested locks are taken in the order of the
   dependencies and given back: unless the threads go on asking for ever, in
   which case threading.Lock may starve one of them, every call returns. *)
CallsReturn ==
    <>[][\A t \in Thread : Running(t)' => Running(t)]_frames
        => <>[](\A t \in Thread : ~Running(t))
=============================================================================
