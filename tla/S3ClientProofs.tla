--------------------------- MODULE S3ClientProofs ---------------------------
(***************************************************************************)
(* Proofs about the default objects of awscrt/io.py and the S3 client that *)
(* uses them, for any threads, requests and bounds: type correctness, one  *)
(* default per class at a time, no circular wait for the locks, and the    *)
(* reporting of a request.                                                 *)
(***************************************************************************)
EXTENDS S3Client, SequenceTheorems, TLAPS

(* Bootstraps are built from resolvers and groups, resolvers from groups. *)
Level(c) == IF c = "group" THEN 0 ELSE IF c = "resolver" THEN 1 ELSE 2

(* A call in the middle of making an object: it waits for the call above it, or
   has the first argument already. *)
Making(t, i) == i < Len(frames[t]) \/ frames[t][i].got # <<>>

Depth(t) == 1 .. Len(frames[t])

(* The nested calls of a thread descend in the order of dependencies, and a
   call that is making an object has the lock of its class, which has no
   default meanwhile. *)
Stack(t) ==
    /\ \A i, j \in Depth(t) : i < j => Level(frames[t][j].class) < Level(frames[t][i].class)
    /\ \A i \in Depth(t) : Making(t, i) =>
          lock[frames[t][i].class] = t /\ default[frames[t][i].class] = NoObject

(* A lock that is held is held by a thread with a call of its class. *)
Holder(c) ==
    lock[c] # Nobody => \E i \in Depth(lock[c]) : frames[lock[c]][i].class = c

(* What was made of a class was released again, but for the default there is. *)
Counted(c) == made[c] = dropped[c] + (IF default[c] = NoObject THEN 0 ELSE 1)

IoInv ==
    /\ IoTypeOK
    /\ \A t \in Thread : Stack(t)
    /\ \A c \in Class : Counted(c) /\ Holder(c)

(* The account of one request. *)
Told(r) ==
    /\ reported[r] + pending[r] = moved[r]
    /\ outcome[r] = "none" => future[r] # "done"
    /\ outcome[r] # "none" => request[r] \in {"finished", "ended"}
    /\ outcome[r] # "none" => \/ future[r] = "cancelled"
                              \/ future[r] = "done" /\ (onDone[r] = 1 \/ r \in unknown)
    /\ outcome[r] = "success" => pending[r] = 0

S3Inv == TypeOK /\ IoInv /\ \A r \in Request : Told(r)

-----------------------------------------------------------------------------
(* The static defaults.                                                     *)

(* What an object depends on is of a lower level. *)
LEMMA DependsDown ==
  ASSUME NEW c \in Class, NEW k \in Nat, k < Len(Depends[c])
  PROVE  Depends[c][k + 1] \in Class /\ Level(Depends[c][k + 1]) < Level(c)
<1>1. CASE c = "group"
  <2>1. Depends[c] = <<>>
    BY <1>1 DEF Depends, Class
  <2>2. QED
    BY <2>1
<1>2. CASE c = "resolver"
  <2>1. Depends[c] = <<"group">>
    BY <1>2 DEF Depends, Class
  <2>2. k = 0
    BY <2>1
  <2>3. QED
    BY <1>2, <2>1, <2>2 DEF Class, Level
<1>3. CASE c = "bootstrap"
  <2>1. Depends[c] = <<"group", "resolver">>
    BY <1>3 DEF Depends, Class
  <2>2. k \in {0, 1}
    BY <2>1
  <2>3. QED
    BY <1>3, <2>1, <2>2 DEF Class, Level
<1>4. QED
  BY <1>1, <1>2, <1>3 DEF Class

(* The call on top of a running thread's stack, and the ones below. *)
LEMMA FrameTypes ==
  ASSUME IoTypeOK, NEW t \in Thread
  PROVE  /\ Len(frames[t]) \in Nat /\ frames[t] \in Seq(Frame)
         /\ \A i \in Depth(t) : frames[t][i].class \in Class /\ frames[t][i].got \in Seq(Object)
         /\ Running(t) => Len(frames[t]) \in Depth(t) /\ Top(t) = frames[t][Len(frames[t])]
<1>1. frames[t] \in Seq(Frame) /\ Len(frames[t]) \in Nat
  BY DEF IoTypeOK
<1>2. \A i \in Depth(t) : frames[t][i] \in Frame
  BY <1>1 DEF Depth
<1>3. \A f \in Frame : f.class \in Class /\ f.got \in Seq(Object)
  BY DEF Frame
<1>4. ASSUME Running(t) PROVE Len(frames[t]) \in Depth(t)
  BY <1>1, <1>4, EmptySeq DEF Running, Depth
<1>5. QED
  BY <1>1, <1>2, <1>3, <1>4 DEF Top, Last

(* One thread never waits for, or gives back, the lock of a call below. *)
LEMMA ClassesDistinct ==
  ASSUME NEW t \in Thread, Stack(t), NEW i \in Depth(t), NEW j \in Depth(t), i < j
  PROVE  frames[t][i].class # frames[t][j].class
<1>1. Level(frames[t][j].class) < Level(frames[t][i].class)
  BY DEF Stack
<1>2. \A c : Level(c) \in Nat
  BY DEF Level
<1>3. QED
  BY <1>1, <1>2

(* A call returns: it leaves the stack, and its result is handed to the call
   below it or to the caller. *)
LEMMA ReturnStep ==
  ASSUME IoTypeOK, NEW t \in Thread, NEW x \in Object, Running(t), Return(t, x)
  PROVE  /\ frames' \in [Thread -> Seq(Frame)]
         /\ Len(frames'[t]) = Len(frames[t]) - 1
         /\ \A i \in 1 .. Len(frames[t]) - 1 : frames'[t][i].class = frames[t][i].class
         /\ \A i \in 1 .. Len(frames[t]) - 1 :
               frames'[t][i].got = IF i = Len(frames[t]) - 1 THEN Append(frames[t][i].got, x)
                                                             ELSE frames[t][i].got
         /\ \A u \in Thread \ {t} : frames'[u] = frames[u]
         /\ result' \in {result, [result EXCEPT ![t] = x]}
         /\ lock' = [lock EXCEPT ![Top(t).class] = Nobody]
<1> DEFINE n == Len(frames[t])
<1> DEFINE rest == Front(frames[t])
<1>1. /\ n \in Nat /\ n \in Depth(t) /\ frames[t] \in Seq(Frame) /\ n >= 1
      /\ frames \in [Thread -> Seq(Frame)]
      /\ \A i \in Depth(t) : frames[t][i].class \in Class /\ frames[t][i].got \in Seq(Object)
  BY FrameTypes DEF IoTypeOK, Depth
<1>2. rest = SubSeq(frames[t], 1, n - 1)
  BY DEF Front
<1>3. \A i \in 1 .. n - 1 : frames[t][i] \in Frame
  BY <1>1
<1>4. /\ rest \in Seq(Frame) /\ Len(rest) = n - 1
      /\ \A i \in 1 .. n - 1 : rest[i] = frames[t][i]
  <2> HIDE DEF n, rest
  <2>1. n \in Int /\ n - 1 \in Int
    BY <1>1
  <2>2. rest \in Seq(Frame)
    BY <1>2, <1>3, <2>1, SubSeqProperties
  <2>3. Len(rest) = n - 1
    BY <1>1, <1>2, <1>3, <2>1, SubSeqProperties
  <2>4. \A i \in 1 .. n - 1 : rest[i] = frames[t][i]
    BY <1>1, <1>2, <1>3, <2>1, SubSeqProperties
  <2>5. QED
    BY <2>2, <2>3, <2>4
<1>5. /\ IF rest = <<>>
         THEN frames' = [frames EXCEPT ![t] = <<>>] /\ result' = [result EXCEPT ![t] = x]
         ELSE /\ frames' = [frames EXCEPT ![t] = [rest EXCEPT ![Len(rest)].got = Append(@, x)]]
              /\ result' = result
      /\ lock' = [lock EXCEPT ![Top(t).class] = Nobody]
  BY DEF Return, ReleasedLock
<1> HIDE DEF rest
<1>6. CASE rest = <<>>
  <2>1. n - 1 = 0
    BY <1>4, <1>6
  <2>2. frames' = [frames EXCEPT ![t] = <<>>] /\ result' = [result EXCEPT ![t] = x]
    BY <1>5, <1>6
  <2>3. frames' \in [Thread -> Seq(Frame)] /\ frames'[t] = <<>>
    BY <1>1, <2>2
  <2>4. Len(frames'[t]) = n - 1 /\ 1 .. n - 1 = {}
    <3>1. Len(<<>>) = 0 /\ 1 .. 0 = {}
      OBVIOUS
    <3>2. Len(frames'[t]) = n - 1
      BY <2>1, <2>3, <3>1
    <3>3. QED
      BY <2>1, <3>1, <3>2
  <2>5. \A u \in Thread \ {t} : frames'[u] = frames[u]
    BY <1>1, <2>2
  <2>6. QED
    BY <1>5, <2>2, <2>3, <2>4, <2>5
<1>7. CASE rest # <<>>
  <2>1. n - 1 \in 1 .. n - 1
    BY <1>1, <1>4, <1>7, EmptySeq
  <2>2. rest[n - 1].class \in Class /\ rest[n - 1].got \in Seq(Object) /\ rest[n - 1] \in Frame
    BY <1>1, <1>3, <1>4, <2>1 DEF Depth
  <2> DEFINE g == Append(rest[n - 1].got, x)
  <2> DEFINE f == [rest[n - 1] EXCEPT !.got = g]
  <2> DEFINE new == [rest EXCEPT ![n - 1] = f]
  <2>3. g \in Seq(Object)
    BY <2>2, AppendProperties
  <2>4. f \in Frame /\ f.class = rest[n - 1].class /\ f.got = g
    <3> HIDE DEF g
    <3>1. QED
      BY <2>2, <2>3 DEF Frame
  <2>5. frames' = [frames EXCEPT ![t] = new] /\ result' = result
    BY <1>4, <1>5, <1>7
  <2> HIDE DEF f, g
  <2>6. /\ new \in Seq(Frame) /\ Len(new) = n - 1
        /\ \A i \in 1 .. n - 1 : new[i] = IF i = n - 1 THEN f ELSE rest[i]
    BY <1>4, <2>1, <2>4, ExceptSeq
  <2> HIDE DEF new
  <2>7. frames'[t] = new /\ frames' \in [Thread -> Seq(Frame)]
        /\ \A u \in Thread \ {t} : frames'[u] = frames[u]
    BY <1>1, <2>5, <2>6
  <2>8. \A i \in 1 .. n - 1 : frames'[t][i].class = frames[t][i].class
    BY <1>4, <2>4, <2>6, <2>7
  <2>9. \A i \in 1 .. n - 1 :
           frames'[t][i].got = IF i = n - 1 THEN Append(frames[t][i].got, x) ELSE frames[t][i].got
    BY <1>4, <2>1, <2>4, <2>6, <2>7 DEF g
  <2>10. QED
    BY <1>5, <2>5, <2>6, <2>7, <2>8, <2>9
<1>8. QED
  BY <1>6, <1>7

(* After a return every other call is as protected as it was: the lock that was
   given back, and the default that may have been set, are of a class which no
   call that is making an object has. *)
LEMMA AfterReturn ==
  ASSUME IoInv, NEW t \in Thread, NEW x \in Object, Inside(t), Return(t, x),
         \A c \in Class \ {Top(t).class} : default'[c] = default[c]
  PROVE  (\A u \in Thread : Stack(u)') /\ \A c \in Class : Holder(c)'
<1> DEFINE n == Len(frames[t])
<1> DEFINE top == Top(t).class
<1>0. IoTypeOK /\ Running(t) /\ lock[top] = t /\ \A u \in Thread : Stack(u)
  BY DEF IoInv, Inside
<1>1. /\ n \in Nat /\ n \in Depth(t) /\ top = frames[t][n].class /\ top \in Class
      /\ \A u \in Thread : \A i \in Depth(u) : frames[u][i].class \in Class
  BY <1>0, FrameTypes
<1>2. /\ Len(frames'[t]) = n - 1
      /\ \A i \in 1 .. n - 1 : frames'[t][i].class = frames[t][i].class
      /\ \A u \in Thread \ {t} : frames'[u] = frames[u]
      /\ lock' = [lock EXCEPT ![top] = Nobody]
  BY <1>0, ReturnStep
<1>3. /\ \A c \in Class \ {top} : lock'[c] = lock[c] /\ default'[c] = default[c]
      /\ lock'[top] = Nobody
  BY <1>0, <1>1, <1>2 DEF IoTypeOK
<1> HIDE DEF top, n
<1>4. ASSUME NEW u \in Thread \ {t} PROVE Stack(u)'
  <2>1. frames'[u] = frames[u] /\ Stack(u)
    BY <1>0, <1>2
  <2>2. ASSUME NEW i \in Depth(u), Making(u, i)
        PROVE  lock'[frames[u][i].class] = u /\ default'[frames[u][i].class] = NoObject
    <3>1. lock[frames[u][i].class] = u /\ default[frames[u][i].class] = NoObject
      BY <2>1, <2>2 DEF Stack
    <3>2. frames[u][i].class # top
      BY <1>0, <3>1
    <3>3. QED
      BY <1>1, <1>3, <3>1, <3>2
  <2>3. QED
    BY <2>1, <2>2 DEF Stack, Depth, Making
<1>5. Stack(t)'
  <2>1. ASSUME NEW i \in 1 .. n - 1
        PROVE  lock'[frames'[t][i].class] = t /\ default'[frames'[t][i].class] = NoObject
    <3>1. i \in Depth(t) /\ i < n /\ Making(t, i)
      BY <1>1 DEF Depth, Making, n
    <3>2. /\ lock[frames[t][i].class] = t /\ default[frames[t][i].class] = NoObject
      BY <1>0, <3>1 DEF Stack
    <3>3. frames[t][i].class # top /\ frames[t][i].class \in Class
      BY <1>0, <1>1, <3>1, ClassesDistinct
    <3>4. QED
      BY <1>2, <1>3, <3>2, <3>3
  <2>2. \A i, j \in 1 .. n - 1 : i < j => Level(frames'[t][j].class) < Level(frames'[t][i].class)
    <3>1. \A i \in 1 .. n - 1 : i \in Depth(t) /\ frames'[t][i].class = frames[t][i].class
      BY <1>1, <1>2 DEF Depth, n
    <3>2. \A i, j \in Depth(t) : i < j => Level(frames[t][j].class) < Level(frames[t][i].class)
      BY <1>0 DEF Stack
    <3>3. QED
      BY <3>1, <3>2
  <2>3. QED
    BY <1>2, <2>1, <2>2 DEF Stack, Depth
<1>6. ASSUME NEW c \in Class, lock'[c] # Nobody
      PROVE  \E i \in 1 .. Len(frames'[lock'[c]]) : frames'[lock'[c]][i].class = c
  <2>1. c # top /\ lock'[c] = lock[c] /\ lock[c] \in Thread
    BY <1>0, <1>3, <1>6 DEF IoTypeOK
  <2>2. PICK i \in Depth(lock[c]) : frames[lock[c]][i].class = c
    BY <1>6, <2>1 DEF IoInv, Holder
  <2>3. CASE lock[c] # t
    BY <1>2, <2>1, <2>2, <2>3 DEF Depth
  <2>4. CASE lock[c] = t
    <3>1. i # n /\ i \in 1 .. n - 1
      BY <1>1, <2>1, <2>2, <2>4 DEF Depth, n
    <3>2. QED
      BY <1>2, <2>1, <2>2, <2>4, <3>1
  <2>5. QED
    BY <2>3, <2>4
<1>7. QED
  BY <1>4, <1>5, <1>6 DEF Holder, Depth

(* Types of what a creating call changes. *)
LEMMA CreatorType ==
  ASSUME IoInv, NEW t \in Thread, CreatorStep(t)
  PROVE  IoTypeOK'
<1>0. IoTypeOK
  BY DEF IoInv
<1>1. /\ Len(frames[t]) \in Nat /\ frames[t] \in Seq(Frame)
      /\ Running(t) => Top(t).class \in Class /\ Top(t).got \in Seq(Object)
  BY <1>0, FrameTypes
<1>2. CASE EnterLock(t)
  BY <1>0, <1>1, <1>2 DEF EnterLock, IoTypeOK
<1>3. CASE Existing(t)
  <2>1. Running(t) /\ default[Top(t).class] \in Object
    BY <1>0, <1>1, <1>3 DEF Existing, Inside, IoTypeOK
  <2>2. Return(t, default[Top(t).class]) /\ UNCHANGED <<default, uses, made, dropped, ended>>
    BY <1>3 DEF Existing
  <2>3. /\ frames' \in [Thread -> Seq(Frame)]
        /\ result' \in {result, [result EXCEPT ![t] = default[Top(t).class]]}
        /\ lock' = [lock EXCEPT ![Top(t).class] = Nobody]
    BY <1>0, <2>1, <2>2, ReturnStep
  <2>4. /\ result' \in [Thread -> Object \cup {NoObject}]
        /\ lock' \in [Class -> Thread \cup {Nobody}]
    BY <1>0, <2>1, <2>3 DEF IoTypeOK
  <2>5. QED
    BY <1>0, <2>2, <2>3, <2>4 DEF IoTypeOK
<1>4. CASE FetchDependency(t)
  <2> DEFINE k == Len(Top(t).got)
  <2>1. /\ Running(t) /\ k < Len(Depends[Top(t).class])
        /\ frames' = [frames EXCEPT ![t] = Append(@, Call(Depends[Top(t).class][k + 1]))]
        /\ UNCHANGED <<lock, default, result, uses, made, dropped, ended>>
    BY <1>4 DEF FetchDependency, Inside
  <2>2. k \in Nat
    BY <1>1, <2>1
  <2> HIDE DEF k
  <2>3. Depends[Top(t).class][k + 1] \in Class
    BY <1>1, <2>1, <2>2, DependsDown
  <2>4. Call(Depends[Top(t).class][k + 1]) \in Frame
    BY <2>3, EmptySeq DEF Call, Frame
  <2>5. frames' \in [Thread -> Seq(Frame)]
    BY <1>0, <1>1, <2>1, <2>4, AppendProperties DEF IoTypeOK
  <2>6. QED
    BY <1>0, <2>1, <2>5 DEF IoTypeOK
<1>5. CASE Construct(t)
  <2> DEFINE c == Top(t).class
  <2> DEFINE x == <<c, made[c] + 1>>
  <2>1. /\ Running(t) /\ made[c] + 1 \in 1 .. MaxMade
        /\ made' = [made EXCEPT ![c] = made[c] + 1]
        /\ uses' = [uses EXCEPT ![x] = ToSet(Top(t).got)]
        /\ default' = [default EXCEPT ![c] = x]
        /\ Return(t, x) /\ UNCHANGED <<dropped, ended>>
    BY <1>5 DEF Construct, Inside
  <2>2. c \in Class /\ x \in Object
    BY <1>1, <2>1 DEF Object
  <2>3. ToSet(Top(t).got) \in SUBSET Object
    BY <1>1, <2>1 DEF ToSet
  <2> HIDE DEF x, c
  <2>4. /\ frames' \in [Thread -> Seq(Frame)] /\ result' \in {result, [result EXCEPT ![t] = x]}
        /\ lock' = [lock EXCEPT ![Top(t).class] = Nobody]
    BY <1>0, <2>1, <2>2, ReturnStep
  <2>5. /\ result' \in [Thread -> Object \cup {NoObject}]
        /\ lock' \in [Class -> Thread \cup {Nobody}]
    BY <1>0, <2>2, <2>4 DEF IoTypeOK
  <2>6. /\ made' \in [Class -> 0 .. MaxMade]
        /\ default' \in [Class -> Object \cup {NoObject}]
    BY <1>0, <2>1, <2>2, IoAssumption DEF IoTypeOK
  <2>7. uses' \in [Object -> SUBSET Object]
    BY <1>0, <2>1, <2>2, <2>3 DEF IoTypeOK
  <2>8. QED
    BY <1>0, <2>1, <2>4, <2>5, <2>6, <2>7 DEF IoTypeOK
<1>6. CASE ConstructFails(t)
  <2>1. /\ lock' = [c \in Class |-> IF lock[c] = t THEN Nobody ELSE lock[c]]
        /\ frames' = [frames EXCEPT ![t] = <<>>]
        /\ UNCHANGED <<default, result, uses, made, dropped, ended>>
    BY <1>6 DEF ConstructFails
  <2>2. lock' \in [Class -> Thread \cup {Nobody}] /\ frames' \in [Thread -> Seq(Frame)]
    BY <1>0, <2>1, EmptySeq DEF IoTypeOK
  <2>3. QED
    BY <1>0, <2>1, <2>2 DEF IoTypeOK
<1>7. QED
  BY <1>2, <1>3, <1>4, <1>5, <1>6 DEF CreatorStep

(* The steps of a call: enter the lock, return what is there, fetch what the
   constructor needs, construct or fail. *)
LEMMA CreatorKeeps ==
  ASSUME IoInv, NEW t \in Thread, CreatorStep(t)
  PROVE  IoInv'
<1>0. IoTypeOK /\ (\A u \in Thread : Stack(u)) /\ \A c \in Class : Counted(c) /\ Holder(c)
  BY DEF IoInv
<1>t. IoTypeOK'
  BY CreatorType
<1>f. \A u \in Thread :
         /\ Len(frames[u]) \in Nat /\ frames[u] \in Seq(Frame)
         /\ \A i \in Depth(u) : frames[u][i].class \in Class /\ frames[u][i].got \in Seq(Object)
         /\ Running(u) => Len(frames[u]) \in Depth(u) /\ Top(u) = frames[u][Len(frames[u])]
  BY <1>0, FrameTypes
<1>n. \A u \in Thread : u # Nobody
  BY IoAssumption
<1>1. CASE EnterLock(t)
  <2>1. /\ Running(t) /\ lock[Top(t).class] = Nobody /\ Top(t).class \in Class
        /\ lock' = [lock EXCEPT ![Top(t).class] = t]
        /\ UNCHANGED <<default, frames, result, uses, made, dropped, ended>>
    BY <1>1, <1>f DEF EnterLock, MayEnter
  <2>2. /\ \A c \in Class : lock[c] # Nobody => lock'[c] = lock[c]
        /\ \A c \in Class : c # Top(t).class => lock'[c] = lock[c]
        /\ lock'[Top(t).class] = t
    BY <1>0, <2>1 DEF IoTypeOK
  <2>3. ASSUME NEW u \in Thread PROVE Stack(u)'
    BY <1>0, <1>f, <1>n, <2>1, <2>2 DEF Stack, Depth, Making
  <2>4. ASSUME NEW c \in Class PROVE Counted(c)'
    BY <1>0, <2>1 DEF Counted
  <2>5. ASSUME NEW c \in Class PROVE Holder(c)'
    <3>1. CASE c = Top(t).class
      BY <1>f, <2>1, <2>2, <3>1 DEF Holder, Depth
    <3>2. CASE c # Top(t).class
      BY <1>0, <2>1, <2>2, <3>2 DEF Holder, Depth
    <3>3. QED
      BY <3>1, <3>2
  <2>6. QED
    BY <1>t, <2>3, <2>4, <2>5 DEF IoInv
<1>2. CASE Existing(t)
  <2>1. /\ Inside(t) /\ Running(t) /\ default[Top(t).class] # NoObject /\ Top(t).class \in Class
        /\ Return(t, default[Top(t).class])
        /\ UNCHANGED <<default, uses, made, dropped, ended>>
    BY <1>2, <1>f DEF Existing, Inside
  <2>2. default[Top(t).class] \in Object
    BY <1>0, <2>1 DEF IoTypeOK
  <2>3. (\A u \in Thread : Stack(u)') /\ \A c \in Class : Holder(c)'
    BY <2>1, <2>2, AfterReturn
  <2>4. ASSUME NEW c \in Class PROVE Counted(c)'
    BY <1>0, <2>1 DEF Counted
  <2>5. QED
    BY <1>t, <2>3, <2>4 DEF IoInv
<1>3. CASE FetchDependency(t)
  <2> DEFINE n == Len(frames[t])
  <2> DEFINE k == Len(frames[t][n].got)
  <2> DEFINE d == Depends[frames[t][n].class][k + 1]
  <2>1. /\ n \in Nat /\ n \in Depth(t) /\ Top(t) = frames[t][n] /\ frames[t] \in Seq(Frame)
        /\ frames[t][n].class \in Class /\ frames[t][n].got \in Seq(Object)
    BY <1>3, <1>f DEF FetchDependency, Inside
  <2>2. /\ lock[frames[t][n].class] = t /\ k < Len(Depends[frames[t][n].class])
        /\ frames[t][n].got = <<>> => default[frames[t][n].class] = NoObject
        /\ frames' = [frames EXCEPT ![t] = Append(frames[t], Call(d))]
        /\ UNCHANGED <<lock, default, result, uses, made, dropped, ended>>
    BY <1>3, <2>1 DEF FetchDependency, Inside
  <2>3. k \in Nat
    BY <2>1
  <2>4. d \in Class /\ Level(d) < Level(frames[t][n].class)
    BY <2>1, <2>2, <2>3, DependsDown
  <2> HIDE DEF d, k
  <2>5. Call(d).class = d /\ Call(d).got = <<>> /\ Call(d) \in Frame
    BY <2>4, EmptySeq DEF Call, Frame
  <2>6. /\ frames'[t] = Append(frames[t], Call(d)) /\ Len(frames'[t]) = n + 1
        /\ \A i \in 1 .. n : frames'[t][i] = frames[t][i]
        /\ frames'[t][n + 1] = Call(d)
        /\ \A u \in Thread \ {t} : frames'[u] = frames[u]
    BY <1>0, <2>1, <2>2, <2>5, AppendProperties DEF IoTypeOK
  <2>7. default[frames[t][n].class] = NoObject
    BY <1>0, <2>1, <2>2 DEF Stack, Making
  <2> HIDE DEF n
  <2>8. Stack(t)'
    <3>1. \A i \in 1 .. n : i \in Depth(t) /\ Level(frames[t][i].class) \in Nat
      BY <2>1 DEF Depth, n, Level
    <3>2. \A i \in 1 .. n : i # n => Level(frames[t][n].class) < Level(frames[t][i].class)
      BY <1>0, <2>1, <3>1 DEF Stack
    <3>3. \A i \in 1 .. n : Level(d) < Level(frames[t][i].class)
      BY <2>1, <2>4, <3>1, <3>2 DEF Level
    <3>4. \A i, j \in 1 .. n + 1 : i < j => Level(frames'[t][j].class) < Level(frames'[t][i].class)
      <4>1. ASSUME NEW i \in 1 .. n + 1, NEW j \in 1 .. n, i < j
            PROVE  Level(frames'[t][j].class) < Level(frames'[t][i].class)
        BY <1>0, <2>1, <2>6, <3>1, <4>1 DEF Stack
      <4>2. ASSUME NEW i \in 1 .. n PROVE Level(frames'[t][n + 1].class) < Level(frames'[t][i].class)
        BY <2>5, <2>6, <3>3
      <4>3. QED
        BY <2>1, <4>1, <4>2
    <3>5. ASSUME NEW i \in 1 .. n + 1, i < n + 1 \/ frames'[t][i].got # <<>>
          PROVE  lock'[frames'[t][i].class] = t /\ default'[frames'[t][i].class] = NoObject
      <4>1. i \in 1 .. n
        BY <2>1, <2>5, <2>6, <3>5
      <4>2. CASE i = n
        BY <2>2, <2>6, <2>7, <4>1, <4>2
      <4>3. CASE i < n
        BY <1>0, <2>2, <2>6, <3>1, <4>1, <4>3 DEF Stack, Making, n
      <4>4. QED
        BY <2>1, <4>1, <4>2, <4>3
    <3>6. QED
      BY <2>6, <3>4, <3>5 DEF Stack, Depth, Making
  <2>9. ASSUME NEW u \in Thread \ {t} PROVE Stack(u)'
    BY <1>0, <2>2, <2>6 DEF Stack, Depth, Making
  <2>10. ASSUME NEW c \in Class PROVE Counted(c)'
    BY <1>0, <2>2 DEF Counted
  <2>11. ASSUME NEW c \in Class, lock'[c] # Nobody
         PROVE  \E i \in 1 .. Len(frames'[lock'[c]]) : frames'[lock'[c]][i].class = c
    <3>1. lock'[c] = lock[c] /\ lock[c] \in Thread
      BY <1>0, <2>2, <2>11 DEF IoTypeOK
    <3>2. PICK i \in Depth(lock[c]) : frames[lock[c]][i].class = c
      BY <1>0, <2>11, <3>1 DEF Holder
    <3>3. CASE lock[c] # t
      BY <2>6, <3>1, <3>2, <3>3 DEF Depth
    <3>4. CASE lock[c] = t
      <4>1. i \in 1 .. n /\ i \in 1 .. n + 1
        BY <2>1, <3>2, <3>4 DEF Depth, n
      <4>2. QED
        BY <2>6, <3>1, <3>2, <3>4, <4>1
    <3>5. QED
      BY <3>3, <3>4
  <2>12. QED
    BY <1>t, <2>8, <2>9, <2>10, <2>11 DEF IoInv, Holder, Depth
<1>4. CASE Construct(t)
  <2> DEFINE c == Top(t).class
  <2> DEFINE x == <<c, made[c] + 1>>
  <2>1. /\ Running(t) /\ Inside(t) /\ made[c] + 1 \in 1 .. MaxMade
        /\ made' = [made EXCEPT ![c] = made[c] + 1]
        /\ default' = [default EXCEPT ![c] = x]
        /\ Return(t, x) /\ UNCHANGED <<dropped, ended>>
        /\ Top(t).got = <<>> => default[c] = NoObject
    BY <1>4 DEF Construct, Inside
  <2>2. c \in Class /\ x \in Object /\ x # NoObject /\ made[c] \in Nat
    <3>0. c \in Class
      BY <1>f, <2>1
    <3>1. c \in Class /\ made[c] \in Nat
      BY <1>0, <3>0, IoAssumption DEF IoTypeOK
    <3>2. x \in Object
      BY <2>1, <3>1 DEF Object
    <3>3. x[1] = c /\ NoObject[1] = "none" /\ c # "none"
      BY <3>1 DEF NoObject, Class
    <3>4. QED
      BY <3>1, <3>2, <3>3
  <2>3. default[c] = NoObject
    BY <1>0, <1>f, <2>1 DEF Stack, Making
  <2> HIDE DEF x
  <2>4. (\A u \in Thread : Stack(u)') /\ \A b \in Class : Holder(b)'
    <3>1. \A b \in Class \ {Top(t).class} : default'[b] = default[b]
      BY <1>0, <2>1 DEF IoTypeOK
    <3>2. QED
      BY <2>1, <2>2, <3>1, AfterReturn
  <2>5. ASSUME NEW b \in Class PROVE Counted(b)'
    <3>1. CASE b = c
      <4>1. made'[c] = made[c] + 1 /\ default'[c] = x /\ made[c] = dropped[c]
        BY <1>0, <2>1, <2>2, <2>3 DEF IoTypeOK, Counted
      <4>2. QED
        BY <2>1, <2>2, <3>1, <4>1 DEF Counted
    <3>2. CASE b # c
      BY <1>0, <2>1, <3>2 DEF IoTypeOK, Counted
    <3>3. QED
      BY <3>1, <3>2
  <2>6. QED
    BY <1>t, <2>4, <2>5 DEF IoInv
<1>5. CASE ConstructFails(t)
  <2>1. /\ lock' = [c \in Class |-> IF lock[c] = t THEN Nobody ELSE lock[c]]
        /\ frames' = [frames EXCEPT ![t] = <<>>]
        /\ UNCHANGED <<default, result, uses, made, dropped, ended>>
    BY <1>5 DEF ConstructFails
  <2>2. /\ frames'[t] = <<>> /\ \A u \in Thread \ {t} : frames'[u] = frames[u]
        /\ \A c \in Class : lock[c] # t => lock'[c] = lock[c]
        /\ \A c \in Class : lock[c] = t => lock'[c] = Nobody
    BY <1>0, <2>1 DEF IoTypeOK
  <2>3. Stack(t)'
    <3>1. 1 .. Len(frames'[t]) = {}
      BY <2>2
    <3>2. QED
      BY <3>1 DEF Stack, Depth
  <2>4. ASSUME NEW u \in Thread \ {t} PROVE Stack(u)'
    BY <1>0, <1>f, <2>1, <2>2 DEF Stack, Depth, Making
  <2>5. ASSUME NEW c \in Class PROVE Counted(c)'
    BY <1>0, <2>1 DEF Counted
  <2>6. ASSUME NEW c \in Class, lock'[c] # Nobody
        PROVE  \E i \in 1 .. Len(frames'[lock'[c]]) : frames'[lock'[c]][i].class = c
    <3>1. lock[c] # t /\ lock'[c] = lock[c] /\ lock[c] \in Thread
      BY <1>0, <2>2, <2>6 DEF IoTypeOK
    <3>2. QED
      BY <1>0, <2>2, <2>6, <3>1 DEF Holder, Depth
  <2>7. QED
    BY <1>t, <2>3, <2>4, <2>5, <2>6 DEF IoInv, Holder, Depth
<1>6. QED
  BY <1>1, <1>2, <1>3, <1>4, <1>5 DEF CreatorStep

(* A call begins. *)
LEMMA CallBegins ==
  ASSUME IoInv, NEW t \in Thread, NEW b \in Class, GetStaticDefault(t, b)
  PROVE  IoInv'
<1>0. IoTypeOK /\ (\A u \in Thread : Stack(u)) /\ \A c \in Class : Counted(c) /\ Holder(c)
  BY DEF IoInv
<1>1. /\ ~Running(t) /\ frames' = [frames EXCEPT ![t] = <<Call(b)>>]
      /\ UNCHANGED <<lock, default, result, uses, made, dropped, ended>>
  BY DEF GetStaticDefault
<1>2. Call(b) \in Frame /\ Call(b).got = <<>>
  BY EmptySeq DEF Call, Frame
<1>3. /\ frames'[t] = <<Call(b)>> /\ Len(frames'[t]) = 1
      /\ frames'[t][1] = Call(b)
      /\ \A u \in Thread \ {t} : frames'[u] = frames[u]
  BY <1>0, <1>1 DEF IoTypeOK
<1>4. IoTypeOK'
  <2>1. <<Call(b)>> \in Seq(Frame)
    BY <1>2
  <2>2. frames' \in [Thread -> Seq(Frame)]
    BY <1>0, <1>1, <2>1 DEF IoTypeOK
  <2>3. QED
    BY <1>0, <1>1, <2>2 DEF IoTypeOK
<1>5. Stack(t)'
  <2>1. \A i \in 1 .. 1 : i = 1 /\ frames'[t][i].got = <<>>
    BY <1>2, <1>3
  <2>2. QED
    BY <1>3, <2>1 DEF Stack, Depth, Making
<1>6. ASSUME NEW u \in Thread \ {t} PROVE Stack(u)'
  BY <1>0, <1>1, <1>3 DEF Stack, Depth, Making
<1>7. ASSUME NEW c \in Class PROVE Counted(c)' /\ Holder(c)'
  <2>1. Depth(t) = {}
    BY <1>1 DEF Depth, Running
  <2>2. lock[c] # t
    BY <1>0, <2>1, IoAssumption DEF Holder
  <2>3. lock[c] \in Thread \cup {Nobody}
    BY <1>0 DEF IoTypeOK
  <2>4. QED
    BY <1>0, <1>1, <1>3, <2>2, <2>3 DEF Counted, Holder, Depth
<1>8. QED
  BY <1>4, <1>5, <1>6, <1>7 DEF IoInv

(* release_static_default() *)
LEMMA ReleaseKeeps ==
  ASSUME IoInv, NEW c \in Class, ReleaseStaticDefault(c)
  PROVE  IoInv'
<1>0. IoTypeOK /\ (\A u \in Thread : Stack(u)) /\ \A b \in Class : Counted(b) /\ Holder(b)
  BY DEF IoInv
<1>1. /\ default[c] # NoObject /\ default' = [default EXCEPT ![c] = NoObject]
      /\ dropped' = [dropped EXCEPT ![c] = @ + 1]
      /\ UNCHANGED <<lock, frames, result, uses, made, ended>>
  BY DEF ReleaseStaticDefault
<1>2. IoTypeOK'
  BY <1>0, <1>1 DEF IoTypeOK
<1>3. ASSUME NEW u \in Thread PROVE Stack(u)'
  <2>1. \A i \in Depth(u) : frames[u][i].class \in Class
    BY <1>0, FrameTypes
  <2>2. \A b \in Class : default[b] = NoObject => default'[b] = NoObject
    BY <1>0, <1>1 DEF IoTypeOK
  <2>3. QED
    BY <1>0, <1>1, <2>1, <2>2 DEF Stack, Depth, Making
<1>4. ASSUME NEW b \in Class PROVE Counted(b)'
  <2>1. Counted(b) /\ made[b] \in Nat /\ dropped[b] \in Nat
    BY <1>0, IoAssumption DEF IoTypeOK
  <2>2. CASE b = c
    BY <1>0, <1>1, <2>1, <2>2 DEF Counted, IoTypeOK
  <2>3. CASE b # c
    BY <1>0, <1>1, <2>1, <2>3 DEF Counted, IoTypeOK
  <2>4. QED
    BY <2>2, <2>3
<1>5. ASSUME NEW b \in Class PROVE Holder(b)'
  BY <1>0, <1>1 DEF Holder, Depth
<1>6. QED
  BY <1>2, <1>3, <1>4, <1>5 DEF IoInv

(* Steps that leave locks, calls and defaults alone: a shutdown, a result that
   is dropped or given to a client, and the steps of clients and requests. *)
LEMMA IoUnchanged ==
  ASSUME IoInv, IoTypeOK', UNCHANGED <<lock, default, frames, made, dropped>>
  PROVE  IoInv'
<1>1. ASSUME NEW u \in Thread PROVE Stack(u)'
  BY DEF IoInv, Stack, Depth, Making
<1>2. ASSUME NEW c \in Class PROVE Counted(c)' /\ Holder(c)'
  BY DEF IoInv, Counted, Holder, Depth
<1>3. QED
  BY <1>1, <1>2 DEF IoInv

-----------------------------------------------------------------------------
(* The S3 client.                                                           *)

(* The variables of S3Client, apart from those of the defaults. *)
S3TypeOK ==
    /\ client \in [Thread -> {"none", "live", "released", "ended"}]
    /\ bootstrap \in [Thread -> Object \cup {NoObject}]
    /\ request \in [Request -> {"none", "running", "failing", "finished", "ended"}]
    /\ held \in [Request -> BOOLEAN] /\ raised \in [Request -> BOOLEAN]
    /\ owner \in [Request -> Thread \cup {Nobody}]
    /\ future \in [Request -> {"pending", "done", "cancelled"}]
    /\ outcome \in [Request -> {"none", "success", "exception", "error"}]
    /\ onDone \in [Request -> 0 .. 1]
    /\ moved \in [Request -> Nat] /\ pending \in [Request -> Nat] /\ reported \in [Request -> Nat]
    /\ unknown \subseteq Request

(* TypeOK, taken apart. *)
LEMMA TypeParts == TypeOK <=> IoTypeOK /\ S3TypeOK
  BY DEF TypeOK, S3TypeOK

(* S3Inv without what the defaults contribute. *)
S3Parts == S3TypeOK /\ \A r \in Request : Told(r)

(* Steps of the defaults leave clients and requests alone. *)
LEMMA DefaultsKeep ==
  ASSUME S3Parts, UNCHANGED s3Vars
  PROVE  S3Parts'
<1>1. S3TypeOK'
  BY DEF S3Parts, S3TypeOK, s3Vars
<1>2. ASSUME NEW r \in Request PROVE Told(r)'
  BY DEF S3Parts, Told, s3Vars
<1>3. QED
  BY <1>1, <1>2 DEF S3Parts

(* Clients are made, dropped and shut down. *)
LEMMA ClientKeeps ==
  ASSUME IoTypeOK, S3Parts, NEW t \in Thread, NewClient(t) \/ DropClient(t) \/ ClientShutdown(t)
  PROVE  S3Parts'
<1>1. UNCHANGED requestVars
  BY DEF NewClient, DropClient, ClientShutdown
<1>2. ASSUME NEW r \in Request PROVE Told(r)'
  BY <1>1 DEF S3Parts, Told, requestVars
<1>3. client' \in [Thread -> {"none", "live", "released", "ended"}]
  BY DEF NewClient, DropClient, ClientShutdown, S3Parts, S3TypeOK
<1>4. bootstrap' \in [Thread -> Object \cup {NoObject}]
  BY DEF NewClient, DropClient, ClientShutdown, CoreDropped, S3Parts, S3TypeOK, IoTypeOK
<1>5. S3TypeOK'
  BY <1>1, <1>3, <1>4 DEF S3Parts, S3TypeOK, requestVars
<1>6. QED
  BY <1>2, <1>5 DEF S3Parts

(* A request is made. *)
LEMMA RequestMade ==
  ASSUME S3Parts, NEW t \in Thread, NEW q \in Request, MakeRequest(t, q)
  PROVE  S3Parts'
<1>0. S3TypeOK /\ \A r \in Request : Told(r)
  BY DEF S3Parts
<1>1. /\ client[t] = "live" /\ request[q] = "none"
      /\ \/ /\ request' = [request EXCEPT ![q] = "running"]
            /\ owner' = [owner EXCEPT ![q] = t] /\ held' = [held EXCEPT ![q] = TRUE]
         \/ request' = [request EXCEPT ![q] = "ended"] /\ UNCHANGED <<owner, held>>
      /\ UNCHANGED <<client, bootstrap, future, onDone, raised, outcome, moved, pending, reported,
                     unknown>>
  BY DEF MakeRequest, StartRequest
<1>2. S3TypeOK'
  <2>1. request' \in [Request -> {"none", "running", "failing", "finished", "ended"}]
    BY <1>0, <1>1 DEF S3TypeOK
  <2>2. owner' \in [Request -> Thread \cup {Nobody}]
    BY <1>0, <1>1 DEF S3TypeOK
  <2>3. held' \in [Request -> BOOLEAN]
    BY <1>0, <1>1 DEF S3TypeOK
  <2>4. QED
    BY <1>0, <1>1, <2>1, <2>2, <2>3 DEF S3TypeOK
<1>3. ASSUME NEW r \in Request PROVE Told(r)'
  BY <1>0, <1>1 DEF Told, S3TypeOK
<1>4. QED
  BY <1>2, <1>3 DEF S3Parts

(* What happens to a request, apart from its end. *)
LEMMA RequestKeeps ==
  ASSUME S3Parts, NEW q \in Request,
         \/ CallbackRaises(q) \/ CancelRequest(q) \/ CancelFuture(q) \/ DropRequest(q)
         \/ RequestShutdown(q) \/ \E b \in BOOLEAN : OnProgress(q, b)
  PROVE  S3Parts'
<1>0. S3TypeOK /\ \A r \in Request : Told(r)
  BY DEF S3Parts
<1>1. UNCHANGED <<client, bootstrap, owner, outcome, onDone, unknown>>
  BY DEF CallbackRaises, CancelRequest, CancelFuture, DropRequest, RequestShutdown, OnProgress
<1>2. CASE CallbackRaises(q) \/ CancelRequest(q)
  <2>1. /\ request[q] = "running" /\ request' = [request EXCEPT ![q] = "failing"]
        /\ raised' \in {raised, [raised EXCEPT ![q] = TRUE]}
        /\ UNCHANGED <<held, future, moved, pending, reported>>
    BY <1>2 DEF CallbackRaises, CancelRequest
  <2>2. S3TypeOK'
    BY <1>0, <1>1, <2>1 DEF S3TypeOK
  <2>3. ASSUME NEW r \in Request PROVE Told(r)'
    BY <1>0, <1>1, <2>1 DEF Told, S3TypeOK
  <2>4. QED
    BY <2>2, <2>3 DEF S3Parts
<1>3. CASE CancelFuture(q)
  <2>1. /\ future[q] = "pending" /\ future' = [future EXCEPT ![q] = "cancelled"]
        /\ UNCHANGED <<request, held, raised, moved, pending, reported>>
    BY <1>3 DEF CancelFuture
  <2>2. S3TypeOK'
    BY <1>0, <1>1, <2>1 DEF S3TypeOK
  <2>3. ASSUME NEW r \in Request PROVE Told(r)'
    BY <1>0, <1>1, <2>1 DEF Told, S3TypeOK
  <2>4. QED
    BY <2>2, <2>3 DEF S3Parts
<1>4. CASE DropRequest(q) \/ RequestShutdown(q)
  <2>1. /\ held' \in {held, [held EXCEPT ![q] = FALSE]}
        /\ \/ request' = request
           \/ request[q] = "finished" /\ request' = [request EXCEPT ![q] = "ended"]
        /\ UNCHANGED <<future, raised, moved, pending, reported>>
    BY <1>4 DEF DropRequest, RequestShutdown
  <2>2. S3TypeOK'
    BY <1>0, <1>1, <2>1 DEF S3TypeOK
  <2>3. ASSUME NEW r \in Request PROVE Told(r)'
    BY <1>0, <1>1, <2>1 DEF Told, S3TypeOK
  <2>4. QED
    BY <2>2, <2>3 DEF S3Parts
<1>5. ASSUME NEW b \in BOOLEAN, OnProgress(q, b) PROVE S3Parts'
  <2>1. /\ request[q] = "running" /\ moved' = [moved EXCEPT ![q] = @ + 1]
        /\ reported' = [reported EXCEPT ![q] = IF b THEN @ + pending[q] + 1 ELSE @]
        /\ pending' = [pending EXCEPT ![q] = IF b THEN 0 ELSE @ + 1]
        /\ UNCHANGED <<request, held, future, raised>>
    BY <1>5 DEF OnProgress, ResetRecorded
  <2>2. S3TypeOK'
    BY <1>0, <1>1, <2>1 DEF S3TypeOK
  <2>3. ASSUME NEW r \in Request PROVE Told(r)'
    BY <1>0, <1>1, <2>1 DEF Told, S3TypeOK
  <2>4. QED
    BY <2>2, <2>3 DEF S3Parts
<1>6. QED
  BY <1>2, <1>3, <1>4, <1>5

(* on_finish settles the account. *)
LEMMA FinishKeeps ==
  ASSUME S3Parts, NEW q \in Request, NEW ok \in BOOLEAN, NEW known \in BOOLEAN,
         OnFinish(q, ok, known)
  PROVE  S3Parts'
<1>0. S3TypeOK /\ \A r \in Request : Told(r)
  BY DEF S3Parts
<1>1. /\ request[q] \in {"running", "failing"} /\ request' = [request EXCEPT ![q] = "finished"]
      /\ reported' = [reported EXCEPT ![q] = IF ok THEN @ + pending[q] ELSE @]
      /\ pending' = [pending EXCEPT ![q] = IF ok THEN 0 ELSE @]
      /\ future' = [future EXCEPT ![q] = IF @ = "pending" THEN "done" ELSE @]
      /\ onDone' = [onDone EXCEPT ![q] = IF future[q] = "pending" /\ known THEN 1 ELSE 0]
      /\ unknown' = IF future[q] = "pending" /\ ~known THEN unknown \cup {q} ELSE unknown
      /\ UNCHANGED <<client, bootstrap, owner, held, raised, moved>>
  BY DEF OnFinish, DoneCalls
<1>2. \E v \in {"success", "exception", "error"} :
         outcome' = [outcome EXCEPT ![q] = v] /\ (v = "success" => ok)
  <2>1. outcome' = [outcome EXCEPT ![q] =
                      IF ok THEN "success"
                      ELSE IF request[q] = "failing" /\ raised[q] THEN "exception" ELSE "error"]
    BY DEF OnFinish
  <2>2. CASE ok
    BY <2>1, <2>2
  <2>3. CASE ~ok /\ request[q] = "failing" /\ raised[q]
    BY <2>1, <2>3
  <2>4. CASE ~ok /\ ~(request[q] = "failing" /\ raised[q])
    BY <2>1, <2>4
  <2>5. QED
    BY <2>2, <2>3, <2>4
<1>3. PICK v \in {"success", "exception", "error"} :
         outcome' = [outcome EXCEPT ![q] = v] /\ (v = "success" => ok)
  BY <1>2
<1>4. S3TypeOK'
  <2>1. /\ client' \in [Thread -> {"none", "live", "released", "ended"}]
        /\ bootstrap' \in [Thread -> Object \cup {NoObject}]
        /\ request' \in [Request -> {"none", "running", "failing", "finished", "ended"}]
        /\ held' \in [Request -> BOOLEAN] /\ raised' \in [Request -> BOOLEAN]
        /\ owner' \in [Request -> Thread \cup {Nobody}]
    BY <1>0, <1>1 DEF S3TypeOK
  <2>2. /\ future' \in [Request -> {"pending", "done", "cancelled"}]
        /\ outcome' \in [Request -> {"none", "success", "exception", "error"}]
        /\ unknown' \subseteq Request
    BY <1>0, <1>1, <1>3 DEF S3TypeOK
  <2>3. onDone' \in [Request -> 0 .. 1]
    BY <1>0, <1>1 DEF S3TypeOK
  <2>4. /\ moved' \in [Request -> Nat] /\ pending' \in [Request -> Nat]
        /\ reported' \in [Request -> Nat]
    BY <1>0, <1>1 DEF S3TypeOK
  <2>5. QED
    BY <2>1, <2>2, <2>3, <2>4 DEF S3TypeOK
<1>5. ASSUME NEW r \in Request PROVE Told(r)'
  <2>1. CASE r # q
    BY <1>0, <1>1, <1>3, <2>1 DEF Told, S3TypeOK
  <2>2. CASE r = q
    <3>1. /\ reported[q] \in Nat /\ pending[q] \in Nat /\ moved[q] \in Nat
          /\ reported[q] + pending[q] = moved[q] /\ outcome[q] = "none" /\ future[q] # "done"
      BY <1>0, <1>1 DEF Told, S3TypeOK
    <3>2. reported'[q] + pending'[q] = moved'[q] /\ (v = "success" => pending'[q] = 0)
      BY <1>0, <1>1, <1>3, <3>1 DEF S3TypeOK
    <3>3. /\ future'[q] = "cancelled" \/ (future'[q] = "done" /\ (onDone'[q] = 1 \/ q \in unknown'))
          /\ outcome'[q] = v /\ request'[q] = "finished"
      BY <1>0, <1>1, <1>3, <3>1 DEF S3TypeOK
    <3>4. QED
      BY <2>2, <3>2, <3>3 DEF Told
  <2>3. QED
    BY <2>1, <2>2
<1>6. QED
  BY <1>4, <1>5 DEF S3Parts

-----------------------------------------------------------------------------
(* S3Inv holds in every reachable state. *)
THEOREM Invariance == Spec => []S3Inv
<1>1. Init => S3Inv
  <2> SUFFICES ASSUME Init PROVE S3Inv
    OBVIOUS
  <2>0. IoInit /\ 0 \in 0 .. MaxMade
    BY IoAssumption DEF Init
  <2>1. IoTypeOK
    <3>1. <<>> \in Seq(Frame)
      BY EmptySeq
    <3>2. QED
      BY <2>0, <3>1 DEF IoInit, IoTypeOK
  <2>2. S3TypeOK
    BY DEF Init, S3TypeOK
  <2>3. \A t \in Thread : Depth(t) = {}
    BY <2>0 DEF IoInit, Depth
  <2>4. \A t \in Thread : Stack(t)
    BY <2>3 DEF Stack
  <2>5. \A c \in Class : Counted(c) /\ Holder(c)
    BY <2>0 DEF IoInit, Counted, Holder
  <2>6. \A r \in Request : Told(r)
    BY DEF Init, Told
  <2>7. QED
    BY <2>1, <2>2, <2>4, <2>5, <2>6, TypeParts DEF S3Inv, IoInv
<1>2. S3Inv /\ [Next]_vars => S3Inv'
  <2> SUFFICES ASSUME S3Inv, [Next]_vars PROVE S3Inv'
    OBVIOUS
  <2>0. IoInv /\ S3Parts /\ IoTypeOK
    BY TypeParts DEF S3Inv, S3Parts, IoInv
  <2>q. IoInv' /\ S3Parts' => S3Inv'
    BY TypeParts DEF S3Inv, IoInv, S3Parts, TypeOK, S3TypeOK
  <2>1. CASE IoStep
    <3>1. UNCHANGED s3Vars
      BY <2>1 DEF IoStep, AskForDefault, LetGo
    <3>2. ASSUME NEW t \in Thread, LetGo(t) PROVE IoInv'
      <4>1. /\ result' = [result EXCEPT ![t] = NoObject]
            /\ UNCHANGED <<lock, default, frames, uses, made, dropped, ended>>
        BY <3>2 DEF LetGo, DropResult
      <4>2. IoTypeOK'
        BY <2>0, <4>1 DEF IoTypeOK
      <4>3. QED
        BY <2>0, <4>1, <4>2, IoUnchanged
    <3>3. IoInv'
      BY <2>0, <2>1, <3>2, CreatorKeeps, ReleaseKeeps, CallBegins DEF IoStep, AskForDefault
    <3>4. QED
      BY <2>0, <2>q, <3>1, <3>3, DefaultsKeep
  <2>2. ASSUME NEW x \in Object, ObjectShutdown(x) PROVE S3Inv'
    <3>1. /\ ended' = ended \cup {x} /\ uses' = [uses EXCEPT ![x] = {}]
          /\ UNCHANGED <<lock, default, frames, result, made, dropped>> /\ UNCHANGED s3Vars
      BY <2>2 DEF ObjectShutdown, ShutdownComplete
    <3>2. IoTypeOK'
      BY <2>0, <3>1 DEF IoTypeOK
    <3>3. QED
      BY <2>0, <2>q, <3>1, <3>2, IoUnchanged, DefaultsKeep
  <2>3. ASSUME NEW t \in Thread, NewClient(t) PROVE S3Inv'
    <3>1. /\ result' = [result EXCEPT ![t] = NoObject]
          /\ UNCHANGED <<lock, default, frames, uses, made, dropped, ended>>
      BY <2>3 DEF NewClient
    <3>2. IoTypeOK'
      BY <2>0, <3>1 DEF IoTypeOK
    <3>3. QED
      BY <2>0, <2>3, <2>q, <3>1, <3>2, IoUnchanged, ClientKeeps
  <2>s. UNCHANGED ioVars => IoInv'
    <3> SUFFICES ASSUME UNCHANGED ioVars PROVE IoInv'
      OBVIOUS
    <3>1. IoTypeOK'
      BY <2>0 DEF IoTypeOK, ioVars
    <3>2. QED
      BY <2>0, <3>1, IoUnchanged DEF ioVars
  <2>4. ASSUME NEW t \in Thread, DropClient(t) \/ ClientShutdown(t) PROVE S3Inv'
    <3>1. IoInv'
      BY <2>4, <2>s DEF DropClient, ClientShutdown
    <3>2. QED
      BY <2>0, <2>4, <2>q, <3>1, ClientKeeps
  <2>5. ASSUME NEW t \in Thread, NEW r \in Request, MakeRequest(t, r) PROVE S3Inv'
    <3>1. IoInv'
      BY <2>5, <2>s DEF MakeRequest
    <3>2. QED
      BY <2>0, <2>5, <2>q, <3>1, RequestMade
  <2>6. ASSUME NEW r \in Request,
               \/ CallbackRaises(r) \/ CancelRequest(r) \/ CancelFuture(r) \/ DropRequest(r)
               \/ RequestShutdown(r) \/ \E b \in BOOLEAN : OnProgress(r, b)
               \/ \E ok, known \in BOOLEAN : OnFinish(r, ok, known)
        PROVE  S3Inv'
    <3>1. UNCHANGED ioVars
      BY <2>6 DEF CallbackRaises, CancelRequest, CancelFuture, DropRequest, RequestShutdown,
                  OnProgress, OnFinish
    <3>2. S3Parts'
      BY <2>0, <2>6, RequestKeeps, FinishKeeps
    <3>3. QED
      BY <2>q, <2>s, <3>1, <3>2
  <2>7. CASE UNCHANGED vars
    <3>1. UNCHANGED ioVars /\ UNCHANGED s3Vars
      BY <2>7 DEF vars
    <3>2. QED
      BY <2>0, <2>q, <2>s, <3>1, DefaultsKeep
  <2>8. QED
    BY <2>1, <2>2, <2>3, <2>4, <2>5, <2>6, <2>7 DEF Next
<1>3. QED
  BY <1>1, <1>2, PTL DEF Spec

(* Every variable of the defaults and of the client keeps its type. *)
THEOREM TypeCorrect == Spec => []TypeOK
<1>1. S3Inv => TypeOK
  BY DEF S3Inv
<1>2. QED
  BY <1>1, Invariance, PTL

(* However many threads call get_or_create_static_default(), a class makes its
   next default only after the last one was released. *)
THEOREM SingleDefault == Spec => []OneDefaultAtATime
<1>1. S3Inv => OneDefaultAtATime
  <2> SUFFICES ASSUME S3Inv, NEW c \in Class PROVE made[c] <= dropped[c] + 1
    BY DEF OneDefaultAtATime
  <2>1. Counted(c) /\ made[c] \in Nat /\ dropped[c] \in Nat
    BY IoAssumption DEF S3Inv, IoInv, IoTypeOK
  <2>2. QED
    BY <2>1 DEF Counted
<1>2. QED
  BY <1>1, Invariance, PTL

-----------------------------------------------------------------------------
(* No circular wait.                                                        *)

(* The innermost call of t waits for a lock that is held. *)
Waits(t) == Running(t) /\ ~Inside(t) /\ lock[Top(t).class] # Nobody

(* Behind every call that waits for the lock of a class there is a call that
   does not wait. *)
SomeCallProceeds ==
    \A t \in Thread : Waits(t) => \E u \in Thread : Running(u) /\ ~Waits(u)

(* The owner of a lock that somebody waits for goes on itself, or waits for the
   lock of a lower class. *)
LEMMA WaitsDown ==
  ASSUME IoInv, NEW t \in Thread, Waits(t)
  PROVE  \E u \in Thread : /\ Running(u)
                           /\ Waits(u) => Level(Top(u).class) < Level(Top(t).class)
<1> DEFINE c == Top(t).class
<1> DEFINE u == lock[c]
<1>1. c \in Class /\ u \in Thread
  BY FrameTypes DEF IoInv, IoTypeOK, Waits
<1>2. PICK i \in Depth(u) : frames[u][i].class = c
  BY <1>1 DEF IoInv, Holder, Waits
<1> HIDE DEF u
<1>3. Len(frames[u]) \in Nat /\ i \in 1 .. Len(frames[u]) /\ Stack(u)
  BY <1>1, <1>2, FrameTypes DEF IoInv, Depth
<1>4. Running(u)
  <2>1. frames[u] # <<>>
    BY <1>3
  <2>2. QED
    BY <2>1 DEF Running
<1>5. Top(u) = frames[u][Len(frames[u])] /\ Len(frames[u]) \in Depth(u)
  BY <1>1, <1>4, FrameTypes DEF IoInv
<1>6. CASE i = Len(frames[u])
  <2>1. lock[Top(u).class] = u
    BY <1>2, <1>5, <1>6 DEF u
  <2>2. \A j \in 1 .. Len(frames[u]) - 1 : frames[u][j].class # Top(u).class
    BY <1>1, <1>3, <1>5, ClassesDistinct DEF Depth
  <2>3. ~Waits(u)
    BY <1>4, <2>1, <2>2 DEF Waits, Inside
  <2>4. QED
    BY <1>1, <1>4, <2>3
<1>7. CASE i # Len(frames[u])
  <2>1. i < Len(frames[u])
    BY <1>3, <1>7
  <2>2. Level(Top(u).class) < Level(c)
    BY <1>2, <1>3, <1>5, <2>1 DEF Stack
  <2>3. QED
    BY <1>1, <1>4, <2>2
<1>8. QED
  BY <1>6, <1>7

(* However many threads ask for defaults, and whichever class each of them asks
   for first, they never all wait for each other: the locks of the three classes
   are taken in the order of the dependencies. *)
THEOREM NoCircularWait == Spec => []SomeCallProceeds
<1>1. S3Inv => SomeCallProceeds
  <2> SUFFICES ASSUME S3Inv, NEW t \in Thread, Waits(t)
               PROVE  \E u \in Thread : Running(u) /\ ~Waits(u)
    BY DEF SomeCallProceeds
  <2>0. IoInv
    BY DEF S3Inv
  <2>1. \A c : Level(c) \in {0, 1, 2}
    BY DEF Level
  <2>2. PICK u \in Thread : Running(u) /\ (Waits(u) => Level(Top(u).class) < Level(Top(t).class))
    BY <2>0, WaitsDown
  <2>3. CASE Waits(u)
    <3>1. PICK v \in Thread : Running(v) /\ (Waits(v) => Level(Top(v).class) < Level(Top(u).class))
      BY <2>0, <2>3, WaitsDown
    <3>2. CASE Waits(v)
      <4>1. PICK w \in Thread : Running(w) /\ (Waits(w) => Level(Top(w).class) < Level(Top(v).class))
        BY <2>0, <3>2, WaitsDown
      <4>2. ~Waits(w)
        <5>1. /\ Level(Top(t).class) \in {0, 1, 2} /\ Level(Top(u).class) \in {0, 1, 2}
              /\ Level(Top(v).class) \in {0, 1, 2} /\ Level(Top(w).class) \in {0, 1, 2}
          BY <2>1
        <5>2. QED
          BY <2>2, <2>3, <3>1, <3>2, <4>1, <5>1
      <4>3. QED
        BY <4>1, <4>2
    <3>3. QED
      BY <3>1, <3>2
  <2>4. QED
    BY <2>2, <2>3
<1>2. QED
  BY <1>1, Invariance, PTL

-----------------------------------------------------------------------------
(* The progress reports, the future and on_done account for each request. *)
THEOREM RequestReport == Spec => []RequestIsReported
<1>1. S3Inv => RequestIsReported
  <2> SUFFICES ASSUME S3Inv, NEW r \in Request
               PROVE  /\ reported[r] + pending[r] = moved[r]
                      /\ outcome[r] = "success" => reported[r] = moved[r]
                      /\ outcome[r] # "none" =>
                            \/ future[r] = "cancelled"
                            \/ future[r] = "done" /\ (onDone[r] = 1 \/ r \in unknown)
    BY DEF RequestIsReported
  <2>1. Told(r) /\ reported[r] \in Nat /\ pending[r] \in Nat
    BY DEF S3Inv, TypeOK
  <2>2. QED
    BY <2>1 DEF Told
<1>2. QED
  BY <1>1, Invariance, PTL
=============================================================================
