--------------------------- MODULE JAntNativeProofs ---------------------------
(***************************************************************************)
(* Proofs about JAntNative, for every number of threads, nested to any     *)
(* depth: callbacks attach and detach threads as needed, and let no        *)
(* exception through; and for every length of message: the four framings   *)
(* carry whole what fits, and let nothing else through.                    *)
(***************************************************************************)
EXTENDS JAntNative, SequenceTheorems, TLAPS

Callbacks == {"nativeJAnt_RxCallback", "nativeJAnt_StateCallback"}

\* What a function may call.
Follows(f, g) ==
  \/ f = java /\ g = native
  \/ f = native /\ g.fn = "nativeJAnt_StateCallback"
  \/ f = loop /\ g.fn \in Callbacks
  \/ f.fn \in Callbacks /\ f.at = "called" /\ g = java

\* The one frame whose callback has attached its thread.
Attaching(t, i, f) == t \in RxThreads /\ i = 2 /\ f.at # "attach"

\* How the calls of thread t are nested.
Nested(t, S) ==
  /\ S \in Seq(Frames)
  /\ t \in JavaThreads => S # <<>> /\ S[1] = java
  /\ t \in RxThreads /\ S # <<>> => S[1] = loop
  /\ \A i \in 1 .. Len(S) - 1 : Follows(S[i], S[i + 1])
  /\ \A i \in 1 .. Len(S) :
        S[i].fn = "nativeJAnt_StateCallback" => (S[i].detach <=> Attaching(t, i, S[i]))

\* Java threads stay attached; a receive thread is attached by the callback its
\* loop has called.
AttachedBy(t, S, a) ==
  /\ a \in BOOLEAN
  /\ t \in JavaThreads => a
  /\ t \in RxThreads => (a <=> Len(S) >= 2 /\ Attaching(t, 2, S[2]))

Sound(t, S, a) == Nested(t, S) /\ AttachedBy(t, S, a)

StackInv ==
  /\ DOMAIN stack = Threads /\ DOMAIN attached = Threads
  /\ \A t \in Threads : Sound(t, stack[t], attached[t])

-----------------------------------------------------------------------------
(* What Front and Append do to the nesting.                                *)

LEMMA FrontOf ==
  ASSUME NEW F, NEW S \in Seq(F), S # <<>>
  PROVE  /\ Len(S) \in Nat \ {0}
         /\ Front(S) \in Seq(F) /\ Len(Front(S)) = Len(S) - 1
         /\ \A i \in 1 .. Len(S) - 1 : Front(S)[i] = S[i]
  BY DEF Front

LEMMA AppendTo ==
  ASSUME NEW F, NEW S \in Seq(F), NEW f \in F
  PROVE  /\ Append(S, f) \in Seq(F) /\ Len(Append(S, f)) = Len(S) + 1
         /\ Len(S) \in Nat
         /\ \A i \in 1 .. Len(S) : Append(S, f)[i] = S[i]
         /\ Append(S, f)[Len(S) + 1] = f
  OBVIOUS

\* Only the loop of a receive thread calls nativeJAnt_RxCallback.
LEMMA RxCallbackPlace ==
  ASSUME NEW t \in Threads, NEW S, Nested(t, S), S # <<>>,
         Last(S).fn = "nativeJAnt_RxCallback"
  PROVE  t \in RxThreads /\ Len(S) = 2
<1>1. Len(S) \in Nat /\ Len(S) > 0
  BY DEF Nested
<1>2. \A i \in 1 .. Len(S) - 1 : Follows(S[i], S[i + 1])
  BY DEF Nested
<1>3. S[1] = java \/ S[1] = loop
  BY DEF Nested, Threads
<1>4. Len(S) # 1
  BY <1>3 DEF Last, java, loop
<1>5. PICK n \in Nat : n = Len(S) /\ n > 1
  <2>1. PICK m \in Nat : m = Len(S) /\ m > 0
    BY <1>1
  <2>2. m # 1
    BY <1>4, <2>1
  <2>3. m > 1
    BY <2>1, <2>2
  <2> QED
    BY <2>1, <2>3
<1>6. S[n - 1] = loop
  <2>1. Follows(S[n - 1], S[n])
    BY <1>2, <1>5
  <2> QED
    BY <1>5, <2>1 DEF Last, Follows, java, native, Callbacks
<1>7. ASSUME n # 2 PROVE FALSE
  <2>1. (n - 2) + 1 = n - 1 /\ n - 2 \in 1 .. n - 1
    BY <1>5, <1>7
  <2>2. Follows(S[n - 2], S[n - 1])
    BY <1>2, <1>5, <2>1
  <2> QED
    BY <1>6, <2>2 DEF Follows, java, native, loop, Callbacks
<1>8. t \in RxThreads
  <2>1. S[1] = loop
    BY <1>6, <1>7
  <2>2. java # loop
    BY DEF java, loop
  <2> QED
    BY <2>1, <2>2 DEF Nested, Threads
<1> QED
  BY <1>5, <1>7, <1>8

LEMMA Pushed ==
  ASSUME NEW t \in Threads, NEW S, Nested(t, S), NEW f \in Frames,
         S = <<>> => t \in RxThreads /\ f = loop,
         S # <<>> => Follows(Last(S), f),
         f.fn = "nativeJAnt_StateCallback" => ~f.detach /\ f.at = "attach"
  PROVE  Nested(t, Append(S, f))
<1> DEFINE T == Append(S, f)
<1>1. /\ T \in Seq(Frames) /\ Len(T) = Len(S) + 1 /\ Len(S) \in Nat
      /\ \A i \in 1 .. Len(S) : T[i] = S[i]
      /\ T[Len(S) + 1] = f
  BY AppendTo DEF Nested
<1>2. S = <<>> <=> Len(S) = 0
  BY DEF Nested
<1> HIDE DEF T
<1>3. \A i \in 1 .. Len(T) - 1 : Follows(T[i], T[i + 1])
  BY <1>1, <1>2 DEF Nested, Last
<1>4. \A i \in 1 .. Len(T) :
        T[i].fn = "nativeJAnt_StateCallback" => (T[i].detach <=> Attaching(t, i, T[i]))
  BY <1>1 DEF Nested, Attaching
<1>5. /\ t \in JavaThreads => T # <<>> /\ T[1] = java
      /\ t \in RxThreads /\ T # <<>> => T[1] = loop
  BY <1>1, <1>2, ThreadsAssumption DEF Nested
<1> QED
  BY <1>1, <1>3, <1>4, <1>5 DEF Nested, T

LEMMA Popped ==
  ASSUME NEW t \in Threads, NEW S, Nested(t, S), Len(S) > 1 \/ (t \in RxThreads /\ S # <<>>)
  PROVE  Nested(t, Front(S))
<1>1. S \in Seq(Frames) /\ S # <<>>
  BY DEF Nested
<1>2. /\ Len(S) \in Nat \ {0}
      /\ Front(S) \in Seq(Frames) /\ Len(Front(S)) = Len(S) - 1
      /\ \A i \in 1 .. Len(S) - 1 : Front(S)[i] = S[i]
  BY <1>1, FrontOf
<1> QED
  BY <1>1, <1>2, ThreadsAssumption DEF Nested

\* The innermost frame goes on to another place.
LEMMA Replaced ==
  ASSUME NEW t \in Threads, NEW S, Nested(t, S), S # <<>>, NEW f \in Frames,
         f.fn = Last(S).fn, f.fn \in Callbacks,
         f.fn = "nativeJAnt_StateCallback" => (f.detach <=> Attaching(t, Len(S), f))
  PROVE  Nested(t, Append(Front(S), f))
<1> DEFINE T == Append(Front(S), f)
<1>1. /\ Len(S) \in Nat \ {0} /\ S \in Seq(Frames)
      /\ Front(S) \in Seq(Frames) /\ Len(Front(S)) = Len(S) - 1
      /\ \A i \in 1 .. Len(S) - 1 : Front(S)[i] = S[i]
  BY FrontOf DEF Nested
<1>2. /\ T \in Seq(Frames) /\ Len(T) = Len(S)
      /\ \A i \in 1 .. Len(S) - 1 : T[i] = S[i]
      /\ T[Len(S)] = f
  BY <1>1, AppendTo
<1> HIDE DEF T
<1>3. ASSUME NEW g \in Frames, Follows(g, Last(S)) PROVE Follows(g, f)
  BY <1>3 DEF Follows, Callbacks, java, native, loop
<1>4. \A i \in 1 .. Len(T) - 1 : Follows(T[i], T[i + 1])
  BY <1>1, <1>2, <1>3 DEF Nested, Last
<1>5. \A i \in 1 .. Len(T) :
        T[i].fn = "nativeJAnt_StateCallback" => (T[i].detach <=> Attaching(t, i, T[i]))
  BY <1>1, <1>2 DEF Nested
<1>6. Len(S) # 1
  <2>1. S[1] = java \/ S[1] = loop
    BY DEF Nested, Threads
  <2> QED
    BY <2>1 DEF Last, java, loop, Callbacks
<1>7. /\ t \in JavaThreads => T # <<>> /\ T[1] = java
      /\ t \in RxThreads /\ T # <<>> => T[1] = loop
  BY <1>1, <1>2, <1>6 DEF Nested
<1> QED
  BY <1>2, <1>4, <1>5, <1>7 DEF Nested, T

-----------------------------------------------------------------------------
(* ... and to the attachment of the thread.                                *)

LEMMA SoundPush ==
  ASSUME NEW t \in Threads, NEW S, NEW a, Sound(t, S, a), NEW f \in Frames,
         S = <<>> => t \in RxThreads /\ f = loop,
         S # <<>> => Follows(Last(S), f),
         f.fn \in Callbacks => f.at = "attach",
         f.fn = "nativeJAnt_StateCallback" => ~f.detach
  PROVE  Sound(t, Append(S, f), a)
<1>1. Nested(t, Append(S, f))
  BY Pushed DEF Sound, Callbacks
<1>2. /\ Len(Append(S, f)) = Len(S) + 1 /\ Len(S) \in Nat
      /\ \A i \in 1 .. Len(S) : Append(S, f)[i] = S[i]
      /\ Append(S, f)[Len(S) + 1] = f
  BY AppendTo DEF Sound, Nested
<1>3. ASSUME t \in RxThreads, Len(S) = 1 PROVE f.at = "attach"
  <2>1. Follows(loop, f)
    BY <1>3 DEF Sound, Nested, Last
  <2> QED
    BY <2>1 DEF Follows, java, native, loop, Callbacks
<1> DEFINE T == Append(S, f)
<1>4. AttachedBy(t, T, a)
  <2>1. ASSUME t \in RxThreads, Len(S) < 2 PROVE ~(Len(T) >= 2 /\ Attaching(t, 2, T[2]))
    <3>1. CASE Len(S) = 0
      BY <1>2, <3>1
    <3>2. CASE Len(S) = 1
      BY <1>2, <1>3, <2>1, <3>2 DEF Attaching
    <3>3. PICK n \in Nat : n = Len(S)
      BY <1>2
    <3> QED
      BY <2>1, <3>1, <3>2, <3>3
  <2>2. ASSUME Len(S) >= 2 PROVE Len(T) >= 2 /\ T[2] = S[2]
    BY <1>2, <2>2
  <2> HIDE DEF T
  <2> QED
    BY <1>2, <2>1, <2>2 DEF Sound, AttachedBy
<1> QED
  BY <1>1, <1>4 DEF Sound

LEMMA SoundPop ==
  ASSUME NEW t \in Threads, NEW S, NEW a, NEW b \in BOOLEAN, Sound(t, S, a),
         Len(S) > 1 \/ (t \in RxThreads /\ S # <<>>),
         IF t \in RxThreads /\ Len(S) = 2 THEN ~b ELSE b = a
  PROVE  Sound(t, Front(S), b)
<1>1. Nested(t, Front(S))
  BY Popped DEF Sound
<1>2. /\ Len(S) \in Nat \ {0}
      /\ Len(Front(S)) = Len(S) - 1
      /\ \A i \in 1 .. Len(S) - 1 : Front(S)[i] = S[i]
  BY FrontOf DEF Sound, Nested
<1>3. AttachedBy(t, Front(S), b)
  BY <1>2, ThreadsAssumption DEF Sound, AttachedBy, Attaching
<1> QED
  BY <1>1, <1>3 DEF Sound

LEMMA SoundReplace ==
  ASSUME NEW t \in Threads, NEW S, NEW a, NEW b \in BOOLEAN, Sound(t, S, a), S # <<>>,
         NEW f \in Frames, f.fn = Last(S).fn, f.fn \in Callbacks,
         f.fn = "nativeJAnt_StateCallback" => (f.detach <=> Attaching(t, Len(S), f)),
         IF t \in RxThreads /\ Len(S) = 2 THEN b <=> f.at # "attach" ELSE b = a
  PROVE  Sound(t, Append(Front(S), f), b)
<1>1. Nested(t, Append(Front(S), f))
  BY Replaced DEF Sound
<1>2. /\ Len(S) \in Nat \ {0}
      /\ Front(S) \in Seq(Frames) /\ Len(Front(S)) = Len(S) - 1
      /\ \A i \in 1 .. Len(S) - 1 : Front(S)[i] = S[i]
  BY FrontOf DEF Sound, Nested
<1>3. /\ Len(Append(Front(S), f)) = Len(S)
      /\ \A i \in 1 .. Len(S) - 1 : Append(Front(S), f)[i] = S[i]
      /\ Append(Front(S), f)[Len(S)] = f
  BY <1>2, AppendTo
<1>4. AttachedBy(t, Append(Front(S), f), b)
  BY <1>2, <1>3, ThreadsAssumption DEF Sound, AttachedBy, Attaching
<1> QED
  BY <1>1, <1>4 DEF Sound

-----------------------------------------------------------------------------
(* The steps.                                                              *)

\* A thread changes its own stack and attachment only.
LEMMA OwnStack ==
  ASSUME StackInv, NEW t \in Threads, NEW S, NEW a, Sound(t, S, a),
         stack' = [stack EXCEPT ![t] = S],
         attached' = [attached EXCEPT ![t] = a] \/ (attached' = attached /\ a = attached[t])
  PROVE  StackInv'
  BY DEF StackInv

LEMMA OwnAttachment ==
  ASSUME StackInv, NEW t \in Threads, NEW S, Sound(t, S, attached'[t]),
         stack' = [stack EXCEPT ![t] = S],
         DOMAIN attached' = Threads, \A u \in Threads \ {t} : attached'[u] = attached[u]
  PROVE  StackInv'
  BY DEF StackInv

LEMMA TopFrame ==
  ASSUME StackInv, NEW t \in Threads, stack[t] # <<>>
  PROVE  /\ Last(stack[t]) \in Frames
         /\ attached[t] \in BOOLEAN
         /\ In(t, "java") => Last(stack[t]) = java
         /\ In(t, "native") => Last(stack[t]) = native
         /\ In(t, "loop") => Last(stack[t]) = loop
<1>1. stack[t] \in Seq(Frames) /\ attached[t] \in BOOLEAN
  BY DEF StackInv, Sound, Nested, AttachedBy
<1>2. Last(stack[t]) \in Frames
  BY <1>1 DEF Last
<1> QED
  BY <1>1, <1>2 DEF Frames, In, java, native, loop

\* The calls.
LEMMA CallSteps ==
  ASSUME StackInv, NEW t \in Threads,
         \/ CallNative(t) \/ nativeJAnt_TxMessage(t) \/ StateChanges(t)
         \/ t \in RxThreads /\ (RxThreadStarts(t) \/ ReadEvent(t) \/ ReadPacket(t))
  PROVE  StackInv'
<1> USE DEF Frames, java, native, loop, Callbacks
<1>1. ASSUME NEW f \in Frames, Enter(t, f), attached' = attached,
             stack[t] = <<>> => t \in RxThreads /\ f = loop,
             stack[t] # <<>> => Follows(Last(stack[t]), f),
             f.fn \in Callbacks => f.at = "attach",
             f.fn = "nativeJAnt_StateCallback" => ~f.detach
      PROVE  StackInv'
  <2>1. Sound(t, Append(stack[t], f), attached[t])
    BY <1>1, SoundPush DEF StackInv
  <2> QED
    BY <1>1, <2>1, OwnStack DEF Enter
<1>2. CASE CallNative(t) \/ nativeJAnt_TxMessage(t)
  BY <1>1, <1>2, TopFrame DEF CallNative, nativeJAnt_TxMessage, In, Follows
<1>3. CASE StateChanges(t)
  BY <1>1, <1>3, TopFrame DEF StateChanges, In, Follows
<1>4. CASE t \in RxThreads /\ RxThreadStarts(t)
  BY <1>1, <1>4 DEF RxThreadStarts
<1>5. CASE t \in RxThreads /\ (ReadEvent(t) \/ ReadPacket(t))
  <2> DEFINE f == [fn |-> "nativeJAnt_RxCallback", at |-> "attach"]
  <2>1. /\ attached' = attached /\ stack[t] = <<loop>>
        /\ Enter(t, f) \/ stack' = stack
    BY <1>5 DEF ReadEvent, ReadPacket
  <2>2. f \in Frames /\ f.at = "attach" /\ f.fn = "nativeJAnt_RxCallback"
    OBVIOUS
  <2>3. stack[t] # <<>> /\ Last(stack[t]) = loop
    BY <2>1 DEF Last
  <2>4. Follows(Last(stack[t]), f)
    BY <2>2, <2>3 DEF Follows
  <2>5. CASE Enter(t, f)
    BY <1>1, <2>1, <2>2, <2>3, <2>4, <2>5
  <2>6. CASE stack' = stack
    BY <2>1, <2>6 DEF StackInv
  <2> QED
    BY <2>1, <2>5, <2>6
<1> QED
  BY <1>2, <1>3, <1>4, <1>5

\* A native method, the loop and Java return.
LEMMA ReturnSteps ==
  ASSUME StackInv, NEW t \in Threads,
         NativeReturns(t) \/ JavaReturns(t) \/ (t \in RxThreads /\ RxThreadEnds(t))
  PROVE  StackInv'
<1> DEFINE S == stack[t]
<1>1. Sound(t, S, attached[t]) /\ attached[t] \in BOOLEAN
  BY DEF StackInv, Sound, AttachedBy
<1>2. Leave(t) /\ attached' = attached /\ S # <<>>
  BY DEF NativeReturns, JavaReturns, RxThreadEnds, In, loop
<1>3. ASSUME t \in RxThreads, Len(S) = 2 PROVE ~NativeReturns(t) /\ ~JavaReturns(t)
  <2>1. Follows(loop, Last(S))
    BY <1>1, <1>2, <1>3 DEF Sound, Nested, Last
  <2> QED
    BY <2>1 DEF NativeReturns, JavaReturns, In, Follows, Callbacks, java, native, loop
<1>4. ~(t \in RxThreads /\ Len(S) = 2)
  BY <1>3 DEF RxThreadEnds
<1>5. Len(S) > 1 \/ t \in RxThreads
  BY <1>1 DEF NativeReturns, JavaReturns, In, Sound, Nested, Last, Threads, java, native
<1>6. Sound(t, Front(S), attached[t])
  BY <1>1, <1>2, <1>4, <1>5, SoundPop
<1> QED
  BY <1>2, <1>6, OwnStack DEF Leave

\* Whatever a receive thread is in, its loop has called a callback first, which
\* waits for Java.
LEMMA OuterCallback ==
  ASSUME NEW t \in RxThreads, NEW S, Nested(t, S), Len(S) > 2
  PROVE  S[2].fn \in Callbacks /\ S[2].at = "called"
<1>1. PICK n \in Nat : n = Len(S)
  BY DEF Nested
<1>2. Follows(S[1], S[2]) /\ Follows(S[2], S[3]) /\ S[1] = loop
  BY <1>1 DEF Nested
<1> QED
  BY <1>2 DEF Follows, Callbacks, java, native, loop

LEMMA NatCases == \A n \in Nat : n > 0 /\ n # 1 => n > 1 /\ (n # 2 => n > 2 /\ n >= 2)
  OBVIOUS

\* A callback runs above a Java method or the loop, and its thread is attached
\* unless the loop has just called it.
LEMMA TopCallback ==
  ASSUME NEW t \in Threads, NEW S, NEW a, Sound(t, S, a), S # <<>>, Last(S).fn \in Callbacks
  PROVE  /\ Len(S) > 1
         /\ a <=> ~(t \in RxThreads /\ Len(S) = 2 /\ Last(S).at = "attach")
<1>1. Len(S) \in Nat /\ Len(S) > 0
  BY DEF Sound, Nested
<1>2. Len(S) # 1
  BY <1>1 DEF Sound, Nested, Last, Threads, java, loop, Callbacks
<1>3. Len(S) > 1
  BY <1>1, <1>2, NatCases
<1>4. CASE t \in JavaThreads
  BY <1>3, <1>4, ThreadsAssumption DEF Sound, AttachedBy
<1>5. CASE t \in RxThreads /\ Len(S) = 2
  BY <1>3, <1>5 DEF Sound, AttachedBy, Attaching, Last
<1>6. CASE t \in RxThreads /\ Len(S) # 2
  <2>1. Len(S) > 2 /\ Len(S) >= 2
    BY <1>1, <1>2, <1>6, NatCases
  <2>2. Attaching(t, 2, S[2])
    BY <1>6, <2>1, OuterCallback DEF Sound, Attaching
  <2> QED
    BY <1>3, <1>6, <2>1, <2>2, ThreadsAssumption DEF Sound, AttachedBy
<1> QED
  BY <1>4, <1>5, <1>6 DEF Threads

\* A callback calls Java.
LEMMA CallsJava ==
  ASSUME StackInv, NEW t \in Threads, stack[t] # <<>>, NEW f \in Frames,
         f.fn = Last(stack[t]).fn, f.fn \in Callbacks, f.at = "called",
         f.fn = "nativeJAnt_StateCallback" => (f.detach <=> Attaching(t, Len(stack[t]), f)),
         Last(stack[t]).at # "attach", attached' = attached, CallFrom(t, f)
  PROVE  StackInv'
<1> DEFINE S == stack[t]
<1>1. Sound(t, S, attached[t]) /\ attached[t] \in BOOLEAN /\ S \in Seq(Frames)
  BY DEF StackInv, Sound, Nested, AttachedBy
<1>2. attached[t]
  BY <1>1, TopCallback
<1>3. Sound(t, Append(Front(S), f), attached[t])
  BY <1>1, <1>2, SoundReplace
<1>4. /\ Front(S) \in Seq(Frames)
      /\ Append(Front(S), f) \in Seq(Frames)
      /\ Len(Append(Front(S), f)) > 0
      /\ Last(Append(Front(S), f)) = f
  BY <1>1, FrontOf, AppendTo DEF Last
<1>5. java \in Frames /\ Follows(f, java) /\ java.fn \notin Callbacks
  BY DEF Frames, java, Follows, Callbacks
<1> DEFINE T == Append(Front(S), f)
<1>6. Sound(t, Append(T, java), attached[t])
  <2>1. T # <<>> /\ java.fn # "nativeJAnt_StateCallback"
    BY <1>4 DEF java
  <2>2. Sound(t, T, attached[t]) /\ Follows(Last(T), java)
    BY <1>3, <1>4, <1>5
  <2> HIDE DEF T
  <2> QED
    BY <1>5, <2>1, <2>2, SoundPush
<1>7. Front(S) \o <<f, java>> = Append(Append(Front(S), f), java)
  BY <1>4, <1>5
<1> QED
  BY <1>6, <1>7, OwnStack DEF CallFrom

\* nativeJAnt_StateCallback.
LEMMA StateSteps ==
  ASSUME StackInv, NEW t \in Threads,
         StateAttach(t) \/ StateCallsJava(t) \/ StateReturns(t)
  PROVE  StackInv'
<1> DEFINE S == stack[t]
           f == Last(S)
           g(at, d) == [f EXCEPT !.at = at, !.detach = d]
<1>1. /\ Sound(t, S, attached[t]) /\ attached[t] \in BOOLEAN
      /\ S # <<>> /\ f.fn = "nativeJAnt_StateCallback" /\ f \in Frames
  BY TopFrame DEF StackInv, StateAttach, StateCallsJava, StateReturns, InAt, In
<1>2. /\ f.detach \in BOOLEAN
      /\ \A at \in {"attach", "call", "called"}, d \in BOOLEAN :
           /\ g(at, d) \in Frames /\ [f EXCEPT !.at = at] = g(at, f.detach)
           /\ g(at, d).fn = f.fn /\ g(at, d).at = at /\ g(at, d).detach = d
  BY <1>1 DEF Frames
<1>3. f.detach <=> Attaching(t, Len(S), f)
  <2>1. Len(S) \in 1 .. Len(S)
    BY <1>1, FrontOf DEF Sound, Nested
  <2> QED
    BY <1>1, <2>1 DEF Sound, Nested, Last
<1>4. Len(S) > 1 /\ (attached[t] <=> ~(t \in RxThreads /\ Len(S) = 2 /\ f.at = "attach"))
  BY <1>1, TopCallback DEF Callbacks
<1> HIDE DEF S, f, g
<1>5. CASE StateAttach(t)
  <2>1. f.at = "attach" /\ ~f.detach
    BY <1>3, <1>5 DEF StateAttach, InAt, Attaching, f, S
  <2>2. CASE attached[t] /\ GoOn(t, g("call", FALSE)) /\ attached' = attached
    <3>1. Sound(t, Append(Front(S), g("call", FALSE)), attached[t])
      <4>1. ~(t \in RxThreads /\ Len(S) = 2)
        BY <1>4, <2>1, <2>2
      <4>2. /\ g("call", FALSE) \in Frames /\ g("call", FALSE).fn = f.fn
            /\ ~g("call", FALSE).detach
        BY <1>2
      <4> QED
        BY <1>1, <4>1, <4>2, SoundReplace DEF Attaching, Callbacks, f
    <3> QED
      BY <2>2, <3>1, OwnStack DEF GoOn, S
  <2>3. CASE /\ ~attached[t] /\ GoOn(t, g("call", TRUE))
             /\ attached' = [attached EXCEPT ![t] = TRUE]
    <3>1. /\ attached'[t] = TRUE /\ DOMAIN attached' = Threads
          /\ \A u \in Threads \ {t} : attached'[u] = attached[u]
      BY <2>3 DEF StackInv
    <3>2. Sound(t, Append(Front(S), g("call", TRUE)), attached'[t])
      <4>1. t \in RxThreads /\ Len(S) = 2
        BY <1>4, <2>3
      <4>2. /\ g("call", TRUE) \in Frames /\ g("call", TRUE).fn = f.fn
            /\ g("call", TRUE).at = "call" /\ g("call", TRUE).detach
        BY <1>2
      <4>3. attached'[t] \in BOOLEAN /\ (attached'[t] <=> g("call", TRUE).at # "attach")
        BY <3>1, <4>2
      <4> QED
        BY <1>1, <4>1, <4>2, <4>3, SoundReplace DEF Attaching, Callbacks, f
    <3>3. stack' = [stack EXCEPT ![t] = Append(Front(S), g("call", TRUE))]
      BY <2>3 DEF GoOn, S
    <3> QED
      BY <3>1, <3>2, <3>3, OwnAttachment
  <2>4. CASE ~attached[t] /\ Leave(t) /\ attached' = attached
    <3>1. Sound(t, Front(S), attached[t])
      BY <1>1, <1>4, <2>4, SoundPop
    <3> QED
      BY <2>4, <3>1, OwnStack DEF Leave, S
  <2>5. [f EXCEPT !.at = "call"] = g("call", FALSE)
    BY <1>2, <2>1
  <2> QED
    BY <1>5, <2>2, <2>3, <2>4, <2>5 DEF StateAttach, f, S, g
<1>6. CASE StateCallsJava(t)
  <2>1. f.at = "call" /\ CallFrom(t, [f EXCEPT !.at = "called"]) /\ attached' = attached
    BY <1>6 DEF StateCallsJava, InAt, f, S
  <2>2. CallFrom(t, g("called", f.detach))
    BY <1>2, <2>1
  <2> QED
    BY <1>1, <1>2, <1>3, <2>1, <2>2, CallsJava DEF Attaching, Callbacks, f, S
<1>7. CASE StateReturns(t)
  <2>1. /\ f.at = "called" /\ Leave(t)
        /\ attached' = [attached EXCEPT ![t] = attached[t] /\ ~f.detach]
    BY <1>7 DEF StateReturns, InAt, f, S
  <2>2. /\ attached'[t] = (attached[t] /\ ~f.detach) /\ DOMAIN attached' = Threads
        /\ \A u \in Threads \ {t} : attached'[u] = attached[u]
    BY <2>1 DEF StackInv
  <2>3. /\ attached'[t] \in BOOLEAN
        /\ IF t \in RxThreads /\ Len(S) = 2 THEN ~attached'[t] ELSE attached'[t] = attached[t]
    BY <1>1, <1>2, <1>3, <1>4, <2>1, <2>2 DEF Attaching
  <2>4. Sound(t, Front(S), attached'[t])
    BY <1>1, <1>4, <2>3, SoundPop
  <2>5. stack' = [stack EXCEPT ![t] = Front(S)]
    BY <2>1 DEF Leave, S
  <2> QED
    BY <2>2, <2>4, <2>5, OwnAttachment
<1> QED
  BY <1>5, <1>6, <1>7

\* nativeJAnt_RxCallback, which only the loop of a receive thread calls.
LEMMA RxSteps ==
  ASSUME StackInv, NEW t \in Threads,
         RxAttach(t) \/ RxNewByteArray(t) \/ RxCallsJava(t) \/ RxReturns(t) \/ RxCleanUp(t)
  PROVE  StackInv'
<1> DEFINE S == stack[t]
           f == Last(S)
<1>1. /\ Sound(t, S, attached[t]) /\ attached[t] \in BOOLEAN
      /\ S # <<>> /\ f.fn = "nativeJAnt_RxCallback"
  BY TopFrame DEF StackInv, RxAttach, RxNewByteArray, RxCallsJava, RxReturns, RxCleanUp, InAt, In
<1>2. t \in RxThreads /\ Len(S) = 2 /\ Len(S) > 1
  BY <1>1, RxCallbackPlace, TopCallback DEF Sound, Callbacks
<1>3. attached[t] <=> f.at # "attach"
  BY <1>1, <1>2, TopCallback DEF Callbacks
<1>4. \A at \in {"new", "call", "called", "cleanup"} :
        /\ AtRx(at) \in Frames /\ AtRx(at).fn = "nativeJAnt_RxCallback" /\ AtRx(at).at = at
  BY DEF Frames, AtRx
<1> HIDE DEF S, f
<1>5. ASSUME NEW at \in {"new", "call", "called", "cleanup"}, attached'[t] = TRUE,
             GoOn(t, AtRx(at)), DOMAIN attached' = Threads,
             \A u \in Threads \ {t} : attached'[u] = attached[u]
      PROVE  StackInv'
  <2>1. attached'[t] \in BOOLEAN /\ (attached'[t] <=> AtRx(at).at # "attach")
    BY <1>4, <1>5
  <2>2. Sound(t, Append(Front(S), AtRx(at)), attached'[t])
    BY <1>1, <1>2, <1>4, <2>1, SoundReplace DEF Callbacks, f
  <2>3. stack' = [stack EXCEPT ![t] = Append(Front(S), AtRx(at))]
    BY <1>5 DEF GoOn, S
  <2> QED
    BY <1>5, <2>2, <2>3, OwnAttachment
<1>6. ASSUME attached'[t] = FALSE, Leave(t), DOMAIN attached' = Threads,
             \A u \in Threads \ {t} : attached'[u] = attached[u]
      PROVE  StackInv'
  <2>1. attached'[t] \in BOOLEAN /\ ~attached'[t]
    BY <1>6
  <2>2. Sound(t, Front(S), attached'[t])
    BY <1>1, <1>2, <2>1, SoundPop
  <2>3. stack' = [stack EXCEPT ![t] = Front(S)]
    BY <1>6 DEF Leave, S
  <2> QED
    BY <1>6, <2>2, <2>3, OwnAttachment
<1>7. DOMAIN attached = Threads
  BY DEF StackInv
<1>8. CASE RxAttach(t)
  BY <1>1, <1>5, <1>6, <1>7, <1>8 DEF RxAttach
<1>9. CASE RxNewByteArray(t)
  BY <1>1, <1>3, <1>5, <1>7, <1>9 DEF RxNewByteArray, InAt, f, S
<1>10. CASE RxCallsJava(t)
  <2>1. f.at = "call" /\ CallFrom(t, AtRx("called")) /\ attached' = attached
    BY <1>10 DEF RxCallsJava, InAt, f, S
  <2> QED
    BY <1>1, <1>4, <2>1, CallsJava DEF Callbacks, f, S
<1>11. CASE RxReturns(t)
  BY <1>1, <1>3, <1>5, <1>6, <1>7, <1>11 DEF RxReturns, InAt, f, S
<1>12. CASE RxCleanUp(t)
  BY <1>6, <1>7, <1>12 DEF RxCleanUp
<1> QED
  BY <1>8, <1>9, <1>10, <1>11, <1>12

-----------------------------------------------------------------------------
\* Calls are nested as the layer means them to be, to any depth, and threads are
\* attached accordingly.
LEMMA StackInvariant == Spec => []StackInv
<1>1. Init => StackInv
  <2> SUFFICES ASSUME Init PROVE StackInv
    OBVIOUS
  <2>1. ASSUME NEW t \in JavaThreads, NEW a \in BOOLEAN, a PROVE Sound(t, <<java>>, a)
    BY <2>1, ThreadsAssumption DEF Sound, Nested, AttachedBy, Frames, java
  <2>2. ASSUME NEW t \in RxThreads, NEW a \in BOOLEAN, ~a PROVE Sound(t, <<>>, a)
    BY <2>2, ThreadsAssumption DEF Sound, Nested, AttachedBy
  <2>3. ASSUME NEW t \in Threads PROVE Sound(t, stack[t], attached[t])
    <3>1. CASE t \in JavaThreads
      <4>1. stack[t] = <<java>>
        BY <3>1 DEF Init
      <4>2. attached[t] \in BOOLEAN /\ attached[t]
        BY <3>1 DEF Init
      <4> QED
        BY <2>1, <3>1, <4>1, <4>2
    <3>2. CASE t \in RxThreads
      <4>1. t \notin JavaThreads
        BY <3>2, ThreadsAssumption
      <4>2. stack[t] = <<>>
        BY <4>1 DEF Init
      <4>3. attached[t] <=> t \in JavaThreads
        BY DEF Init
      <4>4. attached[t] \in BOOLEAN /\ ~attached[t]
        BY <4>1, <4>3 DEF Init
      <4> QED
        BY <2>2, <3>2, <4>2, <4>4
    <3> QED
      BY <3>1, <3>2 DEF Threads
  <2> QED
    BY <2>3 DEF Init, StackInv
<1>2. StackInv /\ [Next]_vars => StackInv'
  <2>1. ASSUME StackInv, NEW t \in Threads, TxMessageThrows(t) \/ JavaCatches(t) PROVE StackInv'
    BY <2>1 DEF TxMessageThrows, JavaCatches, StackInv
  <2>2. ASSUME StackInv, UNCHANGED vars PROVE StackInv'
    BY <2>2 DEF vars, StackInv
  <2> SUFFICES ASSUME StackInv, [Next]_vars PROVE StackInv'
    OBVIOUS
  <2>3. ASSUME NEW t \in Threads,
               \/ CallNative(t) \/ nativeJAnt_TxMessage(t) \/ StateChanges(t)
               \/ NativeReturns(t) \/ JavaReturns(t)
        PROVE  StackInv'
    <3>1. CASE NativeReturns(t) \/ JavaReturns(t)
      BY <3>1, ReturnSteps
    <3>2. CASE CallNative(t) \/ nativeJAnt_TxMessage(t) \/ StateChanges(t)
      BY <3>2, CallSteps
    <3> QED
      BY <2>3, <3>1, <3>2
  <2>4. ASSUME NEW t \in Threads, StateAttach(t) \/ StateCallsJava(t) \/ StateReturns(t)
        PROVE  StackInv'
    BY <2>4, StateSteps
  <2>5. ASSUME NEW t \in Threads,
               \/ RxAttach(t) \/ RxNewByteArray(t) \/ RxCallsJava(t) \/ RxReturns(t)
               \/ RxCleanUp(t)
        PROVE  StackInv'
    BY <2>5, RxSteps
  <2>6. ASSUME NEW r \in RxThreads,
               RxThreadStarts(r) \/ RxThreadEnds(r) \/ ReadEvent(r) \/ ReadPacket(r)
        PROVE  StackInv'
    <3>1. r \in Threads
      BY DEF Threads
    <3>2. CASE RxThreadEnds(r)
      <4>1. r \in RxThreads /\ RxThreadEnds(r)
        BY <3>2
      <4> QED
        BY <3>1, <4>1, ReturnSteps
    <3>3. CASE RxThreadStarts(r) \/ ReadEvent(r) \/ ReadPacket(r)
      <4>1. r \in RxThreads /\ (RxThreadStarts(r) \/ ReadEvent(r) \/ ReadPacket(r))
        BY <3>3
      <4> QED
        BY <3>1, <4>1, CallSteps
    <3> QED
      BY <2>6, <3>2, <3>3
  <2> QED
    BY <2>1, <2>2, <2>3, <2>4, <2>5, <2>6 DEF Next
<1> QED
  BY <1>1, <1>2, PTL DEF Spec

\* Whatever calls what, no Java method runs on a thread the VM does not know, and
\* no receive thread is attached while it is in its loop, where it may end.
THEOREM ThreadsAttached == Spec => []AttachedAsNeeded
<1>1. ASSUME StackInv, NEW t \in Threads, java \in ToSet(stack[t]) PROVE attached[t]
  <2>1. Sound(t, stack[t], attached[t])
    BY <1>1 DEF StackInv
  <2>2. PICK i \in 1 .. Len(stack[t]) : stack[t][i] = java
    BY <1>1, <2>1 DEF ToSet, Sound, Nested
  <2>3. CASE t \in JavaThreads
    BY <2>1, <2>3 DEF Sound, AttachedBy
  <2>4. CASE t \in RxThreads
    <3>1. PICK n \in Nat : n = Len(stack[t])
      BY <2>1 DEF Sound, Nested
    <3>2. stack[t][1] = loop /\ java # loop
      BY <2>1, <2>2, <2>4 DEF Sound, Nested, java, loop
    <3>3. i # 2
      BY <2>1, <2>2, <3>1, <3>2 DEF Sound, Nested, Follows, java, native, loop, Callbacks
    <3>4. n > 2 /\ Len(stack[t]) > 2 /\ Len(stack[t]) >= 2
      BY <2>2, <3>1, <3>2, <3>3
    <3>5. Attaching(t, 2, stack[t][2])
      BY <2>1, <2>4, <3>4, OuterCallback DEF Sound, Attaching
    <3> QED
      BY <2>1, <2>4, <3>4, <3>5 DEF Sound, AttachedBy
  <2> QED
    BY <2>3, <2>4 DEF Threads
<1>2. ASSUME StackInv, NEW r \in RxThreads, stack[r] \in {<<>>, <<loop>>} PROVE ~attached[r]
  <2>1. Len(stack[r]) = 0 \/ Len(stack[r]) = 1
    BY <1>2
  <2> QED
    BY <1>2, <2>1 DEF StackInv, Sound, AttachedBy, Threads
<1>3. StackInv => AttachedAsNeeded
  BY <1>1, <1>2 DEF AttachedAsNeeded
<1> QED
  BY <1>3, StackInvariant, PTL

-----------------------------------------------------------------------------
(* Exceptions.                                                             *)

\* Where a thread may have an exception pending.
MayThrow(f) == f.fn = "java" \/ (f.fn \in Callbacks /\ f.at \in {"called", "cleanup"})

PendingInv ==
  /\ pending \in [Threads -> BOOLEAN]
  /\ \A t \in Threads : pending[t] => stack[t] # <<>> /\ MayThrow(Last(stack[t]))

\* A thread changes its own stack and exception only.
LEMMA OwnException ==
  ASSUME PendingInv, NEW t \in Threads, NEW S, NEW p \in BOOLEAN,
         stack' = [stack EXCEPT ![t] = S], DOMAIN stack = Threads,
         pending' = [pending EXCEPT ![t] = p],
         p => S # <<>> /\ MayThrow(Last(S))
  PROVE  PendingInv'
  BY DEF PendingInv

LEMMA NoException ==
  ASSUME PendingInv, NEW t \in Threads, ~pending[t], pending' = pending,
         \A u \in Threads \ {t} : stack'[u] = stack[u]
  PROVE  PendingInv'
  BY DEF PendingInv

\* The function a Java method returns to has called it.
LEMMA ReturnsToCaller ==
  ASSUME StackInv, NEW t \in Threads, JavaReturns(t)
  PROVE  Front(stack[t]) # <<>> /\ MayThrow(Last(Front(stack[t])))
<1> DEFINE S == stack[t]
<1>1. S \in Seq(Frames) /\ S # <<>> /\ Len(S) > 1 /\ Nested(t, S)
  BY DEF StackInv, Sound, Nested, JavaReturns, In
<1>2. Last(S) = java
  BY <1>1, TopFrame DEF JavaReturns
<1>3. PICK n \in Nat : n = Len(S) /\ n > 1
  <2>1. Len(S) \in Nat
    BY <1>1
  <2> QED
    BY <1>1, <2>1
<1>4. Follows(S[n - 1], S[n]) /\ S[n] = java
  BY <1>1, <1>2, <1>3 DEF Nested, Last
<1>5. MayThrow(S[n - 1])
  BY <1>4 DEF Follows, MayThrow, java, native, loop, Callbacks
<1>6. Len(Front(S)) = n - 1 /\ Front(S)[n - 1] = S[n - 1]
  BY <1>1, <1>3, FrontOf
<1> QED
  BY <1>3, <1>5, <1>6 DEF Last

\* A callback that is back from Java, or that could not make its call.
LEMMA LastOfGoOn ==
  ASSUME StackInv, NEW t \in Threads, stack[t] # <<>>, NEW f \in Frames
  PROVE  Append(Front(stack[t]), f) # <<>> /\ Last(Append(Front(stack[t]), f)) = f
<1>1. stack[t] \in Seq(Frames)
  BY DEF StackInv, Sound, Nested
<1>2. Front(stack[t]) \in Seq(Frames)
  BY <1>1, FrontOf
<1> QED
  BY <1>2 DEF Last

LEMMA PendingSteps ==
  ASSUME StackInv, PendingInv, NEW t \in Threads,
         \/ TxMessageThrows(t) \/ JavaCatches(t) \/ JavaReturns(t)
         \/ StateReturns(t) \/ RxNewByteArray(t) \/ RxReturns(t) \/ RxCleanUp(t)
  PROVE  PendingInv'
<1>1. DOMAIN stack = Threads /\ pending[t] \in BOOLEAN /\ DOMAIN pending = Threads
  BY DEF StackInv, PendingInv
<1>2. CASE TxMessageThrows(t) \/ JavaCatches(t)
  BY <1>2 DEF TxMessageThrows, JavaCatches, PendingInv, In, MayThrow
<1>3. CASE JavaReturns(t)
  BY <1>1, <1>3, ReturnsToCaller, OwnException DEF JavaReturns, Leave
<1>4. CASE StateReturns(t) \/ RxCleanUp(t)
  BY <1>1, <1>4, OwnException DEF StateReturns, RxCleanUp, Leave
<1>5. AtRx("cleanup") \in Frames /\ MayThrow(AtRx("cleanup"))
  BY DEF AtRx, Frames, MayThrow, Callbacks
<1>6. ASSUME stack[t] # <<>>, GoOn(t, AtRx("cleanup")), NEW p \in BOOLEAN,
             pending' = [pending EXCEPT ![t] = p]
      PROVE  PendingInv'
  BY <1>1, <1>5, <1>6, LastOfGoOn, OwnException DEF GoOn
<1>7. CASE RxReturns(t)
  <2>1. CASE pending[t]
    <3>1. stack[t] # <<>> /\ GoOn(t, AtRx("cleanup"))
      BY <1>7, <2>1 DEF RxReturns, InAt, In
    <3>2. pending' = [pending EXCEPT ![t] = TRUE]
      BY <1>7, <2>1 DEF RxReturns, PendingInv
    <3> QED
      BY <1>6, <3>1, <3>2
  <2>2. CASE ~pending[t]
    BY <1>1, <1>7, <2>2, NoException DEF RxReturns, Leave
  <2> QED
    BY <2>1, <2>2
<1>8. CASE RxNewByteArray(t)
  <2>1. stack[t] # <<>> /\ ~pending[t]
    BY <1>1, <1>8 DEF RxNewByteArray, InAt, In, PendingInv, MayThrow
  <2>2. CASE GoOn(t, AtRx("call")) /\ UNCHANGED pending
    BY <1>1, <2>1, <2>2, NoException DEF GoOn
  <2>3. CASE GoOn(t, AtRx("cleanup")) /\ pending' = [pending EXCEPT ![t] = TRUE]
    BY <1>6, <2>1, <2>3
  <2> QED
    BY <1>8, <2>2, <2>3 DEF RxNewByteArray
<1> QED
  BY <1>2, <1>3, <1>4, <1>7, <1>8

\* The other steps are taken with no exception pending, and leave none.
LEMMA QuietSteps ==
  ASSUME StackInv, PendingInv, NEW t \in Threads,
         \/ CallNative(t) \/ nativeJAnt_TxMessage(t) \/ NativeReturns(t) \/ StateChanges(t)
         \/ StateAttach(t) \/ StateCallsJava(t) \/ RxAttach(t) \/ RxCallsJava(t)
         \/ RxThreadStarts(t) \/ RxThreadEnds(t) \/ ReadEvent(t) \/ ReadPacket(t)
  PROVE  PendingInv'
<1>1. DOMAIN stack = Threads
  BY DEF StackInv
<1>2. pending' = pending /\ \A u \in Threads \ {t} : stack'[u] = stack[u]
  <2> USE <1>1 DEF Enter, Leave, GoOn, CallFrom
  <2>1. CASE CallNative(t) \/ nativeJAnt_TxMessage(t) \/ NativeReturns(t) \/ StateChanges(t)
    BY <2>1 DEF CallNative, nativeJAnt_TxMessage, NativeReturns, StateChanges
  <2>2. CASE StateAttach(t) \/ StateCallsJava(t) \/ RxAttach(t) \/ RxCallsJava(t)
    BY <2>2 DEF StateAttach, StateCallsJava, RxAttach, RxCallsJava
  <2>3. CASE RxThreadStarts(t) \/ RxThreadEnds(t)
    BY <2>3 DEF RxThreadStarts, RxThreadEnds
  <2>4. CASE ReadEvent(t) \/ ReadPacket(t)
    BY <2>4 DEF ReadEvent, ReadPacket
  <2> QED
    BY <2>1, <2>2, <2>3, <2>4
<1>3. ~pending[t]
  <2> USE DEF PendingInv, MayThrow, Callbacks
  <2>1. CASE \/ CallNative(t) \/ nativeJAnt_TxMessage(t)
             \/ NativeReturns(t) \/ StateChanges(t)
    BY <2>1 DEF CallNative, nativeJAnt_TxMessage, NativeReturns, StateChanges, In
  <2>2. CASE StateAttach(t) \/ StateCallsJava(t) \/ RxAttach(t) \/ RxCallsJava(t)
    BY <2>2 DEF StateAttach, StateCallsJava, RxAttach, RxCallsJava, InAt, In
  <2>3. CASE RxThreadStarts(t)
    BY <2>3 DEF RxThreadStarts
  <2>4. CASE RxThreadEnds(t) \/ ReadEvent(t) \/ ReadPacket(t)
    <3>1. stack[t] = <<loop>>
      BY <2>4 DEF RxThreadEnds, ReadEvent, ReadPacket
    <3>2. ~MayThrow(Last(stack[t]))
      BY <3>1 DEF Last, loop
    <3> QED
      BY <3>2
  <2> QED
    BY <2>1, <2>2, <2>3, <2>4
<1> QED
  BY <1>2, <1>3, NoException

LEMMA PendingInvariant == Spec => []PendingInv
<1>1. Init => PendingInv
  BY DEF Init, PendingInv
<1>2. StackInv /\ PendingInv /\ [Next]_vars => PendingInv'
  <2> SUFFICES ASSUME StackInv, PendingInv, [Next]_vars PROVE PendingInv'
    OBVIOUS
  <2>1. CASE UNCHANGED vars
    BY <2>1 DEF vars, PendingInv
  <2>2. ASSUME NEW t \in Threads,
               \/ CallNative(t) \/ nativeJAnt_TxMessage(t) \/ NativeReturns(t)
               \/ StateChanges(t) \/ StateAttach(t) \/ StateCallsJava(t) \/ RxAttach(t)
               \/ RxCallsJava(t)
        PROVE  PendingInv'
    BY <2>2, QuietSteps
  <2>3. ASSUME NEW t \in Threads,
               \/ TxMessageThrows(t) \/ JavaCatches(t) \/ JavaReturns(t)
               \/ StateReturns(t) \/ RxNewByteArray(t) \/ RxReturns(t) \/ RxCleanUp(t)
        PROVE  PendingInv'
    BY <2>3, PendingSteps
  <2>4. ASSUME NEW r \in RxThreads,
               RxThreadStarts(r) \/ RxThreadEnds(r) \/ ReadEvent(r) \/ ReadPacket(r)
        PROVE  PendingInv'
    <3>1. r \in Threads
      BY DEF Threads
    <3> QED
      BY <2>4, <3>1, QuietSteps
  <2> QED
    BY <2>1, <2>2, <2>3, <2>4 DEF Next
<1> QED
  BY <1>1, <1>2, StackInvariant, PTL DEF Spec

\* Whatever calls what, an exception is pending only in Java or in a callback that
\* is about to clear it: never in the HAL.
THEOREM ExceptionsCleared == Spec => []ExceptionsHandled
<1>1. PendingInv => ExceptionsHandled
  BY DEF PendingInv, ExceptionsHandled, MayThrow, Callbacks, InAt, In
<1> QED
  BY <1>1, PendingInvariant, PTL

-----------------------------------------------------------------------------
(* Tuples joined to longer tuples.                                         *)

LEMMA IsConcat ==
  ASSUME NEW s \in Seq(Int), NEW t \in Seq(Int), NEW u \in Seq(Int),
         Len(u) = Len(s) + Len(t),
         \A i \in 1 .. Len(s) : u[i] = s[i],
         \A i \in 1 .. Len(t) : u[Len(s) + i] = t[i]
  PROVE  s \o t = u
<1>1. PICK n \in Nat, m \in Nat : n = Len(s) /\ m = Len(t)
  OBVIOUS
<1>2. /\ s \o t \in Seq(Int) /\ Len(s \o t) = n + m
      /\ \A i \in 1 .. n + m : (s \o t)[i] = IF i <= n THEN s[i] ELSE t[i - n]
  BY <1>1, ConcatProperties
<1>3. ASSUME NEW i \in 1 .. n + m PROVE (s \o t)[i] = u[i]
  <2>1. CASE i <= n
    <3>1. u[i] = s[i]
      BY <1>1, <2>1
    <3> QED
      BY <1>2, <2>1, <3>1
  <2>2. CASE ~(i <= n)
    <3>1. i - n \in 1 .. m /\ i = n + (i - n)
      BY <2>2
    <3>2. u[n + (i - n)] = t[i - n]
      BY <1>1, <3>1
    <3> QED
      BY <1>2, <2>2, <3>1, <3>2
  <2> QED
    BY <2>1, <2>2
<1> QED
  BY <1>1, <1>2, <1>3, SeqEqual

LEMMA Join12 ==
  ASSUME NEW a \in Int, NEW b \in Int, NEW c \in Int
  PROVE  <<a>> \o <<b, c>> = <<a, b, c>>
<1>1. /\ <<a>> \in Seq(Int) /\ <<b, c>> \in Seq(Int) /\ <<a, b, c>> \in Seq(Int)
      /\ Len(<<a, b, c>>) = Len(<<a>>) + Len(<<b, c>>)
      /\ \A i \in 1 .. Len(<<a>>) : <<a, b, c>>[i] = <<a>>[i]
      /\ \A i \in 1 .. Len(<<b, c>>) : <<a, b, c>>[Len(<<a>>) + i] = <<b, c>>[i]
  OBVIOUS
<1> QED
  BY <1>1, IsConcat, ZenonT(40)

LEMMA Join31 ==
  ASSUME NEW a \in Int, NEW b \in Int, NEW c \in Int, NEW d \in Int
  PROVE  <<a, b, c>> \o <<d>> = <<a, b, c, d>>
<1>1. /\ <<a, b, c>> \in Seq(Int) /\ <<d>> \in Seq(Int) /\ <<a, b, c, d>> \in Seq(Int)
      /\ Len(<<a, b, c, d>>) = Len(<<a, b, c>>) + Len(<<d>>)
      /\ \A i \in 1 .. Len(<<a, b, c>>) : <<a, b, c, d>>[i] = <<a, b, c>>[i]
      /\ \A i \in 1 .. Len(<<d>>) : <<a, b, c, d>>[Len(<<a, b, c>>) + i] = <<d>>[i]
  OBVIOUS
<1> QED
  BY <1>1, IsConcat, ZenonT(40)

LEMMA Join42 ==
  ASSUME NEW a \in Int, NEW b \in Int, NEW c \in Int, NEW d \in Int, NEW e \in Int, NEW f \in Int
  PROVE  <<a, b, c, d>> \o <<e, f>> = <<a, b, c, d, e, f>>
<1>1. /\ <<a, b, c, d>> \in Seq(Int) /\ <<e, f>> \in Seq(Int) /\ <<a, b, c, d, e, f>> \in Seq(Int)
      /\ Len(<<a, b, c, d, e, f>>) = Len(<<a, b, c, d>>) + Len(<<e, f>>)
      /\ \A i \in 1 .. Len(<<a, b, c, d>>) : <<a, b, c, d, e, f>>[i] = <<a, b, c, d>>[i]
      /\ \A i \in 1 .. Len(<<e, f>>) : <<a, b, c, d, e, f>>[Len(<<a, b, c, d>>) + i] = <<e, f>>[i]
  OBVIOUS
<1> QED
  BY <1>1, IsConcat, ZenonT(40)

LEMMA Join41 ==
  ASSUME NEW a \in Int, NEW b \in Int, NEW c \in Int, NEW d \in Int, NEW e \in Int
  PROVE  <<a, b, c, d>> \o <<e>> = <<a, b, c, d, e>>
<1>1. /\ <<a, b, c, d>> \in Seq(Int) /\ <<e>> \in Seq(Int) /\ <<a, b, c, d, e>> \in Seq(Int)
      /\ Len(<<a, b, c, d, e>>) = Len(<<a, b, c, d>>) + Len(<<e>>)
      /\ \A i \in 1 .. Len(<<a, b, c, d>>) : <<a, b, c, d, e>>[i] = <<a, b, c, d>>[i]
      /\ \A i \in 1 .. Len(<<e>>) : <<a, b, c, d, e>>[Len(<<a, b, c, d>>) + i] = <<e>>[i]
  OBVIOUS
<1> QED
  BY <1>1, IsConcat, ZenonT(40)

LEMMA Join22 ==
  ASSUME NEW a \in Int, NEW b \in Int, NEW c \in Int, NEW d \in Int
  PROVE  <<a, b>> \o <<c, d>> = <<a, b, c, d>>
<1>1. /\ <<a, b>> \in Seq(Int) /\ <<c, d>> \in Seq(Int) /\ <<a, b, c, d>> \in Seq(Int)
      /\ Len(<<a, b, c, d>>) = Len(<<a, b>>) + Len(<<c, d>>)
      /\ \A i \in 1 .. Len(<<a, b>>) : <<a, b, c, d>>[i] = <<a, b>>[i]
      /\ \A i \in 1 .. Len(<<c, d>>) : <<a, b, c, d>>[Len(<<a, b>>) + i] = <<c, d>>[i]
  OBVIOUS
<1> QED
  BY <1>1, IsConcat, ZenonT(40)

LEMMA Join34 ==
  ASSUME NEW a \in Int, NEW b \in Int, NEW c \in Int, NEW d \in Int, NEW e \in Int, NEW f \in Int, NEW g \in Int
  PROVE  <<a, b, c>> \o <<d, e, f, g>> = <<a, b, c, d, e, f, g>>
<1>1. /\ <<a, b, c>> \in Seq(Int) /\ <<d, e, f, g>> \in Seq(Int) /\ <<a, b, c, d, e, f, g>> \in Seq(Int)
      /\ Len(<<a, b, c, d, e, f, g>>) = Len(<<a, b, c>>) + Len(<<d, e, f, g>>)
      /\ \A i \in 1 .. Len(<<a, b, c>>) : <<a, b, c, d, e, f, g>>[i] = <<a, b, c>>[i]
      /\ \A i \in 1 .. Len(<<d, e, f, g>>) : <<a, b, c, d, e, f, g>>[Len(<<a, b, c>>) + i] = <<d, e, f, g>>[i]
  OBVIOUS
<1> QED
  BY <1>1, IsConcat, ZenonT(40)

LEMMA Join32 ==
  ASSUME NEW a \in Int, NEW b \in Int, NEW c \in Int, NEW d \in Int, NEW e \in Int
  PROVE  <<a, b, c>> \o <<d, e>> = <<a, b, c, d, e>>
<1>1. /\ <<a, b, c>> \in Seq(Int) /\ <<d, e>> \in Seq(Int) /\ <<a, b, c, d, e>> \in Seq(Int)
      /\ Len(<<a, b, c, d, e>>) = Len(<<a, b, c>>) + Len(<<d, e>>)
      /\ \A i \in 1 .. Len(<<a, b, c>>) : <<a, b, c, d, e>>[i] = <<a, b, c>>[i]
      /\ \A i \in 1 .. Len(<<d, e>>) : <<a, b, c, d, e>>[Len(<<a, b, c>>) + i] = <<d, e>>[i]
  OBVIOUS
<1> QED
  BY <1>1, IsConcat, ZenonT(40)

-----------------------------------------------------------------------------
(* Framing: the bytes of the headers.                                      *)

LEMMA Bytes ==
  ASSUME NEW n \in Nat
  PROVE  /\ ANT_U8(n) = n % 256 /\ ANT_U8(n) \in 0 .. 255
         /\ n <= 255 => ANT_U8(n) = n /\ n \div 256 = 0 /\ ANT_U8(n + 1) # n
<1>1. 2^8 = 256
  OBVIOUS
<1> QED
  BY <1>1 DEF ANT_U8

LEMMA LittleEndian ==
  ASSUME NEW n \in 0 .. 255
  PROVE  ANT_UTILS_StoreLE16(n) = <<n, 0>>
<1>1. 2^8 = 256
  OBVIOUS
<1>2. ANT_U8(n) = n /\ n \div 2^8 = 0 /\ ANT_U8(0) = 0
  BY <1>1, Bytes
<1> QED
  BY <1>2 DEF ANT_UTILS_StoreLE16

\* Opcode and vendor code of the chips, byte by byte.
LEMMA Codes ==
  /\ ANT_UTILS_StoreLE16(64977) = <<209, 253>>
  /\ ANT_UTILS_StoreLE16(64748) = <<236, 252>>
  /\ ANT_UTILS_StoreLE16(1280) = <<0, 5>>
  BY DEF ANT_UTILS_StoreLE16, ANT_U8

LEMMA CommandHeaders ==
  ASSUME NEW n \in 0 .. 255
  PROVE  /\ create_command_header("WL12XX", n) = <<1, 209, 253, ANT_U8(n + 2), n, 0>>
         /\ create_command_header("BCM433X", n) = <<1, 236, 252, ANT_U8(n + 1), 255>>
<1>1. PICK k \in Int : k = ANT_U8(n + 2)
  BY Bytes
<1>2. PICK l \in Int : l = ANT_U8(n + 1)
  BY Bytes
<1>3. create_command_header("WL12XX", n) = <<1, 209, 253, k, n, 0>>
  <2>1. <<1>> \o <<209, 253>> = <<1, 209, 253>>
    BY Join12
  <2>2. <<1, 209, 253>> \o <<k>> = <<1, 209, 253, k>>
    BY Join31
  <2>3. <<1, 209, 253, k>> \o <<n, 0>> = <<1, 209, 253, k, n, 0>>
    BY Join42
  <2>4. create_command_header("WL12XX", n)
          = ((<<1>> \o <<209, 253>>) \o <<k>>) \o <<n, 0>>
    <3>1. /\ ANT_COMMAND_OPCODE("WL12XX") = 64977
          /\ HCI_COMMAND_VENDOR_HDR_SIZE("WL12XX") = 2
      BY DEF ANT_COMMAND_OPCODE, HCI_COMMAND_VENDOR_HDR_SIZE
    <3>2. ANT_UTILS_StoreLE16(64977) = <<209, 253>>
      BY Codes
    <3>3. ANT_UTILS_StoreLE16(ANT_COMMAND_OPCODE("WL12XX")) = <<209, 253>>
      BY <3>1, <3>2
    <3>4. ANT_U8(n + HCI_COMMAND_VENDOR_HDR_SIZE("WL12XX")) = k
      BY <1>1, <3>1
    <3>5. ANT_UTILS_StoreLE16(n) = <<n, 0>>
      BY LittleEndian
    <3> QED
      BY <3>3, <3>4, <3>5, ZenonT(40) DEF create_command_header, HCI_COMMAND_PKT
  <2> QED
    BY <2>1, <2>2, <2>3, <2>4
<1>4. create_command_header("BCM433X", n) = <<1, 236, 252, l, 255>>
  <2>1. <<1>> \o <<236, 252>> = <<1, 236, 252>>
    BY Join12
  <2>2. <<1, 236, 252>> \o <<l>> = <<1, 236, 252, l>>
    BY Join31
  <2>3. <<1, 236, 252, l>> \o <<255>> = <<1, 236, 252, l, 255>>
    BY Join41
  <2>4. create_command_header("BCM433X", n)
          = ((<<1>> \o <<236, 252>>) \o <<l>>) \o <<255>>
    <3>1. /\ ANT_COMMAND_OPCODE("BCM433X") = 64748
          /\ HCI_COMMAND_VENDOR_HDR_SIZE("BCM433X") = 1
      BY DEF ANT_COMMAND_OPCODE, HCI_COMMAND_VENDOR_HDR_SIZE
    <3>2. ANT_UTILS_StoreLE16(64748) = <<236, 252>>
      BY Codes
    <3>3. ANT_UTILS_StoreLE16(ANT_COMMAND_OPCODE("BCM433X")) = <<236, 252>>
      BY <3>1, <3>2
    <3>4. ANT_U8(n + HCI_COMMAND_VENDOR_HDR_SIZE("BCM433X")) = l
      BY <1>2, <3>1
    <3> QED
      BY <3>3, <3>4, ZenonT(40) DEF create_command_header, HCI_COMMAND_PKT, COMMAND_ID_PADDING
  <2> QED
    BY <2>1, <2>2, <2>3, <2>4
<1> QED
  BY <1>1, <1>2, <1>3, <1>4

LEMMA EventHeaders ==
  ASSUME NEW n \in 0 .. 255
  PROVE  /\ ChipEvent("WL12XX", n)
               = [header |-> <<4, 255, 4 + n, 0, 5, n, 0>>, payload |-> n]
         /\ ChipEvent("BCM433X", n)
               = [header |-> <<4, 255, 2 + n, 45, 0>>, payload |-> n]
<1>1. <<0, 5>> \o <<n, 0>> = <<0, 5, n, 0>> /\ Len(<<0, 5, n, 0>>) = 4 /\ Len(<<45, 0>>) = 2
  BY Join22
<1>2. <<4, 255, 4 + n>> \o <<0, 5, n, 0>> = <<4, 255, 4 + n, 0, 5, n, 0>>
  BY Join34
<1>3. <<4, 255, 2 + n>> \o <<45, 0>> = <<4, 255, 2 + n, 45, 0>>
  BY Join32
<1>4. ChipEvent("BCM433X", n) = [header |-> <<4, 255, 2 + n>> \o <<45, 0>>, payload |-> n]
  BY <1>1 DEF ChipEvent, HCI_EVENT_PKT, EVT_VENDOR, ANT_EVENT_VENDOR_CODE
<1>5. ANT_UTILS_StoreLE16(n) = <<n, 0>>
  BY LittleEndian
<1>6. ChipEvent("WL12XX", n)
        = [header |-> <<4, 255, 4 + n>> \o <<0, 5, n, 0>>, payload |-> n]
  <2>1. ANT_EVENT_VENDOR_CODE("WL12XX") = 1280
    BY DEF ANT_EVENT_VENDOR_CODE
  <2>2. ANT_UTILS_StoreLE16(ANT_EVENT_VENDOR_CODE("WL12XX")) = <<0, 5>>
    <3>1. ANT_UTILS_StoreLE16(1280) = <<0, 5>>
      BY Codes
    <3> QED
      BY <2>1, <3>1
  <2> QED
    BY <1>1, <1>5, <2>2, ZenonT(40) DEF ChipEvent, HCI_EVENT_PKT, EVT_VENDOR
<1> QED
  BY <1>2, <1>3, <1>4, <1>6

-----------------------------------------------------------------------------
(* Framing: what either side makes of a header.                            *)

\* What the four back-ends write for a message of k bytes.
LEMMA FrameVfs ==
  ASSUME NEW type \in PacketTypes, NEW k \in 0 .. 255
  PROVE  /\ Written("vfs", type, k).header = <<k>>
         /\ Written("vfs", type, k).written = ANT_U8(k + 1)
<1>1. 0 + k + 1 = k + 1
  OBVIOUS
<1> QED
  BY <1>1 DEF Written, Chardev, TxFrame, HCI_PACKET_TYPE_SIZE

LEMMA FrameBt ==
  ASSUME NEW type \in PacketTypes, NEW k \in 0 .. 255
  PROVE  /\ Written("bt", type, k).header = <<type, k>>
         /\ Written("bt", type, k).written = ANT_U8(k + 2)
<1>1. 1 + k + 1 = k + 2
  OBVIOUS
<1> QED
  BY <1>1 DEF Written, Chardev, TxFrame, HCI_PACKET_TYPE_SIZE

\* The headers of the two HCI commands.
CommandWL12XX(k) == <<1, 209, 253, ANT_U8(k + 2), k, 0>>
CommandBCM433X(k) == <<1, 236, 252, ANT_U8(k + 1), 255>>

LEMMA FrameWL12XX ==
  ASSUME NEW type \in PacketTypes, NEW k \in 0 .. 255
  PROVE  /\ Written("WL12XX", type, k).header = CommandWL12XX(k)
         /\ Written("WL12XX", type, k).written = 6 + k
<1>1. Len(CommandWL12XX(k)) = 6
  BY DEF CommandWL12XX
<1>2. create_command_header("WL12XX", k) = CommandWL12XX(k)
  BY CommandHeaders, ZenonT(40) DEF CommandWL12XX
<1>3. /\ Written("WL12XX", type, k).header = create_command_header("WL12XX", k)
      /\ Written("WL12XX", type, k).written = Len(create_command_header("WL12XX", k)) + k
  BY DEF Written, Chardev, HciCommand
<1> QED
  BY <1>1, <1>2, <1>3

LEMMA FrameBCM433X ==
  ASSUME NEW type \in PacketTypes, NEW k \in 0 .. 255
  PROVE  /\ Written("BCM433X", type, k).header = CommandBCM433X(k)
         /\ Written("BCM433X", type, k).written = 5 + k
<1>1. Len(CommandBCM433X(k)) = 5
  BY DEF CommandBCM433X
<1>2. create_command_header("BCM433X", k) = CommandBCM433X(k)
  BY CommandHeaders, ZenonT(40) DEF CommandBCM433X
<1>3. /\ Written("BCM433X", type, k).header = create_command_header("BCM433X", k)
      /\ Written("BCM433X", type, k).written = Len(create_command_header("BCM433X", k)) + k
  BY DEF Written, Chardev, HciCommand
<1> QED
  BY <1>1, <1>2, <1>3

LEMMA HeaderBytes ==
  ASSUME NEW b \in Builds, NEW type \in PacketTypes, NEW k \in 0 .. 255
  PROVE  Written(b, type, k).header \in Seq(0 .. 255)
<1>1. CASE b = "vfs"
  <2>1. Written("vfs", type, k).header = <<k>>
    BY FrameVfs
  <2>2. <<k>> \in Seq(0 .. 255)
    OBVIOUS
  <2> QED
    BY <1>1, <2>1, <2>2, ZenonT(40)
<1>2. CASE b = "bt"
  <2>1. Written("bt", type, k).header = <<type, k>>
    BY FrameBt
  <2>2. <<type, k>> \in Seq(0 .. 255)
    BY DEF PacketTypes, ANT_CMD_TYPE_PACKET, ANT_DATA_TYPE_PACKET
  <2> QED
    BY <1>2, <2>1, <2>2, ZenonT(40)
<1>3. CASE b = "WL12XX"
  <2>1. Written("WL12XX", type, k).header = CommandWL12XX(k)
    BY FrameWL12XX
  <2>2. ANT_U8(k + 2) \in 0 .. 255
    BY Bytes
  <2>3. CommandWL12XX(k) \in Seq(0 .. 255)
    BY <2>2 DEF CommandWL12XX
  <2>4. Written("WL12XX", type, k).header \in Seq(0 .. 255)
    BY <2>1, <2>3
  <2> QED
    BY <1>3, <2>4
<1>4. CASE b = "BCM433X"
  <2>1. Written("BCM433X", type, k).header = CommandBCM433X(k)
    BY FrameBCM433X
  <2>2. ANT_U8(k + 1) \in 0 .. 255
    BY Bytes
  <2>3. CommandBCM433X(k) \in Seq(0 .. 255)
    BY <2>2 DEF CommandBCM433X
  <2>4. Written("BCM433X", type, k).header \in Seq(0 .. 255)
    BY <2>1, <2>3
  <2> QED
    BY <1>4, <2>4
<1> QED
  BY <1>1, <1>2, <1>3, <1>4 DEF Builds

LEMMA FrameRead ==
  ASSUME NEW b \in Builds, NEW type \in PacketTypes, NEW n \in Nat, n <= LargestTx(b)
  PROVE  ChipReads(b, Written(b, type, ANT_U8(n))) = n
<1>1. n \in 0 .. 254
  BY DEF LargestTx, Builds, Chardev, HCI_PACKET_TYPE_SIZE, HCI_COMMAND_VENDOR_HDR_SIZE
<1>2. SUFFICES ChipReads(b, Written(b, type, n)) = n
  <2>1. ANT_U8(n) = n
    BY <1>1, Bytes
  <2> QED
    BY <1>2, <2>1
<1>3. n \in 0 .. 255
  BY <1>1
<1>4. CASE b = "vfs"
  <2>1. ANT_U8(n + 1) = n + 1
    BY <1>1, Bytes
  <2>2. Written(b, type, n).header = <<n>> /\ Written(b, type, n).written = n + 1
    <3>1. Written("vfs", type, n).header = <<n>> /\ Written("vfs", type, n).written = ANT_U8(n + 1)
      BY <1>3, FrameVfs
    <3> QED
      BY <1>4, <2>1, <3>1, ZenonT(40)
  <2>3. Len(<<n>>) = 1 /\ <<n>>[1] = n /\ 1 + n = n + 1
    OBVIOUS
  <2> QED
    BY <1>4, <2>2, <2>3 DEF ChipReads, Chardev
<1>5. CASE b = "bt"
  <2>1. n + 2 <= 255
    BY <1>1, <1>5 DEF LargestTx, Chardev, HCI_PACKET_TYPE_SIZE
  <2>2. ANT_U8(n + 2) = n + 2
    BY <1>1, <2>1, Bytes
  <2>3. Written(b, type, n).header = <<type, n>> /\ Written(b, type, n).written = n + 2
    <3>1. Written("bt", type, n).header = <<type, n>> /\ Written("bt", type, n).written = ANT_U8(n + 2)
      BY <1>3, FrameBt
    <3> QED
      BY <1>5, <2>2, <3>1, ZenonT(40)
  <2>4. Len(<<type, n>>) = 2 /\ <<type, n>>[2] = n /\ 2 + n = n + 2
    OBVIOUS
  <2> QED
    BY <1>5, <2>3, <2>4 DEF ChipReads, Chardev
<1>6. CASE b = "WL12XX"
  <2>1. n + 2 <= 255
    BY <1>1, <1>6 DEF LargestTx, Chardev, HCI_COMMAND_VENDOR_HDR_SIZE
  <2>2. ANT_U8(n + 2) = n + 2
    BY <1>1, <2>1, Bytes
  <2>3. PICK h : h = <<1, 209, 253, n + 2, n, 0>>
    OBVIOUS
  <2>4. Written(b, type, n).header = h /\ Written(b, type, n).written = 6 + n
    <3>1. /\ Written("WL12XX", type, n).header = CommandWL12XX(n)
          /\ Written("WL12XX", type, n).written = 6 + n
      BY <1>3, FrameWL12XX
    <3> QED
      BY <1>6, <2>2, <2>3, <3>1 DEF CommandWL12XX
  <2>5. Len(h) = 6 /\ h[4] = n + 2 /\ h[5] = n /\ h[5 + 1] = 0
    BY <2>3
  <2>6. ANT_UTILS_LEtoHost16(h, 5) = n
    BY <1>1, <2>5 DEF ANT_UTILS_LEtoHost16
  <2>7. HCI_COMMAND_VENDOR_HDR_SIZE(b) = 2 /\ b \notin Chardev /\ (n + 2) - 2 = n
    BY <1>6 DEF HCI_COMMAND_VENDOR_HDR_SIZE, Chardev
  <2> QED
    BY <2>4, <2>5, <2>6, <2>7 DEF ChipReads
<1>7. CASE b = "BCM433X"
  <2>1. ANT_U8(n + 1) = n + 1
    BY <1>1, Bytes
  <2>2. PICK h : h = <<1, 236, 252, n + 1, 255>>
    OBVIOUS
  <2>3. Written(b, type, n).header = h /\ Written(b, type, n).written = 5 + n
    <3>1. /\ Written("BCM433X", type, n).header = CommandBCM433X(n)
          /\ Written("BCM433X", type, n).written = 5 + n
      BY <1>3, FrameBCM433X
    <3> QED
      BY <1>7, <2>1, <2>2, <3>1 DEF CommandBCM433X
  <2>4. Len(h) = 5 /\ h[4] = n + 1 /\ (n + 1) - 1 = n
    BY <2>2
  <2>5. HCI_COMMAND_VENDOR_HDR_SIZE(b) = 1 /\ b \notin Chardev /\ b # "WL12XX"
    BY <1>7 DEF HCI_COMMAND_VENDOR_HDR_SIZE, Chardev
  <2> QED
    BY <2>3, <2>4, <2>5 DEF ChipReads
<1> QED
  BY <1>4, <1>5, <1>6, <1>7 DEF Builds

LEMMA Overheads ==
  /\ HCI_EVENT_TOTAL_OVERHEAD("WL12XX") = 7 /\ HCI_EVENT_TOTAL_OVERHEAD("BCM433X") = 5
  /\ LargestRx("WL12XX") = 251 /\ LargestRx("BCM433X") = 253
  BY DEF HCI_EVENT_TOTAL_OVERHEAD, HCI_EVENT_HEADER_OVERHEAD, HCI_EVENT_VENDOR_HDR_SIZE,
         LargestRx, Chardev

\* What the checks of either chip's events come to, for the header h of a packet
\* with l bytes behind it.
WL12XXAccepts(h, l) ==
  /\ h[1] = 4 /\ h[2] = 255 /\ h[3] = l + 4
  /\ h[5] * 256 + h[4] = 1280
  /\ h[7] * 256 + h[6] = l

BCM433XAccepts(h, l) == h[1] = 4 /\ h[2] = 255 /\ h[3] = l + 2 /\ h[4] = 45

\* Given a whole header ...
LEMMA CheckWL12XX ==
  ASSUME NEW f, NEW l \in Nat, f.payload = l, Len(f.header) = 7,
         \A i \in 1 .. 7 : f.header[i] \in Nat
  PROVE  validate_hci_event_packet("WL12XX", f) =
           IF WL12XXAccepts(f.header, l) THEN l ELSE -1
<1>1. 2^8 = 256
  OBVIOUS
<1>2. PICK h3 \in Nat, h6 \in Nat, h7 \in Nat :
        h3 = f.header[3] /\ h6 = f.header[6] /\ h7 = f.header[7]
  OBVIOUS
<1>3. /\ ANT_UTILS_LEtoHost16(f.header, 4) = f.header[5] * 256 + f.header[4]
      /\ ANT_UTILS_LEtoHost16(f.header, 6) = h7 * 256 + h6
  BY <1>1, <1>2 DEF ANT_UTILS_LEtoHost16
<1>4. /\ 7 + l >= 7 /\ (7 + l) - 7 = l
      /\ 7 + l = h3 + 3 <=> h3 = l + 4
      /\ 7 + l = h7 * 256 + h6 + 7 <=> h7 * 256 + h6 = l
  OBVIOUS
<1> QED
  BY <1>2, <1>3, <1>4, Overheads
     DEF validate_hci_event_packet, validate_hci_event_vendor, HCI_EVENT_PKT, EVT_VENDOR,
         HCI_EVENT_HEADER_OVERHEAD, ANT_EVENT_VENDOR_CODE,
         WL12XXAccepts

LEMMA CheckBCM433X ==
  ASSUME NEW f, NEW l \in Nat, f.payload = l, Len(f.header) = 5,
         \A i \in 1 .. 5 : f.header[i] \in Nat
  PROVE  validate_hci_event_packet("BCM433X", f) =
           IF BCM433XAccepts(f.header, l) THEN l ELSE -1
<1>1. PICK h3 \in Nat : h3 = f.header[3]
  OBVIOUS
<1>2. /\ 5 + l >= 5 /\ (5 + l) - 5 = l
      /\ 5 + l = h3 + 3 <=> h3 = l + 2
  OBVIOUS
<1> QED
  BY <1>1, <1>2, Overheads
     DEF validate_hci_event_packet, validate_hci_event_vendor, HCI_EVENT_PKT, EVT_VENDOR,
         HCI_EVENT_HEADER_OVERHEAD, ANT_EVENT_VENDOR_CODE,
         BCM433XAccepts

\* ... and given less.
LEMMA CheckShort ==
  ASSUME NEW b, NEW f, NEW k \in Nat, Len(f.header) = k, f.payload = 0,
         (b = "WL12XX" /\ k < 7) \/ (b = "BCM433X" /\ k < 5)
  PROVE  validate_hci_event_packet(b, f) = -1
<1>1. ~(k + 0 >= HCI_EVENT_TOTAL_OVERHEAD(b))
  BY Overheads
<1> QED
  BY <1>1 DEF validate_hci_event_packet

LEMMA EventFields ==
  ASSUME NEW n \in 0 .. 255
  PROVE  /\ ChipEvent("WL12XX", n).header = <<4, 255, 4 + n, 0, 5, n, 0>>
         /\ ChipEvent("WL12XX", n).payload = n
         /\ ChipEvent("BCM433X", n).header = <<4, 255, 2 + n, 45, 0>>
         /\ ChipEvent("BCM433X", n).payload = n
<1>1. ASSUME NEW r, NEW h, NEW l, r = [header |-> h, payload |-> l]
      PROVE  r.header = h /\ r.payload = l
  BY <1>1
<1>2. PICK h : h = <<4, 255, 4 + n, 0, 5, n, 0>>
  OBVIOUS
<1>3. PICK g : g = <<4, 255, 2 + n, 45, 0>>
  OBVIOUS
<1>4. /\ ChipEvent("WL12XX", n) = [header |-> h, payload |-> n]
      /\ ChipEvent("BCM433X", n) = [header |-> g, payload |-> n]
  <2>1. ChipEvent("WL12XX", n) = [header |-> <<4, 255, 4 + n, 0, 5, n, 0>>, payload |-> n]
    BY EventHeaders
  <2>2. ChipEvent("BCM433X", n) = [header |-> <<4, 255, 2 + n, 45, 0>>, payload |-> n]
    BY EventHeaders
  <2> QED
    BY <1>2, <1>3, <2>1, <2>2, ZenonT(40)
<1>5. /\ ChipEvent("WL12XX", n).header = h /\ ChipEvent("WL12XX", n).payload = n
      /\ ChipEvent("BCM433X", n).header = g /\ ChipEvent("BCM433X", n).payload = n
  BY <1>1, <1>4, ZenonT(40)
<1> QED
  BY <1>2, <1>3, <1>5

LEMMA NextByte ==
  ASSUME NEW n \in 0 .. 255
  PROVE  ANT_U8(n + 1) \in Nat /\ ANT_U8(n + 1) # n
<1>1. ANT_U8(n + 1) \in 0 .. 255
  BY Bytes
<1>2. ANT_U8(n + 1) # n
  BY Bytes
<1> QED
  BY <1>1, <1>2

\* Header g is header h with another byte in place i ...
OtherByte(g, h, i) == g = [h EXCEPT ![i] = ANT_U8(h[i] + 1)]

\* ... and so different from it there and nowhere else.
DiffersAt(g, h, i) ==
  /\ \A j \in DOMAIN h : g[j] \in Nat
  /\ g[i] # h[i]
  /\ \A j \in DOMAIN h \ {i} : g[j] = h[j]

AllBytes(h) == \A j \in DOMAIN h : h[j] \in 0 .. 255

LEMMA ByteChanged ==
  ASSUME NEW h, NEW g, NEW i, AllBytes(h), i \in DOMAIN h, OtherByte(g, h, i)
  PROVE  DiffersAt(g, h, i)
<1>1. PICK a : a = h[i]
  OBVIOUS
<1>2. PICK c : c = ANT_U8(a + 1)
  OBVIOUS
<1>3. a \in 0 .. 255
  BY <1>1 DEF AllBytes
<1>4. c \in Nat /\ c # a
  BY <1>2, <1>3, NextByte
<1>5. g = [h EXCEPT ![i] = c]
  BY <1>1, <1>2 DEF OtherByte
<1>6. \A j \in DOMAIN h : h[j] \in Nat
  BY DEF AllBytes
<1> QED
  BY <1>1, <1>4, <1>5, <1>6 DEF DiffersAt

\* The chip's event is taken for what it carries ...
LEMMA EventRead ==
  ASSUME NEW b \in {"WL12XX", "BCM433X"}, NEW n \in Nat, n <= LargestRx(b)
  PROVE  validate_hci_event_packet(b, ChipEvent(b, n)) = n
<1>1. CASE b = "WL12XX"
  <2>1. n \in 0 .. 255 /\ n <= 251
    BY <1>1, Overheads
  <2>2. PICK f : f = ChipEvent("WL12XX", n)
    OBVIOUS
  <2>3. PICK h : h = <<4, 255, 4 + n, 0, 5, n, 0>>
    OBVIOUS
  <2>4. f.header = h /\ f.payload = n
    BY <2>1, <2>2, <2>3, EventFields
  <2>5. /\ Len(h) = 7 /\ \A i \in 1 .. 7 : h[i] \in Nat
        /\ h[1] = 4 /\ h[2] = 255 /\ h[3] = 4 + n /\ h[4] = 0 /\ h[5] = 5 /\ h[6] = n /\ h[7] = 0
    BY <2>3
  <2>6. Len(f.header) = 7 /\ \A i \in 1 .. 7 : f.header[i] \in Nat
    BY <2>4, <2>5
  <2>7. WL12XXAccepts(f.header, n)
    BY <2>4, <2>5 DEF WL12XXAccepts
  <2>8. validate_hci_event_packet("WL12XX", f) = n
    BY <2>4, <2>6, <2>7, CheckWL12XX
  <2> QED
    BY <1>1, <2>2, <2>8
<1>2. CASE b = "BCM433X"
  <2>1. n \in 0 .. 255
    BY <1>2, Overheads
  <2>2. PICK f : f = ChipEvent("BCM433X", n)
    OBVIOUS
  <2>3. PICK h : h = <<4, 255, 2 + n, 45, 0>>
    OBVIOUS
  <2>4. f.header = h /\ f.payload = n
    BY <2>1, <2>2, <2>3, EventFields
  <2>5. /\ Len(h) = 5 /\ \A i \in 1 .. 5 : h[i] \in Nat
        /\ h[1] = 4 /\ h[2] = 255 /\ h[3] = 2 + n /\ h[4] = 45
    BY <2>3
  <2>6. Len(f.header) = 5 /\ \A i \in 1 .. 5 : f.header[i] \in Nat
    BY <2>4, <2>5
  <2>7. BCM433XAccepts(f.header, n)
    BY <2>4, <2>5 DEF BCM433XAccepts
  <2>8. validate_hci_event_packet("BCM433X", f) = n
    BY <2>4, <2>6, <2>7, CheckBCM433X
  <2> QED
    BY <1>2, <2>2, <2>8
<1> QED
  BY <1>1, <1>2

\* ... and with one byte wrong, too long or cut short it is dropped.
LEMMA ForeignWL12XX ==
  ASSUME build = "WL12XX", NEW n \in 0 .. 251, NEW f \in Foreign(ChipEvent("WL12XX", n))
  PROVE  validate_hci_event_packet("WL12XX", f) = -1
<1>1. PICK p : p = ChipEvent("WL12XX", n)
  OBVIOUS
<1>2. PICK h : h = <<4, 255, 4 + n, 0, 5, n, 0>>
  OBVIOUS
<1>3. p = [header |-> h, payload |-> n]
  <2>1. n \in 0 .. 255
    OBVIOUS
  <2> QED
    BY <1>1, <1>2, <2>1, EventHeaders
<1>4. \A i \in 1 .. 7 : h[i] \in 0 .. 255 /\ h[i] \in Nat
  BY <1>2
<1>5. /\ h \in Seq(Nat) /\ Len(h) = 7 /\ DOMAIN h = 1 .. 7
      /\ h[1] = 4 /\ h[2] = 255 /\ h[3] = 4 + n /\ h[4] = 0 /\ h[5] = 5 /\ h[6] = n /\ h[7] = 0
  BY <1>2
<1>6. \/ \E i \in 1 .. 7 : f = [p EXCEPT !.header[i] = ANT_U8(@ + 1)]
      \/ f = [p EXCEPT !.payload = @ + 1]
      \/ \E k \in 0 .. Len(h) - 1 : f = [header |-> SubSeq(h, 1, k), payload |-> 0]
  <2>1. DOMAIN p.header \ (IF build = "BCM433X" THEN {5} ELSE {}) = 1 .. 7
    BY <1>3, <1>5
  <2>2. p.header = h
    BY <1>3
  <2>3. f \in Foreign(p)
    BY <1>1
  <2> QED
    BY <2>1, <2>2, <2>3 DEF Foreign
<1>7. ASSUME NEW i \in 1 .. 7, f = [p EXCEPT !.header[i] = ANT_U8(@ + 1)]
      PROVE  validate_hci_event_packet("WL12XX", f) = -1
  <2>1. f.header = [h EXCEPT ![i] = ANT_U8(h[i] + 1)] /\ f.payload = n
    BY <1>3, <1>7
  <2>2. PICK g : g = f.header
    OBVIOUS
  <2>3. DOMAIN h = 1 .. 7 /\ \A j \in 1 .. 7 : h[j] \in 0 .. 255
    BY <1>4, <1>5
  <2>4. g = [h EXCEPT ![i] = ANT_U8(h[i] + 1)] /\ i \in 1 .. 7
    BY <2>1, <2>2
  <2>5. /\ \A j \in 1 .. 7 : g[j] \in Nat
        /\ g[i] # h[i] /\ \A j \in 1 .. 7 \ {i} : g[j] = h[j]
    <3>1. AllBytes(h) /\ i \in DOMAIN h
      BY <2>3, <2>4, ZenonT(40) DEF AllBytes
    <3>2. OtherByte(g, h, i)
      BY <2>4 DEF OtherByte
    <3>3. DiffersAt(g, h, i)
      BY <3>1, <3>2, ByteChanged
    <3> QED
      BY <2>3, <3>3, ZenonT(40) DEF DiffersAt
  <2>6. Len(g) = 7 /\ \A j \in 1 .. 7 : g[j] \in Nat
    BY <1>5, <2>4, <2>5
  <2>7. ~ WL12XXAccepts(g, n)
    <3>1. CASE i \in {1, 2, 3}
      <4>1. h[1] = 4 /\ h[2] = 255 /\ h[3] = 4 + n
        BY <1>5
      <4>2. g[i] # h[i]
        BY <2>5
      <4>3. ~ (g[1] = 4 /\ g[2] = 255 /\ g[3] = n + 4)
        BY <3>1, <4>1, <4>2
      <4> QED
        BY <4>3 DEF WL12XXAccepts
    <3>2. CASE i \in {4, 5}
      <4>1. g[4] \in Nat /\ g[5] \in Nat
        BY <2>6
      <4>2. h[4] = 0 /\ h[5] = 5
        BY <1>5
      <4>3. CASE i = 4
        <5>1. g[4] # 0 /\ g[5] = 5
          BY <2>5, <4>2, <4>3
        <5> QED
          BY <4>1, <5>1 DEF WL12XXAccepts
      <4>4. CASE i = 5
        <5>1. g[4] = 0 /\ g[5] # 5
          BY <2>5, <4>2, <4>4
        <5> QED
          BY <4>1, <5>1 DEF WL12XXAccepts
      <4> QED
        BY <3>2, <4>3, <4>4
    <3>3. CASE i \in {6, 7}
      <4>1. g[6] \in Nat /\ g[7] \in Nat
        BY <2>6
      <4>2. h[6] = n /\ h[7] = 0
        BY <1>5
      <4>3. CASE i = 6
        <5>1. g[6] # n /\ g[7] = 0
          BY <2>5, <4>2, <4>3
        <5> QED
          BY <4>1, <5>1 DEF WL12XXAccepts
      <4>4. CASE i = 7
        <5>1. g[6] = n /\ g[7] # 0
          BY <2>5, <4>2, <4>4
        <5> QED
          BY <4>1, <5>1 DEF WL12XXAccepts
      <4> QED
        BY <3>3, <4>3, <4>4
    <3> QED
      BY <3>1, <3>2, <3>3
  <2>8. f.payload = n /\ Len(f.header) = 7 /\ \A j \in 1 .. 7 : f.header[j] \in Nat
    BY <2>1, <2>2, <2>6
  <2>9. ~ WL12XXAccepts(f.header, n)
    BY <2>2, <2>7
  <2>10. n \in Nat
    OBVIOUS
  <2> QED
    BY <2>8, <2>9, <2>10, CheckWL12XX
<1>8. ASSUME f = [p EXCEPT !.payload = @ + 1]
      PROVE  validate_hci_event_packet("WL12XX", f) = -1
  <2>1. f.header = h /\ f.payload = n + 1
    BY <1>3, <1>8
  <2>2. Len(f.header) = 7 /\ \A i \in 1 .. 7 : f.header[i] \in Nat
    <3>1. \A i \in 1 .. 7 : h[i] \in Nat
      BY <1>4
    <3> QED
      BY <1>5, <2>1, <3>1
  <2>3. PICK l \in Nat : l = n + 1
    OBVIOUS
  <2>4. f.payload = l /\ f.header[3] # l + 4
    BY <1>5, <2>1, <2>3
  <2>5. ~ WL12XXAccepts(f.header, l)
    BY <2>4 DEF WL12XXAccepts
  <2> QED
    BY <2>2, <2>4, <2>5, CheckWL12XX
<1>9. ASSUME NEW k \in 0 .. Len(h) - 1, f = [header |-> SubSeq(h, 1, k), payload |-> 0]
      PROVE  validate_hci_event_packet("WL12XX", f) = -1
  <2>1. k \in Nat /\ k < 7 /\ Len(f.header) = k /\ f.payload = 0
    BY <1>5, <1>9, SubSeqProperties
  <2> QED
    BY <2>1, CheckShort
<1> QED
  BY <1>6, <1>7, <1>8, <1>9

LEMMA ForeignBCM433X ==
  ASSUME build = "BCM433X", NEW n \in 0 .. 253, NEW f \in Foreign(ChipEvent("BCM433X", n))
  PROVE  validate_hci_event_packet("BCM433X", f) = -1
<1>1. PICK p : p = ChipEvent("BCM433X", n)
  OBVIOUS
<1>2. PICK h : h = <<4, 255, 2 + n, 45, 0>>
  OBVIOUS
<1>3. p = [header |-> h, payload |-> n]
  <2>1. n \in 0 .. 255
    OBVIOUS
  <2> QED
    BY <1>1, <1>2, <2>1, EventHeaders
<1>4. \A i \in 1 .. 5 : h[i] \in 0 .. 255 /\ h[i] \in Nat
  BY <1>2
<1>5. /\ h \in Seq(Nat) /\ Len(h) = 5 /\ DOMAIN h = 1 .. 5
      /\ h[1] = 4 /\ h[2] = 255 /\ h[3] = 2 + n /\ h[4] = 45
  BY <1>2
<1>6. \/ \E i \in 1 .. 4 : f = [p EXCEPT !.header[i] = ANT_U8(@ + 1)]
      \/ f = [p EXCEPT !.payload = @ + 1]
      \/ \E k \in 0 .. Len(h) - 1 : f = [header |-> SubSeq(h, 1, k), payload |-> 0]
  <2>1. DOMAIN h \ {5} = 1 .. 4
    BY <1>5
  <2> QED
    BY <1>1, <1>3, <2>1 DEF Foreign
<1>7. ASSUME NEW i \in 1 .. 4, f = [p EXCEPT !.header[i] = ANT_U8(@ + 1)]
      PROVE  validate_hci_event_packet("BCM433X", f) = -1
  <2>1. f.header = [h EXCEPT ![i] = ANT_U8(h[i] + 1)] /\ f.payload = n
    BY <1>3, <1>7
  <2>2. PICK g : g = f.header
    OBVIOUS
  <2>3. DOMAIN h = 1 .. 5 /\ \A j \in 1 .. 5 : h[j] \in 0 .. 255
    BY <1>4, <1>5
  <2>4. g = [h EXCEPT ![i] = ANT_U8(h[i] + 1)] /\ i \in 1 .. 5
    BY <2>1, <2>2
  <2>5. /\ \A j \in 1 .. 5 : g[j] \in Nat
        /\ g[i] # h[i] /\ \A j \in 1 .. 5 \ {i} : g[j] = h[j]
    <3>1. AllBytes(h) /\ i \in DOMAIN h
      BY <2>3, <2>4, ZenonT(40) DEF AllBytes
    <3>2. OtherByte(g, h, i)
      BY <2>4 DEF OtherByte
    <3>3. DiffersAt(g, h, i)
      BY <3>1, <3>2, ByteChanged
    <3> QED
      BY <2>3, <3>3, ZenonT(40) DEF DiffersAt
  <2>6. Len(g) = 5 /\ \A j \in 1 .. 5 : g[j] \in Nat
    BY <1>5, <2>4, <2>5
  <2>7. ~ BCM433XAccepts(g, n)
    BY <1>5, <2>5 DEF BCM433XAccepts
  <2>8. f.payload = n /\ Len(f.header) = 5 /\ \A j \in 1 .. 5 : f.header[j] \in Nat
    BY <2>1, <2>2, <2>6
  <2>9. ~ BCM433XAccepts(f.header, n)
    BY <2>2, <2>7
  <2>10. n \in Nat
    OBVIOUS
  <2> QED
    BY <2>8, <2>9, <2>10, CheckBCM433X
<1>8. ASSUME f = [p EXCEPT !.payload = @ + 1]
      PROVE  validate_hci_event_packet("BCM433X", f) = -1
  <2>1. f.header = h /\ f.payload = n + 1
    BY <1>3, <1>8
  <2>2. Len(f.header) = 5 /\ \A i \in 1 .. 5 : f.header[i] \in Nat
    <3>1. \A i \in 1 .. 5 : h[i] \in Nat
      BY <1>4
    <3> QED
      BY <1>5, <2>1, <3>1
  <2>3. PICK l \in Nat : l = n + 1
    OBVIOUS
  <2>4. f.payload = l /\ f.header[3] # l + 2
    BY <1>5, <2>1, <2>3
  <2>5. ~ BCM433XAccepts(f.header, l)
    BY <2>4 DEF BCM433XAccepts
  <2> QED
    BY <2>2, <2>4, <2>5, CheckBCM433X
<1>9. ASSUME NEW k \in 0 .. Len(h) - 1, f = [header |-> SubSeq(h, 1, k), payload |-> 0]
      PROVE  validate_hci_event_packet("BCM433X", f) = -1
  <2>1. k \in Nat /\ k < 5 /\ Len(f.header) = k /\ f.payload = 0
    BY <1>5, <1>9, SubSeqProperties
  <2> QED
    BY <2>1, CheckShort
<1> QED
  BY <1>6, <1>7, <1>8, <1>9

-----------------------------------------------------------------------------
(* The messages of a behaviour.                                            *)

\* What was written last, and what was made of what was read last.
WireInv ==
  wire = <<>> \/ \E n \in Lengths, type \in PacketTypes :
                   wire.asked = n /\ wire.frame = Written(build, type, ANT_U8(n))

ReceivedInv == received = <<>> \/ (received.len = received.sent /\ received.len \in -1 .. 255)

MessagesInv == build \in Builds /\ WireInv /\ ReceivedInv

LEMMA MessageRead ==
  ASSUME MessagesInv, NEW r \in RxThreads, ReadEvent(r) \/ ReadPacket(r)
  PROVE  MessagesInv'
<1>1. build' = build /\ wire' = wire /\ build \in Builds
  BY DEF ReadEvent, ReadPacket, MessagesInv
<1>2. ASSUME NEW s, NEW l \in -1 .. 255, received' = [sent |-> s, len |-> l], l = s
      PROVE  ReceivedInv'
  BY <1>2 DEF ReceivedInv
<1>3. ASSUME NEW l, l = -1, received' = [sent |-> -1, len |-> l] PROVE ReceivedInv'
  BY <1>3 DEF ReceivedInv
<1>4. ReceivedInv' => MessagesInv'
  BY <1>1 DEF MessagesInv, WireInv
<1>5. CASE ReadPacket(r)
  <2>1. PICK n \in Lengths : n <= LargestRx(build) /\ received' = [sent |-> n, len |-> n]
    BY <1>5 DEF ReadPacket
  <2>2. n \in -1 .. 255
    BY <1>5, <2>1, BoundsAssumption DEF ReadPacket, LargestRx
  <2>3. ReceivedInv'
    BY <1>2, <2>1, <2>2
  <2> QED
    BY <1>4, <2>3
<1>6. CASE ReadEvent(r)
  <2>1. build \in {"WL12XX", "BCM433X"}
    BY <1>1, <1>6 DEF ReadEvent, Builds, Chardev
  <2>2. PICK n \in Lengths :
          /\ n <= LargestRx(build)
          /\ \/ received' = [sent |-> n, len |-> validate_hci_event_packet(build, ChipEvent(build, n))]
             \/ \E f \in Foreign(ChipEvent(build, n)) :
                  received' = [sent |-> -1, len |-> validate_hci_event_packet(build, f)]
    BY <1>6 DEF ReadEvent
  <2>3. n \in Nat /\ n \in 0 .. 253 /\ (build = "WL12XX" => n \in 0 .. 251)
    BY <2>1, <2>2, BoundsAssumption, Overheads
  <2>4. ASSUME received' = [sent |-> n, len |-> validate_hci_event_packet(build, ChipEvent(build, n))]
        PROVE  ReceivedInv'
    <3>1. validate_hci_event_packet(build, ChipEvent(build, n)) = n
      BY <2>1, <2>2, <2>3, EventRead
    <3>2. received' = [sent |-> n, len |-> n] /\ n \in -1 .. 255
      BY <2>3, <2>4, <3>1
    <3> QED
      BY <1>2, <3>2
  <2>5. ASSUME NEW f \in Foreign(ChipEvent(build, n)),
               received' = [sent |-> -1, len |-> validate_hci_event_packet(build, f)]
        PROVE  ReceivedInv'
    <3>1. CASE build = "WL12XX"
      <4>1. f \in Foreign(ChipEvent("WL12XX", n)) /\ n \in 0 .. 251
        BY <2>3, <2>5, <3>1
      <4>2. validate_hci_event_packet("WL12XX", f) = -1
        BY <3>1, <4>1, ForeignWL12XX
      <4> QED
        BY <1>3, <2>5, <3>1, <4>2
    <3>2. CASE build = "BCM433X"
      <4>1. f \in Foreign(ChipEvent("BCM433X", n)) /\ n \in 0 .. 253
        BY <2>3, <2>5, <3>2
      <4>2. validate_hci_event_packet("BCM433X", f) = -1
        BY <3>2, <4>1, ForeignBCM433X
      <4> QED
        BY <1>3, <2>5, <3>2, <4>2
    <3> QED
      BY <2>1, <3>1, <3>2
  <2>6. ReceivedInv'
    BY <2>2, <2>4, <2>5
  <2> QED
    BY <1>4, <2>6
<1> QED
  BY <1>5, <1>6

LEMMA MessagesInvariant == Spec => []MessagesInv
<1>1. Init => MessagesInv
  BY DEF Init, MessagesInv, WireInv, ReceivedInv
<1>2. MessagesInv /\ [Next]_vars => MessagesInv'
  <2> SUFFICES ASSUME MessagesInv, [Next]_vars PROVE MessagesInv'
    OBVIOUS
  <2>1. ASSUME build' = build, wire' = wire, received' = received PROVE MessagesInv'
    BY <2>1 DEF MessagesInv, WireInv, ReceivedInv
  <2>2. CASE UNCHANGED vars
    BY <2>1, <2>2 DEF vars
  <2>3. ASSUME NEW t \in Threads, nativeJAnt_TxMessage(t) PROVE MessagesInv'
    <3>1. PICK n \in Lengths, type \in PacketTypes :
                 wire' = [asked |-> n, frame |-> Written(build, type, ANT_U8(n))]
      BY <2>3 DEF nativeJAnt_TxMessage
    <3>2. build' = build /\ received' = received
      BY <2>3 DEF nativeJAnt_TxMessage
    <3> QED
      BY <3>1, <3>2 DEF MessagesInv, WireInv, ReceivedInv
  <2>4. ASSUME NEW t \in Threads,
               \/ CallNative(t) \/ TxMessageThrows(t)
               \/ NativeReturns(t) \/ JavaCatches(t) \/ JavaReturns(t)
               \/ StateChanges(t) \/ StateAttach(t) \/ StateCallsJava(t) \/ StateReturns(t)
        PROVE  MessagesInv'
    BY <2>1, <2>4 DEF CallNative, TxMessageThrows, NativeReturns, JavaCatches, JavaReturns,
         StateChanges, StateAttach, StateCallsJava, StateReturns
  <2>5. ASSUME NEW t \in Threads,
               RxAttach(t) \/ RxNewByteArray(t) \/ RxCallsJava(t) \/ RxReturns(t) \/ RxCleanUp(t)
        PROVE  MessagesInv'
    BY <2>1, <2>5 DEF RxAttach, RxNewByteArray, RxCallsJava, RxReturns, RxCleanUp
  <2>6. ASSUME NEW r \in RxThreads, RxThreadStarts(r) \/ RxThreadEnds(r) PROVE MessagesInv'
    BY <2>1, <2>6 DEF RxThreadStarts, RxThreadEnds
  <2>7. ASSUME NEW r \in RxThreads, ReadEvent(r) \/ ReadPacket(r) PROVE MessagesInv'
    BY <2>7, MessageRead
  <2> QED
    BY <2>2, <2>3, <2>4, <2>5, <2>6, <2>7 DEF Next
<1> QED
  BY <1>1, <1>2, PTL DEF Spec

\* Whatever the lengths, a message that fits is found by the chip as Java asked for
\* it, in each of the four framings.
THEOREM MessagesSentWhole == Spec => []SentWhole
<1>1. MessagesInv => SentWhole
  <2> SUFFICES ASSUME MessagesInv, wire # <<>>, wire.asked <= LargestTx(build)
               PROVE  ChipReads(build, wire.frame) = wire.asked
    BY DEF SentWhole
  <2>1. PICK n \in Lengths, type \in PacketTypes :
               wire.asked = n /\ wire.frame = Written(build, type, ANT_U8(n))
    BY DEF MessagesInv, WireInv
  <2>2. n \in Nat /\ build \in Builds
    BY BoundsAssumption DEF MessagesInv
  <2>3. ChipReads(build, Written(build, type, ANT_U8(n))) = n
    BY <2>1, <2>2, FrameRead
  <2> QED
    BY <2>1, <2>3
<1> QED
  BY <1>1, MessagesInvariant, PTL

\* What the chip sends reaches Java at its length, and what is not an event of the
\* chip, whichever byte is wrong or missing, does not.
THEOREM MessagesDeliveredWhole == Spec => []DeliveredWhole
<1>1. MessagesInv => DeliveredWhole
  BY DEF MessagesInv, ReceivedInv, DeliveredWhole
<1> QED
  BY <1>1, MessagesInvariant, PTL

\* Both are functions, of whatever domain.
FunctionsInv ==
  stack = [t \in DOMAIN stack |-> stack[t]] /\ attached = [t \in DOMAIN attached |-> attached[t]]

LEMMA FunctionsInvariant == Spec => []FunctionsInv
<1>1. Init => FunctionsInv
  BY DEF Init, FunctionsInv
<1>2. FunctionsInv /\ [Next]_vars => FunctionsInv'
  <2> SUFFICES ASSUME FunctionsInv, [Next]_vars PROVE FunctionsInv'
    OBVIOUS
  <2> USE DEF FunctionsInv, Enter, Leave, GoOn, CallFrom
  <2>1. CASE UNCHANGED vars
    BY <2>1 DEF vars
  <2>2. ASSUME NEW t \in Threads,
               \/ CallNative(t) \/ nativeJAnt_TxMessage(t) \/ TxMessageThrows(t)
               \/ NativeReturns(t) \/ JavaCatches(t) \/ JavaReturns(t)
        PROVE  FunctionsInv'
    BY <2>2 DEF CallNative, nativeJAnt_TxMessage, TxMessageThrows, NativeReturns, JavaCatches,
         JavaReturns
  <2>3. ASSUME NEW t \in Threads,
               StateChanges(t) \/ StateAttach(t) \/ StateCallsJava(t) \/ StateReturns(t)
        PROVE  FunctionsInv'
    BY <2>3 DEF StateChanges, StateAttach, StateCallsJava, StateReturns
  <2>4. ASSUME NEW t \in Threads,
               RxAttach(t) \/ RxNewByteArray(t) \/ RxCallsJava(t) \/ RxReturns(t) \/ RxCleanUp(t)
        PROVE  FunctionsInv'
    BY <2>4 DEF RxAttach, RxNewByteArray, RxCallsJava, RxReturns, RxCleanUp
  <2>5. ASSUME NEW r \in RxThreads,
               RxThreadStarts(r) \/ RxThreadEnds(r) \/ ReadEvent(r) \/ ReadPacket(r)
        PROVE  FunctionsInv'
    BY <2>5 DEF RxThreadStarts, RxThreadEnds, ReadEvent, ReadPacket
  <2> QED
    BY <2>1, <2>2, <2>3, <2>4, <2>5 DEF Next
<1> QED
  BY <1>1, <1>2, PTL DEF Spec

\* Types are as declared: stacks of the frames that there are, headers of bytes.
THEOREM TypeCorrect == Spec => []TypeOK
<1>1. StackInv /\ FunctionsInv /\ PendingInv /\ MessagesInv => TypeOK
  <2> SUFFICES ASSUME StackInv, FunctionsInv, PendingInv, MessagesInv PROVE TypeOK
    OBVIOUS
  <2>1. stack \in [Threads -> Seq(Frames)] /\ attached \in [Threads -> BOOLEAN]
    <3>1. \A t \in Threads : stack[t] \in Seq(Frames) /\ attached[t] \in BOOLEAN
      BY DEF StackInv, Sound, Nested, AttachedBy
    <3> QED
      BY <3>1 DEF StackInv, FunctionsInv
  <2>2. pending \in [Threads -> BOOLEAN]
    BY DEF PendingInv
  <2>3. wire = <<>> \/ wire.frame.header \in Seq(0 .. 255)
    <3>1. ASSUME NEW n \in Lengths, NEW type \in PacketTypes,
                 wire.frame = Written(build, type, ANT_U8(n))
          PROVE  wire.frame.header \in Seq(0 .. 255)
      <4>1. PICK k \in 0 .. 255 : k = ANT_U8(n)
        BY Bytes, BoundsAssumption
      <4>2. Written(build, type, k).header \in Seq(0 .. 255)
        BY HeaderBytes DEF MessagesInv
      <4> QED
        BY <3>1, <4>1, <4>2
    <3> QED
      BY <3>1 DEF MessagesInv, WireInv
  <2> QED
    BY <2>1, <2>2, <2>3 DEF TypeOK, MessagesInv, ReceivedInv
<1> QED
  BY <1>1, StackInvariant, FunctionsInvariant, PendingInvariant, MessagesInvariant, PTL
=============================================================================
