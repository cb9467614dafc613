-------------------------- MODULE CallbackProofs --------------------------
(***************************************************************************)
(* Proofs about the two ways the system calls its subscribers back.        *)
(*                                                                         *)
(* CallbackLocks, for any number of threads and components and any wiring  *)
(* of the subscribers: threads wait in a circle only where subscribers     *)
(* call in a circle, and then for good.                                    *)
(*                                                                         *)
(* RiskWebSocket, for any number of connections, subscribers and messages: *)
(* an update after disconnect() is the last one, subscribers that          *)
(* registered earlier hear more, and as long as loops do not overlap every *)
(* update is heard once and in order.                                      *)
(***************************************************************************)
EXTENDS CallbackLocks, RiskWebSocket, FiniteSetTheorems, SequenceTheorems, TLAPS

------------------------------------------------------------------------------
(* CallbackLocks *)


(***************************************************************************)
(* The inductive invariant.  A circle of waiting threads is traced through *)
(* their stacks: the component of a frame was called by the subscriber of  *)
(* the frame below it, and the component a thread waits for by the one on  *)
(* top.  That a thread leaves a component for good needs that it is inside *)
(* it once, which holds because the mutex is not recursive.                *)
(***************************************************************************)
Callees(w, k) == {w[k][i].component : i \in DOMAIN w[k]}

InsideOnce(frames) ==
  \A i, j \in DOMAIN frames : frames[i].component = frames[j].component => i = j

OwesOwnCalls(w, frames) ==
  \A i \in DOMAIN frames : \A j \in DOMAIN frames[i].left :
    frames[i].left[j].component \in Callees(w, frames[i].component)

CalledFromBelow(w, frames) ==
  \A i \in DOMAIN frames : i + 1 \in DOMAIN frames =>
    frames[i + 1].component \in Callees(w, frames[i].component)

WaitsFromTop(w, frames, wait) ==
  wait # << >> /\ frames # << >> =>
    wait[1].component \in Callees(w, frames[Len(frames)].component)

AtMostOne(wait) == wait = << >> \/ \E method \in Method : wait = <<method>>

Orderly(w, frames, wait) ==
  /\ frames \in Seq(Frame)
  /\ AtMostOne(wait)
  /\ InsideOnce(frames)
  /\ OwesOwnCalls(w, frames)
  /\ CalledFromBelow(w, frames)
  /\ WaitsFromTop(w, frames, wait)

Inside(frames) == {frames[i].component : i \in DOMAIN frames}

Owned == \A t \in Threads : \A k \in Components :
           owner[k] = t <=> k \in Inside(stack[t])

LockInv ==
  /\ TypeOK
  /\ \A t \in Threads : Orderly(wiring, stack[t], waiting[t])
  /\ Owned

------------------------------------------------------------------------------
LEMMA FrameType ==
  ASSUME NEW frames \in Seq(Frame), NEW i \in DOMAIN frames
  PROVE  /\ i \in 1 .. Len(frames)
         /\ frames[i] \in Frame
         /\ frames[i].component \in Components
         /\ frames[i].left \in Seq(Method)
<1>1. i \in 1 .. Len(frames) /\ frames[i] \in Frame
  OBVIOUS
<1> QED
  BY <1>1 DEF Frame

(* A thread with an empty stack may call anything. *)
LEMMA OrderlyInvoke ==
  ASSUME NEW w, NEW method \in Method
  PROVE  Orderly(w, << >>, <<method>>)
<1>1. << >> \in Seq(Frame) /\ DOMAIN << >> = {}
  OBVIOUS
<1> QED
  BY <1>1 DEF Orderly, AtMostOne, InsideOnce, OwesOwnCalls, CalledFromBelow, WaitsFromTop

(* Entering the component that was waited for, and that nobody is inside.  *)
LEMMA OrderlyEnter ==
  ASSUME NEW w, NEW frames, NEW method \in Method, NEW calls \in Seq(Method),
         Orderly(w, frames, <<method>>),
         method.component \notin Inside(frames),
         \A j \in DOMAIN calls : calls[j].component \in Callees(w, method.component)
  PROVE  LET frame == [component |-> method.component, left |-> calls]
         IN /\ Orderly(w, Append(frames, frame), << >>)
            /\ Inside(Append(frames, frame)) = Inside(frames) \cup {method.component}
<1> DEFINE frame == [component |-> method.component, left |-> calls]
           longer == Append(frames, frame)
           n == Len(frames)
<1>1. frames \in Seq(Frame) /\ n \in Nat /\ DOMAIN frames = 1 .. n
  BY DEF Orderly
<1>2. frame \in Frame /\ frame.component = method.component /\ frame.left = calls
  BY DEF Frame, Method
<1>3. /\ longer \in Seq(Frame) /\ DOMAIN longer = 1 .. n + 1
      /\ longer[n + 1] = frame
      /\ \A i \in 1 .. n : longer[i] = frames[i]
  BY <1>1, <1>2, AppendProperties
<1>4. n # 0 => n \in 1 .. n /\ method.component \in Callees(w, frames[n].component)
  BY <1>1 DEF Orderly, WaitsFromTop
<1>5. \A i \in 1 .. n : frames[i].component # method.component
  BY <1>1 DEF Inside
<1> HIDE DEF frame, longer, n
<1>6. \A i \in 1 .. n + 1 : i \in 1 .. n \/ i = n + 1
  BY <1>1
<1>7. InsideOnce(longer)
  <2> SUFFICES ASSUME NEW i \in 1 .. n + 1, NEW j \in 1 .. n + 1,
                      longer[i].component = longer[j].component
               PROVE  i = j
    BY <1>3 DEF InsideOnce
  <2>1. CASE i \in 1 .. n /\ j \in 1 .. n
    BY <1>1, <1>3, <2>1 DEF Orderly, InsideOnce
  <2>2. CASE i = n + 1 /\ j \in 1 .. n
    BY <1>2, <1>3, <1>5, <2>2
  <2>3. CASE i \in 1 .. n /\ j = n + 1
    BY <1>2, <1>3, <1>5, <2>3
  <2> QED
    BY <1>6, <2>1, <2>2, <2>3
<1>8. OwesOwnCalls(w, longer)
  <2> SUFFICES ASSUME NEW i \in 1 .. n + 1, NEW j \in DOMAIN longer[i].left
               PROVE  longer[i].left[j].component \in Callees(w, longer[i].component)
    BY <1>3 DEF OwesOwnCalls
  <2>1. CASE i = n + 1
    BY <1>2, <1>3, <2>1
  <2>2. CASE i \in 1 .. n
    BY <1>1, <1>3, <2>2 DEF Orderly, OwesOwnCalls
  <2> QED
    BY <1>6, <2>1, <2>2
<1>9. CalledFromBelow(w, longer)
  <2> SUFFICES ASSUME NEW i \in 1 .. n + 1, i + 1 \in 1 .. n + 1
               PROVE  longer[i + 1].component \in Callees(w, longer[i].component)
    BY <1>3 DEF CalledFromBelow
  <2>1. i \in 1 .. n
    BY <1>1
  <2>2. CASE i = n
    BY <1>2, <1>3, <1>4, <2>1, <2>2
  <2>3. CASE i # n
    <3>1. i + 1 \in 1 .. n
      BY <1>1, <2>1, <2>3
    <3> QED
      BY <1>1, <1>3, <2>1, <3>1 DEF Orderly, CalledFromBelow
  <2> QED
    BY <2>2, <2>3
<1>10. Orderly(w, longer, << >>)
  BY <1>3, <1>7, <1>8, <1>9 DEF Orderly, AtMostOne, WaitsFromTop
<1>11. Inside(longer) = Inside(frames) \cup {method.component}
  <2>1. \A i \in 1 .. n : longer[i].component = frames[i].component
    BY <1>3
  <2>2. longer[n + 1].component = method.component /\ n + 1 \in 1 .. n + 1
    BY <1>1, <1>2, <1>3
  <2>3. 1 .. n + 1 = (1 .. n) \cup {n + 1}
    BY <1>1
  <2>4. DOMAIN longer = (1 .. n) \cup {n + 1} /\ DOMAIN frames = 1 .. n
    BY <1>1, <1>3, <2>3
  <2> QED
    BY <2>1, <2>2, <2>4 DEF Inside
<1> QED
  BY <1>10, <1>11 DEF longer, frame

(* The subscriber on top of the stack goes on to its next call. *)
LEMMA OrderlyCall ==
  ASSUME NEW w, NEW frames, Orderly(w, frames, << >>), frames # << >>,
         frames[Len(frames)].left # << >>
  PROVE  LET top == frames[Len(frames)]
             after == [frames EXCEPT ![Len(frames)].left = Tail(@)]
         IN /\ Head(top.left) \in Method
            /\ Orderly(w, after, <<Head(top.left)>>)
            /\ Inside(after) = Inside(frames)
<1> DEFINE n == Len(frames)
           top == frames[n]
           after == [frames EXCEPT ![n].left = Tail(@)]
<1>1. /\ frames \in Seq(Frame) /\ n \in Nat \ {0} /\ DOMAIN frames = 1 .. n
      /\ n \in DOMAIN frames
  BY DEF Orderly
<1>2. /\ top \in Frame /\ top.left \in Seq(Method)
      /\ top.component \in Components
  BY <1>1, FrameType
<1>3. /\ Head(top.left) \in Method /\ Tail(top.left) \in Seq(Method)
      /\ Head(top.left) = top.left[1] /\ 1 \in DOMAIN top.left
      /\ \A j \in DOMAIN Tail(top.left) :
           j + 1 \in DOMAIN top.left /\ Tail(top.left)[j] = top.left[j + 1]
  BY <1>2
<1>4. /\ DOMAIN after = 1 .. n
      /\ \A i \in 1 .. n : i # n => after[i] = frames[i]
      /\ after[n].component = top.component
      /\ after[n].left = Tail(top.left)
      /\ after[n] \in Frame
  BY <1>1, <1>2, <1>3 DEF Frame
<1>5. after \in Seq(Frame) /\ Len(after) = n
  <2>1. \A i \in 1 .. n : after[i] \in Frame
    BY <1>1, <1>4
  <2>2. after \in [1 .. n -> Frame]
    BY <1>1, <2>1
  <2>3. after \in Seq(Frame)
    BY <1>1, <2>2, SeqDef
  <2> QED
    BY <1>1, <1>4, <2>3, LenProperties
<1> HIDE DEF after
<1>6. \A i \in 1 .. n : after[i].component = frames[i].component
  BY <1>4
<1> HIDE DEF n
<1>7. InsideOnce(after) /\ CalledFromBelow(w, after)
  BY <1>1, <1>4, <1>6 DEF InsideOnce, CalledFromBelow, Orderly
<1>8. OwesOwnCalls(w, after)
  <2> SUFFICES ASSUME NEW i \in 1 .. n, NEW j \in DOMAIN after[i].left
               PROVE  after[i].left[j].component \in Callees(w, after[i].component)
    BY <1>4 DEF OwesOwnCalls
  <2>1. CASE i = n
    <3>1. j + 1 \in DOMAIN top.left /\ after[i].left[j] = top.left[j + 1]
      BY <1>3, <1>4, <2>1
    <3>2. top.left[j + 1].component \in Callees(w, top.component)
      BY <1>1, <3>1 DEF Orderly, OwesOwnCalls
    <3> QED
      BY <1>4, <2>1, <3>1, <3>2
  <2>2. CASE i # n
    BY <1>1, <1>4, <2>2 DEF Orderly, OwesOwnCalls
  <2> QED
    BY <2>1, <2>2
<1>9. WaitsFromTop(w, after, <<Head(top.left)>>)
  <2>1. Head(top.left).component \in Callees(w, top.component)
    BY <1>1, <1>3 DEF Orderly, OwesOwnCalls
  <2> QED
    BY <1>4, <1>5, <2>1 DEF WaitsFromTop
<1>10. Orderly(w, after, <<Head(top.left)>>)
  BY <1>3, <1>5, <1>7, <1>8, <1>9 DEF Orderly, AtMostOne
<1>11. Inside(after) = Inside(frames)
  BY <1>1, <1>4, <1>6 DEF Inside
<1> QED
  BY <1>3, <1>10, <1>11 DEF after, n

(* Leaving the component on top of the stack, by a return or an exception. *)
LEMMA OrderlyLeave ==
  ASSUME NEW w, NEW frames, Orderly(w, frames, << >>), frames # << >>
  PROVE  LET shorter == SubSeq(frames, 1, Len(frames) - 1)
         IN /\ frames[Len(frames)].component \in Components
            /\ Orderly(w, shorter, << >>)
            /\ Inside(shorter) = Inside(frames) \ {frames[Len(frames)].component}
<1> DEFINE n == Len(frames)
           top == frames[n]
           shorter == SubSeq(frames, 1, n - 1)
<1>1. /\ frames \in Seq(Frame) /\ n \in Nat \ {0} /\ DOMAIN frames = 1 .. n
      /\ n \in DOMAIN frames
  BY DEF Orderly
<1>2. top.component \in Components
  BY <1>1, FrameType
<1>3. /\ shorter \in Seq(Frame) /\ DOMAIN shorter = 1 .. n - 1
      /\ \A i \in 1 .. n - 1 : shorter[i] = frames[i]
  BY <1>1
<1> HIDE DEF shorter, n
<1>4. 1 .. n = (1 .. n - 1) \cup {n} /\ n \notin 1 .. n - 1
  BY <1>1
<1>5. InsideOnce(shorter) /\ OwesOwnCalls(w, shorter) /\ CalledFromBelow(w, shorter)
  BY <1>1, <1>3, <1>4 DEF Orderly, InsideOnce, OwesOwnCalls, CalledFromBelow
<1>6. \A i \in 1 .. n - 1 : frames[i].component # top.component
  BY <1>1, <1>4 DEF Orderly, InsideOnce
<1>7. Inside(shorter) = Inside(frames) \ {top.component}
  BY <1>1, <1>3, <1>4, <1>6 DEF Inside
<1>8. Orderly(w, shorter, << >>)
  BY <1>3, <1>5 DEF Orderly, AtMostOne, WaitsFromTop
<1> QED
  BY <1>2, <1>7, <1>8 DEF shorter, n

------------------------------------------------------------------------------
(* A thread's own step leaves every other thread as it is, and the         *)
(* components it does not touch with the owner they had.                   *)
LEMMA OthersKept ==
  ASSUME LockInv, NEW t \in Threads, NEW frames, NEW wait, NEW k \in Components,
         NEW who, who = t \/ who = Nobody,
         owner[k] = t \/ owner[k] = Nobody,
         Orderly(wiring, frames, wait),
         Inside(frames) \ {k} = Inside(stack[t]) \ {k},
         k \in Inside(frames) <=> who = t,
         stack' = [stack EXCEPT ![t] = frames],
         waiting' = [waiting EXCEPT ![t] = wait],
         owner' = [owner EXCEPT ![k] = who]
  PROVE  /\ \A u \in Threads : Orderly(wiring, stack'[u], waiting'[u])
         /\ Owned'
         /\ owner' \in [Components -> Threads \cup {Nobody}]
         /\ stack' \in [Threads -> Seq(Frame)]
<1>1. /\ stack'[t] = frames /\ waiting'[t] = wait
      /\ \A u \in Threads \ {t} : stack'[u] = stack[u] /\ waiting'[u] = waiting[u]
  BY DEF LockInv, TypeOK
<1>2. /\ owner'[k] = who
      /\ \A c \in Components \ {k} : owner'[c] = owner[c]
  BY DEF LockInv, TypeOK
<1>3. \A u \in Threads : Orderly(wiring, stack'[u], waiting'[u])
  BY <1>1 DEF LockInv
<1>4. frames \in Seq(Frame)
  BY DEF Orderly
<1>5. Owned'
  <2> SUFFICES ASSUME NEW u \in Threads, NEW c \in Components
               PROVE  owner'[c] = u <=> c \in Inside(stack'[u])
    BY DEF Owned, Inside
  <2>1. /\ owner[c] = u <=> c \in Inside(stack[u])
        /\ u # Nobody /\ t # Nobody
    BY NobodyAssumption DEF LockInv, Owned
  <2>2. CASE u = t /\ c = k
    BY <1>1, <1>2, <2>1, <2>2
  <2>3. CASE u = t /\ c # k
    BY <1>1, <1>2, <2>1, <2>3
  <2>4. CASE u # t /\ c = k
    BY <1>1, <1>2, <2>1, <2>4
  <2>5. CASE u # t /\ c # k
    BY <1>1, <1>2, <2>1, <2>5
  <2> QED
    BY <2>2, <2>3, <2>4, <2>5
<1>6. /\ owner' \in [Components -> Threads \cup {Nobody}]
      /\ stack' \in [Threads -> Seq(Frame)]
  BY <1>4 DEF LockInv, TypeOK
<1> QED
  BY <1>3, <1>5, <1>6

(* Every step keeps what is on the stacks in the order of the calls. *)
LEMMA LockInvariant == Spec => []LockInv
<1>1. Init => LockInv
  <2> SUFFICES ASSUME Init PROVE LockInv
    OBVIOUS
  <2>1. << >> \in Seq(Frame) /\ << >> \in Seq(Method) /\ DOMAIN << >> = {}
    OBVIOUS
  <2>2. Orderly(wiring, << >>, << >>) /\ Inside(<< >>) = {}
    BY <2>1 DEF Orderly, AtMostOne, InsideOnce, OwesOwnCalls, CalledFromBelow,
                WaitsFromTop, Inside
  <2>3. TypeOK
    BY <2>1 DEF Init, TypeOK
  <2>4. \A t \in Threads : Orderly(wiring, stack[t], waiting[t])
    BY <2>2 DEF Init
  <2>5. Owned
    BY <2>2, NobodyAssumption DEF Init, Owned
  <2> QED
    BY <2>3, <2>4, <2>5 DEF LockInv
<1>2. LockInv /\ [Next]_vars => LockInv'
  <2> SUFFICES ASSUME LockInv, [Next]_vars PROVE LockInv'
    OBVIOUS
  <2>1. ASSUME NEW t \in Threads, NEW method \in Method, Invoke(t, method)
        PROVE  LockInv'
    <3>1. stack[t] = << >> /\ <<method>> \in Seq(Method) /\ wiring' = wiring
      BY <2>1 DEF Invoke, Idle
    <3>2. \A u \in Threads : Orderly(wiring', stack'[u], waiting'[u])
      BY <2>1, <3>1, OrderlyInvoke DEF Invoke, LockInv, TypeOK
    <3>3. TypeOK'
      BY <2>1, <3>1 DEF Invoke, LockInv, TypeOK
    <3>4. Owned'
      BY <2>1 DEF Invoke, LockInv, Owned
    <3> QED
      BY <3>2, <3>3, <3>4 DEF LockInv
  <2>2. ASSUME NEW t \in Threads, Enter(t) PROVE LockInv'
    <3> DEFINE method == waiting[t][1]
               k == method.component
               calls == Calls(method)
               frames == Append(stack[t], [component |-> k, left |-> calls])
    <3>1. method \in Method /\ waiting[t] = <<method>>
      BY <2>2 DEF Enter, LockInv, Orderly, AtMostOne
    <3>2. /\ owner[k] = Nobody
          /\ owner' = [owner EXCEPT ![k] = t]
          /\ stack' = [stack EXCEPT ![t] = frames]
          /\ waiting' = [waiting EXCEPT ![t] = << >>]
          /\ callback' = Subscribed(method)
          /\ wiring' = wiring /\ made' = made
      BY <2>2 DEF Enter, Free
    <3>3. k \in Components
      BY <3>1 DEF Method
    <3>4. /\ calls \in Seq(Method)
          /\ \A j \in DOMAIN calls : calls[j].component \in Callees(wiring, k)
      <4>1. << >> \in Seq(Method) /\ DOMAIN << >> = {}
        OBVIOUS
      <4>2. wiring[k] \in Seq(Method)
        BY <3>3, WiringsAssumption DEF LockInv, TypeOK
      <4> QED
        BY <4>1, <4>2 DEF Calls, Callees
    <3>5. Orderly(wiring, stack[t], <<method>>)
      BY <3>1 DEF LockInv
    <3>6. k \notin Inside(stack[t])
      BY <3>2, <3>3, NobodyAssumption DEF LockInv, Owned
    <3> HIDE DEF calls, method
    <3>7. Orderly(wiring, frames, << >>) /\ Inside(frames) = Inside(stack[t]) \cup {k}
      BY <3>1, <3>4, <3>5, <3>6, OrderlyEnter
    <3> HIDE DEF frames
    <3>8. /\ \A u \in Threads : Orderly(wiring, stack'[u], waiting'[u])
          /\ Owned'
          /\ owner' \in [Components -> Threads \cup {Nobody}]
          /\ stack' \in [Threads -> Seq(Frame)]
      BY <3>2, <3>3, <3>7, OthersKept
    <3>9. callback' \subseteq Components
      BY <3>2, <3>3 DEF Subscribed, LockInv, TypeOK
    <3>10. waiting' \in [Threads -> Seq(Method)] /\ made' \in Nat /\ wiring' \in Wirings
      BY <3>2 DEF LockInv, TypeOK
    <3> QED
      BY <3>2, <3>8, <3>9, <3>10 DEF LockInv, TypeOK
  <2>3. ASSUME NEW t \in Threads, CallFromHandler(t) PROVE LockInv'
    <3> DEFINE n == Len(stack[t])
               top == stack[t][n]
               frames == [stack[t] EXCEPT ![n].left = Tail(@)]
               wait == <<Head(top.left)>>
    <3>1. /\ stack[t] # << >> /\ waiting[t] = << >> /\ top.left # << >>
          /\ waiting' = [waiting EXCEPT ![t] = wait]
          /\ stack' = [stack EXCEPT ![t] = frames]
          /\ owner' = owner /\ callback' = callback /\ wiring' = wiring /\ made' = made
      BY <2>3 DEF CallFromHandler, Top
    <3>2. Orderly(wiring, stack[t], << >>)
      BY <3>1 DEF LockInv
    <3>3. /\ Head(top.left) \in Method /\ Orderly(wiring, frames, wait)
          /\ Inside(frames) = Inside(stack[t])
      BY <3>1, <3>2, OrderlyCall
    <3>4. wait \in Seq(Method) /\ frames \in Seq(Frame)
      BY <3>3 DEF Orderly
    <3> HIDE DEF frames, wait, top, n
    <3>5. TypeOK'
      BY <3>1, <3>4 DEF LockInv, TypeOK
    <3>6. /\ stack'[t] = frames /\ waiting'[t] = wait
          /\ \A u \in Threads \ {t} : stack'[u] = stack[u] /\ waiting'[u] = waiting[u]
      BY <3>1 DEF LockInv, TypeOK
    <3>7. \A u \in Threads : Orderly(wiring', stack'[u], waiting'[u])
      BY <3>1, <3>3, <3>6 DEF LockInv
    <3>8. \A u \in Threads : Inside(stack'[u]) = Inside(stack[u])
      BY <3>3, <3>6
    <3>9. Owned'
      BY <3>1, <3>8 DEF Owned, LockInv
    <3> QED
      BY <3>5, <3>7, <3>9 DEF LockInv
  <2>4. ASSUME NEW t \in Threads, stack[t] # << >>, waiting[t] = << >>, Unlock(t)
        PROVE  LockInv'
    <3> DEFINE n == Len(stack[t])
               k == stack[t][n].component
               frames == SubSeq(stack[t], 1, n - 1)
    <3>1. /\ stack[t] # << >> /\ waiting[t] = << >>
          /\ owner' = [owner EXCEPT ![k] = Nobody]
          /\ stack' = [stack EXCEPT ![t] = frames]
          /\ waiting' = waiting /\ callback' = callback
          /\ wiring' = wiring /\ made' = made
      BY <2>4 DEF Unlock, Top
    <3>2. Orderly(wiring, stack[t], << >>)
      BY <3>1 DEF LockInv
    <3>3. /\ k \in Components /\ Orderly(wiring, frames, << >>)
          /\ Inside(frames) = Inside(stack[t]) \ {k}
      BY <3>1, <3>2, OrderlyLeave
    <3>4. k \in Inside(stack[t])
      <4>1. n \in DOMAIN stack[t]
        BY <3>1, <3>2 DEF Orderly
      <4> QED
        BY <4>1 DEF Inside
    <3> HIDE DEF frames, k, n
    <3>5. owner[k] = t
      BY <3>3, <3>4 DEF LockInv, Owned
    <3>6. waiting' = [waiting EXCEPT ![t] = << >>]
      BY <3>1 DEF LockInv, TypeOK
    <3>7. k \in Inside(frames) <=> Nobody = t
      BY <3>3, NobodyAssumption
    <3>8. /\ \A u \in Threads : Orderly(wiring, stack'[u], waiting'[u])
          /\ Owned'
          /\ owner' \in [Components -> Threads \cup {Nobody}]
          /\ stack' \in [Threads -> Seq(Frame)]
      BY <3>1, <3>3, <3>5, <3>6, <3>7, OthersKept
    <3> QED
      BY <3>1, <3>8 DEF LockInv, TypeOK
  <2>5. ASSUME NEW t \in Threads, Leave(t) \/ Throw(t) PROVE LockInv'
    BY <2>4, <2>5 DEF Leave, Throw
  <2>6. CASE UNCHANGED vars
    BY <2>6 DEF vars, LockInv, TypeOK, Owned
  <2> QED
    BY <2>1, <2>2, <2>3, <2>5, <2>6 DEF Next, Step
<1> QED
  BY <1>1, <1>2, PTL DEF Spec

(* Threads wait in a circle only where subscribers call in a circle the    *)
(* components these threads hold, whatever the wiring: the components that *)
(* the threads of the circle are inside of form such a circle, since each  *)
(* has called the next on its stack or the one its thread waits for.       *)
THEOREM DeadlocksAreSubscribers == Spec => []DeadlockIsACircleOfSubscribers
<1>1. ASSUME LockInv, NEW S \in SUBSET Threads, S # {}, Deadlocked(S)
      PROVE  \E C \in SUBSET Components :
               C # {} /\ CallEachOther(C) /\ \A k \in C : owner[k] \in S
  <2> DEFINE C == {k \in Components : owner[k] \in S}
  <2>1. ASSUME NEW t \in S
        PROVE  /\ waiting[t] # << >> /\ waiting[t][1].component \in C
               /\ Orderly(wiring, stack[t], waiting[t])
    <3>1. PICK u \in S : waiting[t] # << >> /\ owner[waiting[t][1].component] = u
      BY <1>1 DEF Deadlocked, WaitsFor
    <3>2. Orderly(wiring, stack[t], waiting[t])
      BY <1>1 DEF LockInv
    <3>3. waiting[t][1].component \in Components
      BY <3>1, <3>2 DEF Orderly, AtMostOne, Method
    <3> QED
      BY <3>1, <3>2, <3>3
  <2>2. ASSUME NEW k \in C PROVE \E c \in C : c \in Callees(wiring, k)
    <3>1. PICK t \in S : owner[k] = t
      OBVIOUS
    <3>2. k \in Inside(stack[t])
      BY <1>1, <3>1 DEF LockInv, Owned
    <3> DEFINE frames == stack[t]
    <3>3. Orderly(wiring, frames, waiting[t]) /\ waiting[t] # << >>
      BY <2>1
    <3>4. PICK i \in DOMAIN frames : frames[i].component = k
      BY <3>2 DEF Inside
    <3>5. /\ frames \in Seq(Frame) /\ Len(frames) \in Nat
          /\ DOMAIN frames = 1 .. Len(frames)
      BY <3>3, LenProperties DEF Orderly
    <3>6. CASE i = Len(frames)
      <4>1. frames # << >>
        BY <3>5, <3>6
      <4>2. waiting[t][1].component \in Callees(wiring, k)
        BY <3>3, <3>4, <3>6, <4>1 DEF Orderly, WaitsFromTop
      <4> QED
        BY <2>1, <4>2
    <3>7. CASE i # Len(frames)
      <4>1. i + 1 \in DOMAIN frames
        BY <3>5, <3>7
      <4>2. frames[i + 1].component \in Callees(wiring, k)
        BY <3>3, <3>4, <4>1 DEF Orderly, CalledFromBelow
      <4>3. frames[i + 1].component \in Components
        BY <3>5, <4>1, FrameType
      <4>4. owner[frames[i + 1].component] = t
        BY <1>1, <4>1, <4>3 DEF LockInv, Owned, Inside
      <4> QED
        BY <4>2, <4>3, <4>4
    <3> QED
      BY <3>6, <3>7
  <2>3. C # {}
    BY <1>1, <2>1
  <2>4. CallEachOther(C)
    <3> HIDE DEF C
    <3> QED
      BY <2>2 DEF CallEachOther, Callees
  <2> QED
    BY <2>3, <2>4
<1>2. LockInv => DeadlockIsACircleOfSubscribers
  BY <1>1 DEF DeadlockIsACircleOfSubscribers
<1> QED
  BY <1>2, LockInvariant, PTL

(* Threads that wait for one another do so for good: none of them can take *)
(* a step, and no other frees a mutex it does not own.                     *)
THEOREM DeadlocksAreForGood == Spec => DeadlockIsForGood
<1> DEFINE ForGood == \A S \in SUBSET Threads : Deadlocked(S) => Deadlocked(S)'
<1>1. ASSUME LockInv, Next, NEW S \in SUBSET Threads, Deadlocked(S)
      PROVE  Deadlocked(S)'
  <2>1. PICK t \in Threads : Step(t) \/ \E method \in Method : Invoke(t, method)
    BY <1>1 DEF Next
  <2>2. ASSUME NEW u \in S
        PROVE  /\ waiting[u] # << >> /\ owner[waiting[u][1].component] \in S
               /\ waiting[u][1].component \in Components
               /\ owner[waiting[u][1].component] # Nobody
    <3>1. waiting[u] # << >> /\ owner[waiting[u][1].component] \in S
      BY <1>1 DEF Deadlocked, WaitsFor
    <3>2. waiting[u][1].component \in Components
      BY <1>1, <3>1 DEF LockInv, Orderly, AtMostOne, Method
    <3> QED
      BY <3>1, <3>2, NobodyAssumption
  <2>3. t \notin S
    <3> SUFFICES ASSUME t \in S PROVE FALSE
      OBVIOUS
    <3>1. waiting[t] # << >> /\ owner[waiting[t][1].component] # Nobody
      BY <2>2
    <3> QED
      BY <2>1, <3>1 DEF Step, Invoke, Idle, Enter, Free, CallFromHandler, Leave, Throw
  <2>4. \A u \in S : waiting'[u] = waiting[u]
    <3>1. \/ waiting' = waiting
          \/ \E wait : waiting' = [waiting EXCEPT ![t] = wait]
      BY <2>1 DEF Step, Invoke, Enter, CallFromHandler, Leave, Throw, Unlock
    <3> QED
      BY <1>1, <2>3, <3>1 DEF LockInv, TypeOK
  <2>5. ASSUME NEW k \in Components, owner[k] \in S PROVE owner'[k] = owner[k]
    <3>1. owner[k] # Nobody /\ owner[k] # t
      BY <2>3, <2>5, NobodyAssumption
    <3>2. CASE \E method \in Method : Invoke(t, method)
      BY <3>2 DEF Invoke
    <3>3. CASE Enter(t)
      <4>1. PICK c : owner[c] = Nobody /\ owner' = [owner EXCEPT ![c] = t]
        BY <3>3 DEF Enter, Free
      <4> QED
        BY <1>1, <3>1, <4>1 DEF LockInv, TypeOK
    <3>4. CASE CallFromHandler(t)
      BY <3>4 DEF CallFromHandler
    <3>5. CASE Leave(t) \/ Throw(t)
      <4>1. /\ owner' = [owner EXCEPT ![Top(t).component] = Nobody]
            /\ stack[t] # << >>
        BY <3>5 DEF Leave, Throw, Unlock
      <4>2. Orderly(wiring, stack[t], waiting[t])
        BY <1>1 DEF LockInv
      <4>3. Len(stack[t]) \in DOMAIN stack[t] /\ Top(t).component \in Components
        BY <4>1, <4>2, FrameType DEF Orderly, Top
      <4>4. owner[Top(t).component] = t
        BY <1>1, <4>3 DEF LockInv, Owned, Inside, Top
      <4> QED
        BY <1>1, <3>1, <4>1, <4>4 DEF LockInv, TypeOK
    <3> QED
      BY <2>1, <3>2, <3>3, <3>4, <3>5 DEF Step
  <2>6. ASSUME NEW u \in S
        PROVE  \E v \in S : waiting'[u] # << >> /\ owner'[waiting'[u][1].component] = v
    BY <2>2, <2>4, <2>5
  <2> QED
    BY <2>6 DEF Deadlocked, WaitsFor
<1> HIDE DEF ForGood
<1>2. ASSUME LockInv, Next PROVE ForGood
  BY <1>1, <1>2 DEF ForGood
<1>3. LockInv /\ [Next]_vars => [ForGood]_vars
  BY <1>2
<1>4. Spec => [][ForGood]_vars
  BY LockInvariant, <1>3, PTL DEF Spec
<1> QED
  BY <1>4 DEF DeadlockIsForGood, ForGood

------------------------------------------------------------------------------
(* RiskWebSocket *)


(* A task that handed over an update with the flag cleared has not looked  *)
(* at the flag since, or has left; whoever sets the flag starts the count  *)
(* again.                                                                  *)
LateOnce ==
  \A c \in Tasks :
    \/ late[c] = 0
    \/ late[c] = 1 /\ ~running /\ phase[c] \in {"checking", "ended"}

(* Whoever has not registered has heard nothing. *)
StrangersHearNothing ==
  \A s \in Subscribers : s \notin ToSet(callbacks) => heard[s] = << >>

(* A task reads on from where the last one stopped, or from further on.    *)
AtMostOneOpen == \A c, d \in Tasks : Open(c) /\ Open(d) => c = d

Listening(c) == phase[c] \in {"checking", "waiting"}

HeardUpTo(n) == \A s \in Subscribers : \A i \in DOMAIN heard[s] : heard[s][i] <= n

OneAfterTheOther ==
  /\ HeardUpTo(published)
  /\ ~overlapped =>
       /\ AtMostOneOpen
       /\ \A c \in Tasks : Listening(c) => HeardUpTo(read[c])

SocketInv ==
  /\ SocketTypeOK
  /\ LateOnce
  /\ StrangersHearNothing
  /\ EarlierHearsMore
  /\ OneAfterTheOther
  /\ HeardOnceInOrder

------------------------------------------------------------------------------
LEMMA AppendFacts ==
  ASSUME NEW S, NEW q \in Seq(S), NEW m \in S
  PROVE  /\ Append(q, m) \in Seq(S)
         /\ Len(q) \in Nat
         /\ DOMAIN q = 1 .. Len(q)
         /\ DOMAIN Append(q, m) = 1 .. Len(q) + 1
         /\ \A i \in 1 .. Len(q) : Append(q, m)[i] = q[i] /\ q[i] \in S
         /\ Append(q, m)[Len(q) + 1] = m
         /\ ToSet(Append(q, m)) = ToSet(q) \cup {m}
<1>1. /\ Append(q, m) \in Seq(S)
      /\ Len(Append(q, m)) = Len(q) + 1
      /\ \A i \in 1 .. Len(q) : Append(q, m)[i] = q[i]
      /\ Append(q, m)[Len(q) + 1] = m
  BY AppendProperties
<1>2. /\ Len(q) \in Nat /\ DOMAIN q = 1 .. Len(q)
      /\ DOMAIN Append(q, m) = 1 .. Len(q) + 1
      /\ \A i \in 1 .. Len(q) : q[i] \in S
  BY <1>1, LenProperties, ElementOfSeq
<1>3. ToSet(Append(q, m)) = ToSet(q) \cup {m}
  BY <1>1, <1>2 DEF ToSet
<1> QED
  BY <1>1, <1>2, <1>3

(* The same for what a subscriber has heard. *)
LEMMA HeardFacts ==
  ASSUME SocketTypeOK, NEW s \in Subscribers, NEW message \in 1 .. MaxMessages
  PROVE  LET old == heard[s]
             new == Append(heard[s], message)
         IN /\ old \in Seq(1 .. MaxMessages) /\ new \in Seq(1 .. MaxMessages)
            /\ Len(old) \in Nat
            /\ DOMAIN old = 1 .. Len(old)
            /\ DOMAIN new = 1 .. Len(old) + 1
            /\ \A i \in DOMAIN old : new[i] = old[i] /\ old[i] \in Nat
            /\ new[Len(old) + 1] = message
            /\ ToSet(new) = ToSet(old) \cup {message}
<1> DEFINE old == heard[s]
           new == Append(heard[s], message)
           Messages == 1 .. MaxMessages
<1>1. old \in Seq(Messages) /\ message \in Messages
  BY DEF SocketTypeOK
<1>2. \A i \in Messages : i \in Nat
  BY MessagesAssumption
<1> HIDE DEF Messages
<1>3. /\ new \in Seq(Messages)
      /\ Len(old) \in Nat
      /\ DOMAIN old = 1 .. Len(old)
      /\ DOMAIN new = 1 .. Len(old) + 1
      /\ \A i \in 1 .. Len(old) : new[i] = old[i] /\ old[i] \in Messages
      /\ new[Len(old) + 1] = message
      /\ ToSet(new) = ToSet(old) \cup {message}
  BY <1>1, AppendFacts
<1> QED
  BY <1>1, <1>2, <1>3 DEF Messages

(* What the callbacks of one update leave behind. *)
Heard(n, message) ==
  [s \in Subscribers |->
     IF s \in Called(n) THEN Append(heard[s], message) ELSE heard[s]]

(* The callbacks that are called are the first ones. *)
LEMMA CalledPrefix ==
  ASSUME SocketTypeOK, NEW n \in 0 .. Len(callbacks)
  PROVE  /\ Called(n) \subseteq ToSet(callbacks)
         /\ \A i \in DOMAIN callbacks : callbacks[i] \in Called(n) => i <= n
         /\ \A i \in DOMAIN callbacks : i <= n => callbacks[i] \in Called(n)
<1>1. /\ callbacks \in Seq(Subscribers)
      /\ \A i, j \in DOMAIN callbacks : callbacks[i] = callbacks[j] => i = j
  BY DEF SocketTypeOK, IsInjective
<1>2. DOMAIN callbacks = 1 .. Len(callbacks) /\ Len(callbacks) \in Nat
  BY <1>1, LenProperties
<1> QED
  BY <1>1, <1>2 DEF Called, ToSet

(* What a step of a task that hands over an update does. *)
LEMMA Delivery ==
  ASSUME SocketInv, NEW c \in Tasks, Deliver(c)
  PROVE  \E n \in 0 .. Len(callbacks) :
           /\ phase[c] = "waiting" /\ read[c] < published
           /\ heard' = Heard(n, read[c] + 1)
           /\ \E next \in {"checking", "ended"} :
                /\ phase' = [phase EXCEPT ![c] = next]
                /\ read' = [read EXCEPT ![c] = @ + 1]
           /\ late' = IF running THEN late ELSE [late EXCEPT ![c] = @ + 1]
           /\ UNCHANGED <<running, callbacks, published, overlapped>>
<1>1. Len(callbacks) \in Nat
  BY LenProperties DEF SocketInv, SocketTypeOK
<1>2. CASE heard' = Heard(Len(callbacks), read[c] + 1) /\ Goes(c, "checking")
  BY <1>1, <1>2 DEF Deliver, Readable, Goes, Taken
<1>3. CASE \E n \in 1 .. Len(callbacks) :
             heard' = Heard(n, read[c] + 1) /\ Goes(c, "ended")
  BY <1>1, <1>3 DEF Deliver, Readable, Goes, Taken
<1> QED
  BY <1>2, <1>3 DEF Deliver, Heard

------------------------------------------------------------------------------
(* One lemma per part of the invariant for the step that matters, the one  *)
(* that hands over an update.                                              *)
LEMMA DeliveryType ==
  ASSUME SocketInv, NEW c \in Tasks, Deliver(c)
  PROVE  /\ SocketTypeOK'
         /\ read[c] + 1 \in 1 .. MaxMessages /\ read[c] + 1 <= published
         /\ read'[c] = read[c] + 1
         /\ \A d \in Tasks \ {c} : read'[d] = read[d] /\ phase'[d] = phase[d]
         /\ phase'[c] \in {"checking", "ended"}
<1>1. PICK n \in 0 .. Len(callbacks) :
           /\ phase[c] = "waiting" /\ read[c] < published
           /\ heard' = Heard(n, read[c] + 1)
           /\ \E next \in {"checking", "ended"} :
                /\ phase' = [phase EXCEPT ![c] = next]
                /\ read' = [read EXCEPT ![c] = @ + 1]
           /\ late' = IF running THEN late ELSE [late EXCEPT ![c] = @ + 1]
           /\ UNCHANGED <<running, callbacks, published, overlapped>>
  BY Delivery
<1>2. /\ published \in 0 .. MaxMessages /\ read[c] \in 0 .. published
      /\ MaxMessages \in Nat
  BY MessagesAssumption DEF SocketInv, SocketTypeOK
<1>3. read[c] + 1 \in 1 .. MaxMessages /\ read[c] + 1 \in 0 .. published
  BY <1>1, <1>2
<1>4. heard' \in [Subscribers -> Seq(1 .. MaxMessages)]
  <2>1. ASSUME NEW s \in Subscribers
        PROVE  /\ heard[s] \in Seq(1 .. MaxMessages)
               /\ Append(heard[s], read[c] + 1) \in Seq(1 .. MaxMessages)
    BY <1>3, AppendFacts DEF SocketInv, SocketTypeOK
  <2> QED
    BY <1>1, <2>1 DEF Heard
<1>5. read' \in [Tasks -> 0 .. published]
  BY <1>1, <1>3 DEF SocketInv, SocketTypeOK
<1>6. late' \in [Tasks -> Nat]
  BY <1>1 DEF SocketInv, SocketTypeOK
<1> QED
  BY <1>1, <1>3, <1>4, <1>5, <1>6 DEF SocketInv, SocketTypeOK

LEMMA DeliveryLate ==
  ASSUME SocketInv, NEW c \in Tasks, Deliver(c)
  PROVE  LateOnce'
<1>1. PICK n \in 0 .. Len(callbacks) :
           /\ phase[c] = "waiting"
           /\ \E next \in {"checking", "ended"} :
                phase' = [phase EXCEPT ![c] = next]
           /\ late' = IF running THEN late ELSE [late EXCEPT ![c] = @ + 1]
           /\ UNCHANGED running
  BY Delivery
<1>2. late[c] = 0
  BY <1>1 DEF SocketInv, LateOnce
<1> QED
  BY <1>1, <1>2 DEF SocketInv, LateOnce, SocketTypeOK

LEMMA DeliveryHears ==
  ASSUME SocketInv, NEW c \in Tasks, Deliver(c)
  PROVE  StrangersHearNothing' /\ EarlierHearsMore'
<1>1. PICK n \in 0 .. Len(callbacks) :
           heard' = Heard(n, read[c] + 1) /\ UNCHANGED callbacks
  BY Delivery
<1>2. /\ Called(n) \subseteq ToSet(callbacks)
      /\ \A i \in DOMAIN callbacks : callbacks[i] \in Called(n) <=> i <= n
      /\ callbacks \in Seq(Subscribers)
  BY <1>1, CalledPrefix DEF SocketInv, SocketTypeOK
<1>3. StrangersHearNothing'
  BY <1>1, <1>2 DEF StrangersHearNothing, Heard, SocketInv
<1>4. ASSUME NEW i \in DOMAIN callbacks, NEW j \in DOMAIN callbacks, i < j
      PROVE  ToSet(heard'[callbacks[j]]) \subseteq ToSet(heard'[callbacks[i]])
  <2> DEFINE old == heard[callbacks[i]]
             oldj == heard[callbacks[j]]
             message == read[c] + 1
  <2>1. /\ callbacks[i] \in Subscribers /\ callbacks[j] \in Subscribers
        /\ DOMAIN callbacks = 1 .. Len(callbacks) /\ Len(callbacks) \in Nat
    BY <1>2, ElementOfSeq, LenProperties
  <2>2. message \in 1 .. MaxMessages
    BY DeliveryType
  <2>3. ToSet(oldj) \subseteq ToSet(old)
    BY <1>4 DEF SocketInv, EarlierHearsMore
  <2>4. /\ ToSet(Append(old, message)) = ToSet(old) \cup {message}
        /\ ToSet(Append(oldj, message)) = ToSet(oldj) \cup {message}
    BY <2>1, <2>2, HeardFacts DEF SocketInv
  <2>5. /\ heard'[callbacks[i]] = IF i <= n THEN Append(old, message) ELSE old
        /\ heard'[callbacks[j]] = IF j <= n THEN Append(oldj, message) ELSE oldj
    BY <1>1, <1>2, <2>1 DEF Heard
  <2>6. j <= n => i <= n
    BY <1>1, <1>4, <2>1
  <2> HIDE DEF old, oldj, message
  <2> QED
    BY <2>3, <2>4, <2>5, <2>6
<1> QED
  BY <1>1, <1>3, <1>4 DEF EarlierHearsMore

LEMMA DeliveryOrder ==
  ASSUME SocketInv, NEW c \in Tasks, Deliver(c)
  PROVE  OneAfterTheOther' /\ HeardOnceInOrder'
<1> DEFINE message == read[c] + 1
<1>1. PICK n \in 0 .. Len(callbacks) :
           /\ phase[c] = "waiting"
           /\ heard' = Heard(n, message)
           /\ UNCHANGED <<published, overlapped>>
  BY Delivery
<1>2. /\ message \in 1 .. MaxMessages /\ message <= published
      /\ read'[c] = message
      /\ \A d \in Tasks \ {c} : read'[d] = read[d] /\ phase'[d] = phase[d]
      /\ phase'[c] \in {"checking", "ended"}
      /\ published \in Nat /\ read[c] \in Nat
  BY DeliveryType DEF SocketInv, SocketTypeOK
<1> HIDE DEF message
<1>3. ASSUME NEW s \in Subscribers
      PROVE  /\ heard[s] \in Seq(1 .. MaxMessages)
             /\ heard'[s] = heard[s] \/ heard'[s] = Append(heard[s], message)
  BY <1>1 DEF Heard, SocketInv, SocketTypeOK
<1>4. ASSUME NEW s \in Subscribers, NEW k \in DOMAIN heard'[s]
      PROVE  \/ k \in DOMAIN heard[s] /\ heard'[s][k] = heard[s][k]
             \/ heard'[s][k] = message
  <2>1. CASE heard'[s] = heard[s]
    BY <1>4, <2>1
  <2>2. CASE heard'[s] = Append(heard[s], message)
    BY <1>2, <1>4, <2>2, HeardFacts DEF SocketInv
  <2> QED
    BY <1>3, <2>1, <2>2
<1>5. HeardUpTo(published)'
  BY <1>1, <1>2, <1>4 DEF HeardUpTo, SocketInv, OneAfterTheOther
<1>6. ASSUME ~overlapped
      PROVE  /\ AtMostOneOpen /\ AtMostOneOpen'
             /\ \A d \in Tasks : Listening(d)' => d = c
             /\ HeardUpTo(read[c])
  BY <1>1, <1>2, <1>6
     DEF SocketInv, OneAfterTheOther, AtMostOneOpen, Open, Listening
<1>7. ASSUME ~overlapped
      PROVE  HeardUpTo(read[c])'
  <2>1. ASSUME NEW s \in Subscribers, NEW k \in DOMAIN heard[s]
        PROVE  heard[s][k] \in Nat /\ heard[s][k] <= read[c]
    BY <1>2, <1>6, <1>7, <2>1, HeardFacts DEF HeardUpTo, SocketInv
  <2>2. read[c] <= message /\ message <= message
    BY <1>2 DEF message
  <2> QED
    BY <1>2, <1>4, <2>1, <2>2 DEF HeardUpTo
<1>8. ASSUME ~overlapped, NEW s \in Subscribers
      PROVE  Increases(heard'[s])
  <2>1. Increases(heard[s])
    BY <1>8 DEF SocketInv, HeardOnceInOrder
  <2>2. \A k \in DOMAIN heard[s] : heard[s][k] \in Nat /\ heard[s][k] < message
    <3>1. ASSUME NEW k \in DOMAIN heard[s]
          PROVE  heard[s][k] \in Nat /\ heard[s][k] <= read[c]
      BY <1>2, <1>6, <1>8, <3>1, HeardFacts DEF HeardUpTo, SocketInv
    <3> QED
      BY <1>2, <3>1 DEF message
  <2>3. CASE heard'[s] = Append(heard[s], message)
    <3>1. /\ Len(heard[s]) \in Nat
          /\ DOMAIN heard[s] = 1 .. Len(heard[s])
          /\ DOMAIN heard'[s] = 1 .. Len(heard[s]) + 1
          /\ \A k \in DOMAIN heard[s] : heard'[s][k] = heard[s][k]
          /\ heard'[s][Len(heard[s]) + 1] = message
      BY <1>2, <2>3, HeardFacts DEF SocketInv
    <3> QED
      BY <2>1, <2>2, <3>1 DEF Increases
  <2> QED
    BY <1>3, <2>1, <2>3
<1> QED
  BY <1>1, <1>5, <1>6, <1>7, <1>8 DEF OneAfterTheOther, HeardOnceInOrder

------------------------------------------------------------------------------
(* Registering a subscriber. *)
LEMMA Registration ==
  ASSUME SocketInv, NEW s \in Subscribers, on_update(s)
  PROVE  SocketInv'
<1>1. /\ s \notin ToSet(callbacks)
      /\ callbacks' = Append(callbacks, s)
      /\ UNCHANGED <<running, phase, read, published, heard, late, overlapped>>
  BY DEF on_update
<1>2. /\ callbacks' \in Seq(Subscribers)
      /\ Len(callbacks) \in Nat
      /\ DOMAIN callbacks = 1 .. Len(callbacks)
      /\ DOMAIN callbacks' = 1 .. Len(callbacks) + 1
      /\ \A i \in 1 .. Len(callbacks) : callbacks'[i] = callbacks[i]
      /\ callbacks'[Len(callbacks) + 1] = s
      /\ ToSet(callbacks') = ToSet(callbacks) \cup {s}
  BY <1>1, AppendFacts DEF SocketInv, SocketTypeOK
<1>3. \A i \in DOMAIN callbacks : callbacks[i] # s
  BY <1>1 DEF ToSet
<1>4. IsInjective(callbacks')
  <2>1. \A i, j \in DOMAIN callbacks : callbacks[i] = callbacks[j] => i = j
    BY DEF SocketInv, SocketTypeOK, IsInjective
  <2>2. ASSUME NEW i \in DOMAIN callbacks', NEW j \in DOMAIN callbacks',
               callbacks'[i] = callbacks'[j]
        PROVE  i = j
    <3>1. \A k \in DOMAIN callbacks' :
            \/ k \in DOMAIN callbacks /\ callbacks'[k] = callbacks[k]
            \/ k = Len(callbacks) + 1 /\ callbacks'[k] = s
      BY <1>2
    <3> QED
      BY <1>3, <2>1, <2>2, <3>1
  <2> QED
    BY <2>2 DEF IsInjective
<1>5. EarlierHearsMore'
  <2>1. ToSet(heard[s]) = {}
    BY <1>1 DEF SocketInv, StrangersHearNothing, ToSet
  <2>2. ASSUME NEW i \in DOMAIN callbacks', NEW j \in DOMAIN callbacks', i < j
        PROVE  ToSet(heard[callbacks'[j]]) \subseteq ToSet(heard[callbacks'[i]])
    <3>1. CASE j = Len(callbacks) + 1
      BY <1>2, <2>1, <3>1
    <3>2. CASE j \in DOMAIN callbacks
      <4>1. /\ i \in DOMAIN callbacks
            /\ callbacks'[i] = callbacks[i] /\ callbacks'[j] = callbacks[j]
        BY <1>2, <2>2, <3>2
      <4> QED
        BY <2>2, <3>2, <4>1 DEF EarlierHearsMore, SocketInv
    <3> QED
      BY <1>2, <3>1, <3>2
  <2> QED
    BY <1>1, <2>2 DEF EarlierHearsMore
<1>6. StrangersHearNothing'
  BY <1>1, <1>2 DEF StrangersHearNothing, SocketInv
<1>7. SocketTypeOK'
  BY <1>1, <1>2, <1>4 DEF SocketTypeOK, SocketInv
<1>8. LateOnce'
  BY <1>1 DEF LateOnce, SocketInv
<1>9. OneAfterTheOther' /\ HeardOnceInOrder'
  BY <1>1 DEF OneAfterTheOther, AtMostOneOpen, Open, Listening, HeardUpTo,
              HeardOnceInOrder, SocketInv
<1> QED
  BY <1>5, <1>6, <1>7, <1>8, <1>9 DEF SocketInv

(* What every other step leaves alone, and the part of the invariant that  *)
(* rests on it.                                                            *)
LEMMA NothingHeard ==
  ASSUME SocketInv, UNCHANGED <<callbacks, heard>>
  PROVE  /\ StrangersHearNothing' /\ EarlierHearsMore'
         /\ (overlapped => overlapped') => HeardOnceInOrder'
<1> QED
  BY DEF StrangersHearNothing, EarlierHearsMore, HeardOnceInOrder, SocketInv

(* A step of one task to another place of connect() which neither reads a  *)
(* message nor touches the flag.                                           *)
LEMMA Moves ==
  ASSUME SocketInv, NEW c \in Tasks, NEW next, Goes(c, next),
         next \in {"scheduled", "checking", "waiting", "ended"},
         next = "scheduled" => phase[c] = "none",
         next = "checking" => phase[c] = "waiting",
         next = "waiting" => phase[c] = "checking" /\ running,
         UNCHANGED <<running, callbacks, read, published, heard, late, overlapped>>
  PROVE  SocketInv'
<1>1. /\ phase' = [phase EXCEPT ![c] = next]
      /\ phase \in [Tasks -> {"none", "scheduled", "opening", "checking",
                              "waiting", "ended"}]
  BY DEF Goes, SocketInv, SocketTypeOK
<1>2. SocketTypeOK'
  BY <1>1 DEF SocketTypeOK, SocketInv
<1>3. LateOnce'
  BY <1>1 DEF LateOnce, SocketInv
<1>4. \A d \in Tasks : (Open(d)' => Open(d)) /\ (Listening(d)' => Listening(d))
  BY <1>1 DEF Open, Listening
<1>5. OneAfterTheOther'
  BY <1>4 DEF OneAfterTheOther, AtMostOneOpen, HeardUpTo, SocketInv
<1> QED
  BY <1>2, <1>3, <1>5, NothingHeard DEF SocketInv

LEMMA Begins ==
  ASSUME SocketInv, NEW c \in Tasks, connect(c)
  PROVE  SocketInv'
<1>1. /\ phase[c] = "scheduled"
      /\ phase' = [phase EXCEPT ![c] = "opening"]
      /\ running' = TRUE
      /\ late' = [d \in Tasks |-> 0]
      /\ overlapped' = (overlapped \/ \E d \in Tasks : Open(d))
      /\ UNCHANGED <<callbacks, read, published, heard>>
  BY DEF connect, Goes
<1>2. SocketTypeOK'
  BY <1>1 DEF SocketTypeOK, SocketInv
<1>3. LateOnce'
  BY <1>1 DEF LateOnce
<1>4. ~overlapped' => ~overlapped /\ \A d \in Tasks : Open(d)' => d = c
  BY <1>1 DEF Open, SocketInv, SocketTypeOK
<1>5. OneAfterTheOther'
  BY <1>1, <1>4 DEF OneAfterTheOther, AtMostOneOpen, Open, Listening, HeardUpTo,
                    SocketInv, SocketTypeOK
<1> QED
  BY <1>1, <1>2, <1>3, <1>5, NothingHeard DEF SocketInv

LEMMA Opens ==
  ASSUME SocketInv, NEW c \in Tasks, Connected(c)
  PROVE  SocketInv'
<1>1. /\ phase[c] = "opening"
      /\ phase' = [phase EXCEPT ![c] = "checking"]
      /\ read' = [read EXCEPT ![c] = published]
      /\ UNCHANGED <<running, callbacks, published, heard, late, overlapped>>
  BY DEF Connected, Goes
<1>2. SocketTypeOK'
  BY <1>1 DEF SocketTypeOK, SocketInv
<1>3. LateOnce'
  BY <1>1 DEF LateOnce, SocketInv, SocketTypeOK
<1>4. /\ \A d \in Tasks : Open(d)' <=> Open(d)
      /\ \A d \in Tasks \ {c} : (Listening(d)' => Listening(d)) /\ read'[d] = read[d]
      /\ read'[c] = published
  BY <1>1 DEF Open, Listening, SocketInv, SocketTypeOK
<1>5. OneAfterTheOther'
  BY <1>1, <1>4 DEF OneAfterTheOther, AtMostOneOpen, HeardUpTo, SocketInv
<1> QED
  BY <1>1, <1>2, <1>3, <1>5, NothingHeard DEF SocketInv

(* A message that does not parse is read and handed to nobody. *)
LEMMA Breaks ==
  ASSUME SocketInv, NEW c \in Tasks, Unreadable(c)
  PROVE  SocketInv'
<1>1. /\ phase[c] = "waiting" /\ read[c] < published
      /\ phase' = [phase EXCEPT ![c] = "ended"]
      /\ read' = [read EXCEPT ![c] = @ + 1]
      /\ UNCHANGED <<running, callbacks, published, heard, late, overlapped>>
  BY DEF Unreadable, Readable, Taken, Goes
<1>2. read[c] + 1 \in 0 .. published
  BY <1>1, MessagesAssumption DEF SocketInv, SocketTypeOK
<1>3. SocketTypeOK'
  BY <1>1, <1>2 DEF SocketTypeOK, SocketInv
<1>4. LateOnce'
  BY <1>1 DEF LateOnce, SocketInv, SocketTypeOK
<1>5. /\ \A d \in Tasks : Open(d)' => Open(d)
      /\ ~Listening(c)'
      /\ \A d \in Tasks \ {c} : (Listening(d)' => Listening(d)) /\ read'[d] = read[d]
  BY <1>1 DEF Open, Listening, SocketInv, SocketTypeOK
<1>6. OneAfterTheOther'
  BY <1>1, <1>5 DEF OneAfterTheOther, AtMostOneOpen, HeardUpTo, SocketInv
<1> QED
  BY <1>1, <1>3, <1>4, <1>6, NothingHeard DEF SocketInv

LEMMA Stops ==
  ASSUME SocketInv, disconnect
  PROVE  SocketInv'
<1> USE DEF disconnect
<1>1. SocketTypeOK' /\ LateOnce'
  BY DEF SocketTypeOK, LateOnce, SocketInv
<1>2. OneAfterTheOther'
  BY DEF OneAfterTheOther, AtMostOneOpen, Open, Listening, HeardUpTo, SocketInv
<1> QED
  BY <1>1, <1>2, NothingHeard DEF SocketInv

LEMMA Sends ==
  ASSUME SocketInv, Publish
  PROVE  SocketInv'
<1>1. /\ published < MaxMessages /\ published' = published + 1
      /\ UNCHANGED <<running, callbacks, phase, read, heard, late, overlapped>>
  BY DEF Publish
<1>2. published \in Nat /\ published' \in 0 .. MaxMessages
  BY <1>1, MessagesAssumption DEF SocketInv, SocketTypeOK
<1>3. read' \in [Tasks -> 0 .. published']
  BY <1>1, <1>2 DEF SocketInv, SocketTypeOK
<1>4. SocketTypeOK' /\ LateOnce'
  BY <1>1, <1>2, <1>3 DEF SocketTypeOK, LateOnce, SocketInv
<1>5. HeardUpTo(published)'
  <2>1. ASSUME NEW s \in Subscribers, NEW i \in DOMAIN heard[s]
        PROVE  heard[s][i] \in Nat /\ heard[s][i] <= published
    BY <2>1, MessagesAssumption, ElementOfSeq, LenProperties
       DEF SocketInv, SocketTypeOK, OneAfterTheOther, HeardUpTo
  <2> QED
    BY <1>1, <1>2, <2>1 DEF HeardUpTo
<1>6. OneAfterTheOther'
  BY <1>1, <1>5 DEF OneAfterTheOther, AtMostOneOpen, Open, Listening, HeardUpTo,
                    SocketInv
<1> QED
  BY <1>1, <1>4, <1>6, NothingHeard DEF SocketInv

------------------------------------------------------------------------------
LEMMA Starts == SocketInit => SocketInv
<1> SUFFICES ASSUME SocketInit PROVE SocketInv
  OBVIOUS
<1>1. /\ callbacks = << >> /\ DOMAIN callbacks = {}
      /\ << >> \in Seq(Subscribers) /\ << >> \in Seq(1 .. MaxMessages)
      /\ \A s \in Subscribers : heard[s] = << >> /\ DOMAIN heard[s] = {}
  BY EmptySeq DEF SocketInit
<1>2. SocketTypeOK
  <2>1. IsInjective(callbacks)
    BY <1>1 DEF IsInjective
  <2>2. heard \in [Subscribers -> Seq(1 .. MaxMessages)]
    BY <1>1 DEF SocketInit
  <2>3. published \in 0 .. MaxMessages /\ read \in [Tasks -> 0 .. published]
    BY MessagesAssumption DEF SocketInit
  <2> QED
    BY <1>1, <2>1, <2>2, <2>3 DEF SocketInit, SocketTypeOK
<1>3. LateOnce
  BY DEF SocketInit, LateOnce
<1>4. StrangersHearNothing /\ EarlierHearsMore
  BY <1>1 DEF StrangersHearNothing, EarlierHearsMore
<1>5. OneAfterTheOther /\ HeardOnceInOrder
  BY <1>1 DEF SocketInit, OneAfterTheOther, AtMostOneOpen, Open, Listening, HeardUpTo,
              HeardOnceInOrder, Increases
<1> QED
  BY <1>2, <1>3, <1>4, <1>5 DEF SocketInv

LEMMA Continuation == SocketInv /\ [SocketNext]_socketVars => SocketInv'
<1> SUFFICES ASSUME SocketInv, [SocketNext]_socketVars PROVE SocketInv'
  OBVIOUS
<1>1. ASSUME NEW s \in Subscribers, on_update(s) PROVE SocketInv'
  BY <1>1, Registration
<1>2. ASSUME NEW c \in Tasks, start(c) PROVE SocketInv'
  BY <1>2, Moves DEF start
<1>3. ASSUME NEW c \in Tasks, connect(c) PROVE SocketInv'
  BY <1>3, Begins
<1>4. ASSUME NEW c \in Tasks, ImportFails(c) \/ Refused(c) \/ Lost(c) PROVE SocketInv'
  BY <1>4, Moves DEF ImportFails, Refused, Lost
<1>5. ASSUME NEW c \in Tasks, Connected(c) PROVE SocketInv'
  BY <1>5, Opens
<1>6. ASSUME NEW c \in Tasks, Check(c) PROVE SocketInv'
  <2>1. CASE running
    BY <1>6, <2>1, Moves DEF Check, Continues
  <2>2. CASE ~running
    BY <1>6, <2>2, Moves DEF Check, Continues
  <2> QED
    BY <2>1, <2>2
<1>7. ASSUME NEW c \in Tasks, Deliver(c) PROVE SocketInv'
  BY <1>7, DeliveryType, DeliveryLate, DeliveryHears, DeliveryOrder DEF SocketInv
<1>8. ASSUME NEW c \in Tasks, Unreadable(c) PROVE SocketInv'
  BY <1>8, Breaks
<1>9. ASSUME NEW c \in Tasks, Timeout(c) PROVE SocketInv'
  BY <1>9, Moves DEF Timeout
<1>10. CASE disconnect
  BY <1>10, Stops
<1>11. CASE Publish
  BY <1>11, Sends
<1>12. CASE UNCHANGED socketVars
  <2>1. SocketTypeOK' /\ LateOnce' /\ StrangersHearNothing' /\ EarlierHearsMore'
    BY <1>12 DEF socketVars, SocketInv, SocketTypeOK, LateOnce, StrangersHearNothing,
                 EarlierHearsMore
  <2>2. OneAfterTheOther' /\ HeardOnceInOrder'
    BY <1>12 DEF socketVars, SocketInv, OneAfterTheOther, AtMostOneOpen, Open, Listening,
                 HeardUpTo, HeardOnceInOrder
  <2> QED
    BY <2>1, <2>2 DEF SocketInv
<1> QED
  BY <1>1, <1>2, <1>3, <1>4, <1>5, <1>6, <1>7, <1>8, <1>9, <1>10, <1>11, <1>12
     DEF SocketNext, SocketStep

(* The inductive invariant: what a task has read bounds what subscribers   *)
(* have heard, as long as one loop follows the other.                      *)
THEOREM SocketInvariant == SocketSpec => []SocketInv
<1> QED
  BY Starts, Continuation, PTL DEF SocketSpec

(* After disconnect() a connection hands over one update at most, for any  *)
(* number of connections and messages.                                     *)
THEOREM LastUpdate == SocketSpec => []OneMoreUpdate
<1>1. SocketInv => OneMoreUpdate
  BY DEF SocketInv, LateOnce, OneMoreUpdate, SocketTypeOK
<1> QED
  BY <1>1, SocketInvariant, PTL

(* A subscriber hears every update once and in the order of the server, as *)
(* long as no loop is revived beside another, through any number of broken *)
(* and renewed connections.                                                *)
THEOREM UpdatesInOrder == SocketSpec => []HeardOnceInOrder
<1>1. SocketInv => HeardOnceInOrder
  BY DEF SocketInv
<1> QED
  BY <1>1, SocketInvariant, PTL

(* Whoever registered earlier has heard all that a later one has, wherever *)
(* callbacks raised.                                                       *)
THEOREM FirstServed == SocketSpec => []EarlierHearsMore
<1>1. SocketInv => EarlierHearsMore
  BY DEF SocketInv
<1> QED
  BY <1>1, SocketInvariant, PTL
===============================================================================
