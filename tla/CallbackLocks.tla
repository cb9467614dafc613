---------------------------- MODULE CallbackLocks ----------------------------
(***************************************************************************)
(* The mutexes of the components that call back.  PositionTracker,         *)
(* AlertManager and MarketData each guard their state with a std::mutex    *)
(* (not recursive), in a std::lock_guard, and call their subscriber before *)
(* the guard ends.  What a subscriber calls in turn is the application's   *)
(* choice, the wiring: any is possible.                                    *)
(***************************************************************************)
EXTENDS Integers, Sequences

CONSTANTS
  Threads,
  Components,     \* the objects that own a mutex
  Wirings,        \* the calls the subscriber of each component makes, in order
  MaxCalls        \* bound: calls made by the application

(* A call of a component: "query" only reads or writes its state, "notify" *)
(* also calls the subscriber, "install" and "remove" set the subscriber.   *)
Kinds == {"query", "notify", "install", "remove"}

Method == [component : Components, kind : Kinds]

ASSUME WiringsAssumption == Wirings \subseteq [Components -> Seq(Method)]

ASSUME MaxCallsAssumption == MaxCalls \in Nat

VARIABLES
  owner,      \* the thread inside each component's mutex, if any
  stack,      \* the calls a thread is inside of, outermost first
  waiting,    \* the call a thread is about to make: at most one
  callback,   \* the components with a subscriber installed
  wiring,     \* what the subscribers call
  made        \* application calls so far

vars == <<owner, stack, waiting, callback, wiring, made>>

Nobody == "nobody"

ASSUME NobodyAssumption == Nobody \notin Threads

Frame == [component : Components, left : Seq(Method)]

Init ==
  /\ owner = [k \in Components |-> Nobody]
  /\ stack = [t \in Threads |-> << >>]
  /\ waiting = [t \in Threads |-> << >>]
  /\ callback = {}
  /\ wiring \in Wirings
  /\ made = 0

Top(t) == stack[t][Len(stack[t])]

Idle(t) == stack[t] = << >> /\ waiting[t] = << >>

------------------------------------------------------------------------------
(* The application calls a component. *)
Invoke(t, method) ==
  /\ Idle(t)
  /\ made < MaxCalls
  /\ made' = made + 1
  /\ waiting' = [waiting EXCEPT ![t] = <<method>>]
  /\ UNCHANGED <<owner, stack, callback, wiring>>

Subscribed(method) ==
  CASE method.kind = "install" -> callback \cup {method.component}
    [] method.kind = "remove" -> callback \ {method.component}
    [] OTHER -> callback

(* Mutant: a method that has locked the mutex calls a public method of its *)
(* own class.                                                              *)
Calls_OwnMethod(method) ==
  IF method.kind = "notify"
    THEN <<[component |-> method.component, kind |-> "query"]>> ELSE << >>

Calls(method) ==
  IF method.kind = "notify" /\ method.component \in callback
    THEN wiring[method.component] ELSE << >>

(* Mutant: the mutex is recursive. *)
Free_Recursive(k, t) == owner[k] \in {Nobody, t}

(* A std::mutex is given to nobody, not even to its own thread, until it   *)
(* is unlocked.                                                            *)
Free(k, t) == owner[k] = Nobody

(* std::lock_guard: the thread gets the mutex.  The body then runs; a      *)
(* notifying one goes on to the calls of the subscriber.                   *)
Enter(t) ==
  LET method == waiting[t][1]
      k == method.component
  IN /\ waiting[t] # << >>
     /\ Free(k, t)
     /\ owner' = [owner EXCEPT ![k] = t]
     /\ stack' = [stack EXCEPT ![t] =
                    Append(@, [component |-> k, left |-> Calls(method)])]
     /\ waiting' = [waiting EXCEPT ![t] = << >>]
     /\ callback' = Subscribed(method)
     /\ UNCHANGED <<wiring, made>>

(* The subscriber makes its next call, with the mutex still held. *)
CallFromHandler(t) ==
  /\ stack[t] # << >>
  /\ waiting[t] = << >>
  /\ Top(t).left # << >>
  /\ waiting' = [waiting EXCEPT ![t] = <<Head(Top(t).left)>>]
  /\ stack' = [stack EXCEPT ![t][Len(stack[t])].left = Tail(@)]
  /\ UNCHANGED <<owner, callback, wiring, made>>

(* The end of the guard's scope unlocks the mutex. *)
Unlock(t) ==
  /\ owner' = [owner EXCEPT ![Top(t).component] = Nobody]
  /\ stack' = [stack EXCEPT ![t] = SubSeq(@, 1, Len(@) - 1)]
  /\ UNCHANGED <<waiting, callback, wiring, made>>

Leave(t) ==
  /\ stack[t] # << >>
  /\ waiting[t] = << >>
  /\ Top(t).left = << >>
  /\ Unlock(t)

(* Mutant: the mutex is locked by hand, and an exception passes the unlock.*)
Throw_PassesUnlock(t) ==
  /\ stack[t] # << >>
  /\ waiting[t] = << >>
  /\ Top(t).left # << >>
  /\ stack' = [stack EXCEPT ![t] = SubSeq(@, 1, Len(@) - 1)]
  /\ UNCHANGED <<owner, waiting, callback, wiring, made>>

(* The subscriber throws and drops the calls it had still to make.  The    *)
(* exception leaves the method too; the subscriber below, if there is one, *)
(* catches it and goes on, or throws as well.                              *)
Throw(t) ==
  /\ stack[t] # << >>
  /\ waiting[t] = << >>
  /\ Top(t).left # << >>
  /\ Unlock(t)

Step(t) == Enter(t) \/ CallFromHandler(t) \/ Leave(t) \/ Throw(t)

Next ==
  \E t \in Threads :
    \/ \E method \in Method : Invoke(t, method)
    \/ Step(t)

Spec == Init /\ [][Next]_vars

(* The scheduler runs every thread that can run.  Nothing is assumed of    *)
(* the order in which std::mutex serves its waiters.                       *)
FairSpec == Spec /\ \A t \in Threads : WF_vars(Step(t))

------------------------------------------------------------------------------
TypeOK ==
  /\ owner \in [Components -> Threads \cup {Nobody}]
  /\ stack \in [Threads -> Seq(Frame)]
  /\ waiting \in [Threads -> Seq(Method)]
  /\ callback \subseteq Components
  /\ wiring \in Wirings
  /\ made \in Nat

WaitsFor(t, u) == waiting[t] # << >> /\ owner[waiting[t][1].component] = u

(* Threads that wait for one another only. *)
Deadlocked(S) == \A t \in S : \E u \in S : WaitsFor(t, u)

(* Components of which each has a subscriber that calls one of them. *)
CallEachOther(C) ==
  \A k \in C : \E i \in DOMAIN wiring[k] : wiring[k][i].component \in C

(* Threads wait in a circle, of one thread or of many, only where the      *)
(* application's subscribers call in a circle the very components these    *)
(* threads hold: the components alone never deadlock, and an application   *)
(* whose subscribers call in one direction only cannot make them.          *)
DeadlockIsACircleOfSubscribers ==
  \A S \in SUBSET Threads :
    S # {} /\ Deadlocked(S) =>
      \E C \in SUBSET Components :
        C # {} /\ CallEachOther(C) /\ \A k \in C : owner[k] \in S

(* What is deadlocked stays so: a mutex is not recursive, and no other     *)
(* thread and no exception frees it.                                       *)
DeadlockIsForGood ==
  [][\A S \in SUBSET Threads : Deadlocked(S) => Deadlocked(S)']_vars

Stuck == UNION {S \in SUBSET Threads : Deadlocked(S)}

(* Every call an application makes returns, through every nesting of       *)
(* subscribers and after every exception, unless its thread ends up in or  *)
(* behind a deadlock, once the application makes no more than finitely     *)
(* many.                                                                   *)
CallsReturnOrDeadlock ==
  \A t \in Threads : ~Idle(t) ~> Idle(t) \/ t \in Stuck
=============================================================================
