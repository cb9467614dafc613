--------------------------- MODULE MarketDataProofs ---------------------------
(***************************************************************************)
(* Proofs about MarketData, for any symbols, ticks, files, sessions and    *)
(* questions: is_market_open never answers for a session that was not in   *)
(* force nor for an hour that nobody asked for, whatever stores and writes *)
(* come between its loads; is_stale judges ages right although they wrap;  *)
(* a subscriber can mirror the live prices of the cache; and a file is     *)
(* replayed whole and in the order of time.                                *)
(***************************************************************************)
EXTENDS MarketData, SequenceTheorems, FiniteSetTheorems, WellFoundedInduction, TLAPS

------------------------------------------------------------------------------
(* Hours.  While set_market_hours stores, each hour is that of the session *)
(* before or of the one that is set, and both were in force at some time   *)
(* of a question that is open; so was the session each load was taken of.  *)
HalfStored ==
  \A b \in Bounds : hours[b] = IF b \in storing THEN before[b] ELSE target[b]

LoadsAreOld ==
  /\ asked # Idle => {before, target} \subseteq during
  /\ \A b \in Bounds :
       loaded[b] # Idle =>
         hour # Idle /\ \E session \in during : loaded[b] = session[b]

(* The hour in the buffer, and the one that was read of it, was written by *)
(* this question or by one that came in between.                           *)
HourWritten ==
  /\ asked = Idle => hour = Idle
  /\ asked # Idle /\ hour = Idle => tm_hour \in written
  /\ hour # Idle => hour \in written

SessionInv ==
  /\ hours \in Session /\ target \in Session /\ before \in Session
  /\ during \subseteq Session /\ storing \subseteq Bounds
  /\ asked \in Questions \cup {Idle}
  /\ tm_hour \in 0 .. 23 \cup {Idle} /\ hour \in 0 .. 23 \cup {Idle}
  /\ written \subseteq 0 .. 23
  /\ loaded \in [Bounds -> Int]
  /\ Unlocked => before = target
  /\ HalfStored
  /\ LoadsAreOld
  /\ HourWritten

LEMMA HourType ==
  ASSUME NEW t \in Questions
  PROVE  HourOf(t) \in 0 .. 23 /\ HourOf(t) # Idle /\ t # Idle
<1>1. t \in Nat /\ HourLength \in Nat /\ HourLength > 0
  BY HoursAssumption
<1>2. t \div HourLength \in Nat
  BY <1>1
<1> DEFINE d == t \div HourLength
<1>3. (d % 24) \in 0 .. 23
  <2> HIDE DEF d
  <2> QED
    BY <1>2 DEF d
<1> QED
  BY <1>1, <1>3 DEF HourOf, Idle

LEMMA SessionType ==
  ASSUME NEW session \in Session, NEW b \in Bounds
  PROVE  session[b] \in 0 .. 24 /\ session[b] # Idle
<1> QED
  BY DEF Session, Idle

LEMMA SessionStarts == Init => SessionInv
<1> SUFFICES ASSUME Init PROVE SessionInv
  OBVIOUS
<1>1. hours \in Session
  BY DEF Init, Session, Bounds
<1>2. \A b \in Bounds : loaded[b] = Idle
  BY DEF Init, NoLoads
<1> QED
  BY <1>1, <1>2
     DEF Init, SessionInv, HalfStored, LoadsAreOld, HourWritten, NoLoads, Idle, Unlocked

(* A new session is in force as soon as its first hour is stored. *)
LEMMA SetsHours ==
  ASSUME SessionInv, NEW session \in Sessions, NEW b \in Bounds,
         set_market_hours(session, b)
  PROVE  SessionInv'
<1>1. /\ storing = {} /\ before = target
      /\ target' = session /\ before' = target
      /\ hours' = [hours EXCEPT ![b] = session[b]]
      /\ storing' = Bounds \ {b}
      /\ during' = IF asked = Idle THEN during ELSE during \cup {session}
      /\ UNCHANGED <<asked, tm_hour, hour, loaded, written>>
  BY DEF set_market_hours, Unlocked, SessionInv
<1>2. session \in Session
  BY HoursAssumption
<1>3. hours' \in Session
  BY <1>1, <1>2, SessionType DEF SessionInv, Session
<1>4. HalfStored'
  BY <1>1, <1>3 DEF SessionInv, HalfStored, Session
<1>5. LoadsAreOld'
  BY <1>1 DEF SessionInv, LoadsAreOld
<1>6. ~Unlocked'
  BY <1>1 DEF Unlocked, Bounds
<1> QED
  BY <1>1, <1>2, <1>3, <1>4, <1>5, <1>6 DEF SessionInv, HourWritten

LEMMA StoresHour ==
  ASSUME SessionInv, NEW b \in Bounds, StoreHour(b)
  PROVE  SessionInv'
<1>1. /\ hours' = [hours EXCEPT ![b] = target[b]]
      /\ storing' = storing \ {b}
      /\ before' = IF storing' = {} THEN target ELSE before
      /\ UNCHANGED <<target, asked, tm_hour, hour, loaded, during, written>>
  BY DEF StoreHour, questionVars
<1>2. hours' \in Session
  BY <1>1, SessionType DEF SessionInv, Session
<1>3. HalfStored'
  BY <1>1, <1>2 DEF SessionInv, HalfStored, Session
<1>4. LoadsAreOld'
  BY <1>1 DEF SessionInv, LoadsAreOld
<1> QED
  BY <1>1, <1>2, <1>3, <1>4 DEF SessionInv, HourWritten, Unlocked

(* An hour that is loaded is one of a session in force. *)
LEMMA LoadsHour ==
  ASSUME SessionInv, NEW b \in Bounds, LoadHour(b)
  PROVE  SessionInv'
<1>1. /\ hour # Idle
      /\ loaded' = [loaded EXCEPT ![b] = hours[b]]
      /\ UNCHANGED <<hours, target, storing, before, asked, tm_hour, hour, during, written>>
  BY DEF LoadHour, sessionVars
<1>2. loaded' \in [Bounds -> Int] /\ hours[b] \in 0 .. 24
  BY <1>1, SessionType DEF SessionInv
<1>3. \E session \in during : hours[b] = session[b]
  BY <1>1 DEF SessionInv, HalfStored, LoadsAreOld, HourWritten
<1>4. LoadsAreOld'
  BY <1>1, <1>2, <1>3 DEF SessionInv, LoadsAreOld
<1> QED
  BY <1>1, <1>2, <1>4 DEF SessionInv, HalfStored, HourWritten, Unlocked

(* A question writes its hour, or another thread does, and it is read.     *)
LEMMA TakesHour ==
  ASSUME SessionInv,
         ReadHour \/ \E t \in Questions : is_market_open(t) \/ OtherTime(t)
  PROVE  SessionInv'
<1>1. UNCHANGED <<hours, target, storing, before, loaded>>
  BY DEF ReadHour, is_market_open, OtherTime, sessionVars
<1>2. HalfStored' /\ (Unlocked' => before' = target')
  BY <1>1 DEF SessionInv, HalfStored, Unlocked
<1>3. CASE ReadHour
  <2>1. /\ asked # Idle /\ hour = Idle /\ hour' = tm_hour /\ tm_hour' = Idle
        /\ UNCHANGED <<asked, during, written>>
    BY <1>3 DEF ReadHour
  <2>2. hour' \in written /\ hour' \in 0 .. 23 /\ hour' # Idle
    BY <2>1 DEF SessionInv, HourWritten, Idle
  <2>3. LoadsAreOld' /\ HourWritten'
    BY <1>1, <2>1, <2>2 DEF SessionInv, LoadsAreOld, HourWritten
  <2> QED
    BY <1>1, <1>2, <2>1, <2>2, <2>3 DEF SessionInv
<1>4. ASSUME NEW t \in Questions, is_market_open(t) PROVE SessionInv'
  <2>1. /\ asked = Idle /\ asked' = t /\ tm_hour' = HourOf(t)
        /\ written' = {HourOf(t)} /\ during' = {before, target} /\ hour' = hour
    BY <1>4 DEF is_market_open
  <2>2. HourOf(t) \in 0 .. 23 /\ t # Idle
    BY HourType
  <2>3. LoadsAreOld' /\ HourWritten'
    BY <1>1, <2>1, <2>2 DEF SessionInv, LoadsAreOld, HourWritten
  <2> QED
    BY <1>1, <1>2, <2>1, <2>2, <2>3 DEF SessionInv
<1>5. ASSUME NEW t \in Questions, OtherTime(t) PROVE SessionInv'
  <2>1. /\ asked # Idle /\ hour = Idle /\ tm_hour' = HourOf(t)
        /\ written' = written \cup {HourOf(t)} /\ UNCHANGED <<asked, hour, during>>
    BY <1>5 DEF OtherTime
  <2>2. HourOf(t) \in 0 .. 23
    BY HourType
  <2>3. LoadsAreOld' /\ HourWritten'
    BY <1>1, <2>1, <2>2 DEF SessionInv, LoadsAreOld, HourWritten
  <2> QED
    BY <1>1, <1>2, <2>1, <2>2, <2>3 DEF SessionInv
<1> QED
  BY <1>3, <1>4, <1>5

LEMMA SessionContinues == SessionInv /\ [Next]_vars => SessionInv'
<1> SUFFICES ASSUME SessionInv, [Next]_vars PROVE SessionInv'
  OBVIOUS
<1>1. CASE UNCHANGED <<sessionVars, questionVars>>
  BY <1>1
     DEF SessionInv, HalfStored, LoadsAreOld, HourWritten, sessionVars, questionVars,
         Unlocked
<1>2. CASE Feed \/ Replay \/ UNCHANGED vars
  BY <1>1, <1>2
     DEF Feed, Replay, vars, update_price, on_price_update, SetClock,
         load_from_csv, replay_next, reset_replay
<1>3. ASSUME NEW session \in Sessions, NEW b \in Bounds, set_market_hours(session, b)
      PROVE  SessionInv'
  BY <1>3, SetsHours
<1>4. ASSUME NEW b \in Bounds, StoreHour(b) \/ LoadHour(b)
      PROVE  SessionInv'
  BY <1>4, StoresHour, LoadsHour
<1>5. CASE ReadHour \/ \E t \in Questions : is_market_open(t) \/ OtherTime(t)
  BY <1>5, TakesHour
<1>6. CASE Return
  <2>1. /\ asked' = Idle /\ hour' = Idle /\ during' = {} /\ written' = {}
        /\ loaded' \in [Bounds -> Int] /\ \A b \in Bounds : loaded'[b] = Idle
        /\ UNCHANGED <<sessionVars, tm_hour>>
    BY <1>6 DEF Return, NoLoads, Idle
  <2> QED
    BY <2>1 DEF SessionInv, HalfStored, LoadsAreOld, HourWritten, sessionVars, Unlocked
<1> QED
  BY <1>2, <1>3, <1>4, <1>5, <1>6 DEF Next, Hours

(* The answer is that of an hour written meanwhile and some session in     *)
(* force, or of the opening hour of one and the closing hour of another:   *)
(* it is never closed when all the hours are within all the sessions, nor  *)
(* open when they are early, or late, for all of them (is_market_open).    *)
THEOREM AnswersJustified == Spec => []AnswerJustified
<1>1. SessionInv => AnswerJustified
  <2> SUFFICES ASSUME SessionInv, Answered
               PROVE  /\ (\A s \in during, h \in written : Within(h, s)) => Answer
                      /\ (\A s \in during, h \in written : h < s["open"]) => ~Answer
                      /\ (\A s \in during, h \in written : h >= s["close"]) => ~Answer
    BY DEF AnswerJustified
  <2>1. PICK early \in during : loaded["open"] = early["open"]
    BY DEF SessionInv, LoadsAreOld, Answered, Bounds
  <2>2. PICK late \in during : loaded["close"] = late["close"]
    BY DEF SessionInv, LoadsAreOld, Answered, Bounds
  <2>3. early["open"] \in Int /\ late["close"] \in Int
    BY <2>1, <2>2, SessionType DEF SessionInv, Bounds
  <2>4. hour \in Int /\ hour \in written
    BY DEF SessionInv, HourWritten, Answered
  <2> QED
    BY <2>1, <2>2, <2>3, <2>4 DEF Within, Answer
<1> QED
  BY <1>1, SessionStarts, SessionContinues, PTL DEF Spec

------------------------------------------------------------------------------
(* Prices.  Whatever a load leaves behind are ticks, so that the cache     *)
(* holds ticks; the callback is behind it only through a replay, and what  *)
(* it has heard of is in the cache.                                        *)
FeedInv ==
  /\ cache \in [Symbols -> Ticks \cup {NoTick}]
  /\ heard \in [Symbols -> Ticks \cup {NoTick}]
  /\ origin \in [Symbols -> Origins]
  /\ clock \in 0 .. MaxTime
  /\ replay_data \in Seq(Ticks) /\ replay_index \in Nat
  /\ SubscriberSeesCache

(* The first line that does not parse comes after lines that do. *)
LEMMA ParsedPrefix ==
  ASSUME NEW file \in Files, Throws(file)
  PROVE  /\ Parsed(file) \in 0 .. Len(file)
         /\ \A i \in 1 .. Parsed(file) : file[i] \in Ticks
<1> DEFINE I == {i \in 1 .. Len(file) : file[i] = Malformed}
           R == OpToRel(<, Nat)
<1>1. /\ file \in Seq(Ticks \cup {Malformed})
      /\ Len(file) \in Nat /\ DOMAIN file = 1 .. Len(file)
      /\ \A i \in 1 .. Len(file) : file[i] \in Ticks \cup {Malformed}
  BY FilesAssumption, LenProperties, ElementOfSeq
<1>2. I \subseteq Nat /\ I # {}
  BY <1>1 DEF Throws
<1>3. PICK m \in I : \A y \in I : ~(<<y, m>> \in R)
  <2>1. IsWellFoundedOn(R, Nat)
    BY NatLessThanWellFounded
  <2> HIDE DEF I, R
  <2> QED
    BY <1>2, <2>1, WFMin
<1>4. \A y \in I : m <= y
  <2> SUFFICES ASSUME NEW y \in I, y < m PROVE FALSE
    BY <1>2
  <2>1. <<y, m>> \in R
    <3>1. y \in Nat /\ m \in Nat
      BY <1>2
    <3> HIDE DEF I
    <3> QED
      BY <3>1 DEF R, OpToRel
  <2> QED
    BY <1>3, <2>1
<1>5. Min(I) \in I /\ \A y \in I : Min(I) <= y
  <2> HIDE DEF I
  <2> QED
    BY <1>4, <1>3 DEF Min
<1>6. Parsed(file) = Min(I) - 1
  BY <1>2 DEF Parsed, SelectInSeq
<1>7. Parsed(file) \in 0 .. Len(file)
  BY <1>1, <1>5, <1>6
<1>8. \A i \in 1 .. Parsed(file) : i \in 1 .. Len(file) /\ i \notin I
  BY <1>1, <1>2, <1>5, <1>6, <1>7
<1> QED
  BY <1>1, <1>7, <1>8

LEMMA LoadsTicks ==
  ASSUME NEW file \in Files \cup {Missing}, NEW ticks \in Loads(file)
  PROVE  ticks \in Seq(Ticks)
<1>1. CASE file = Missing
  BY <1>1, EmptySeq DEF Loads
<1>2. CASE file # Missing /\ Throws(file)
  <2> DEFINE n == Parsed(file)
  <2>1. /\ ticks = SubSeq(file, 1, n) /\ n \in 0 .. Len(file)
        /\ file \in Seq(Ticks \cup {Malformed}) /\ Len(file) \in Nat
        /\ \A i \in 1 .. n : file[i] \in Ticks
    BY <1>2, ParsedPrefix, FilesAssumption, LenProperties DEF Loads
  <2> HIDE DEF n
  <2> QED
    BY <2>1, SubSeqProperties
<1>3. CASE file # Missing /\ ~Throws(file)
  <2>1. /\ file \in Files /\ file \in Seq(Ticks \cup {Malformed})
        /\ DOMAIN file = 1 .. Len(file) /\ Len(file) \in Nat
        /\ \A i \in DOMAIN file : file[i] \in Ticks
    BY <1>3, FilesAssumption, LenProperties, ElementOfSeq DEF Throws
  <2>2. PICK p \in Bijection(DOMAIN file, DOMAIN file) : ticks = [i \in DOMAIN file |-> file[p[i]]]
    BY <1>3 DEF Loads, Sorted, Rearranged
  <2>3. p \in [DOMAIN file -> DOMAIN file]
    BY <2>2 DEF Bijection, Injection, Surjection
  <2>4. ticks \in [1 .. Len(file) -> Ticks]
    BY <2>1, <2>2, <2>3
  <2> QED
    BY <2>1, <2>4, IsASeq
<1> QED
  BY <1>1, <1>2, <1>3

LEMMA FeedStarts == Init => FeedInv
<1> QED
  BY EmptySeq, ClockAssumption
     DEF Init, FeedInv, SubscriberSeesCache, NoOrigin, Origins

LEMMA FeedContinues == FeedInv /\ [Next]_vars => FeedInv'
<1> SUFFICES ASSUME FeedInv, [Next]_vars PROVE FeedInv'
  OBVIOUS
<1>1. ASSUME NEW tick \in Ticks, update_price(tick) PROVE FeedInv'
  <2>1. tick.symbol \in Symbols
    BY TicksAssumption DEF PriceTick
  <2> QED
    BY <1>1, <2>1
       DEF update_price, Told, FeedInv, SubscriberSeesCache, replayVars, Origins
<1>2. CASE on_price_update
  BY <1>2
     DEF on_price_update, FeedInv, SubscriberSeesCache, replayVars, NoOrigin, Origins
<1>3. ASSUME NEW t \in 0 .. MaxTime, SetClock(t) PROVE FeedInv'
  BY <1>3 DEF SetClock, FeedInv, SubscriberSeesCache, feedVars, replayVars
<1>4. ASSUME NEW file \in Files \cup {Missing}, load_from_csv(file) PROVE FeedInv'
  BY <1>4, LoadsTicks DEF load_from_csv, FeedInv, SubscriberSeesCache, feedVars
<1>5. CASE replay_next
  <2> DEFINE tick == replay_data[replay_index + 1]
  <2>1. /\ cache' = [cache EXCEPT ![tick.symbol] = tick]
        /\ replay_remaining > 0
        /\ replay_index' = replay_index + 1
        /\ origin' = [origin EXCEPT ![tick.symbol] = "replay"]
        /\ UNCHANGED <<callback, heard, replay_data, clock>>
    BY <1>5 DEF replay_next
  <2>2. replay_index + 1 \in 1 .. Len(replay_data)
    BY <2>1, LenProperties DEF replay_remaining, FeedInv
  <2>3. tick \in Ticks
    BY <2>2, ElementOfSeq DEF FeedInv
  <2> HIDE DEF tick
  <2>4. /\ cache' \in [Symbols -> Ticks \cup {NoTick}]
        /\ origin' \in [Symbols -> Origins]
    BY <2>1, <2>3 DEF FeedInv, Origins
  <2>5. SubscriberSeesCache'
    BY <2>1 DEF FeedInv, SubscriberSeesCache
  <2> QED
    BY <2>1, <2>4, <2>5 DEF FeedInv
<1>6. CASE reset_replay
  BY <1>6 DEF reset_replay, FeedInv, SubscriberSeesCache, feedVars
<1>7. CASE Hours \/ UNCHANGED vars
  <2>1. UNCHANGED <<feedVars, replayVars, clock>>
    BY <1>7
       DEF Hours, vars, set_market_hours, StoreHour, LoadHour, is_market_open,
           OtherTime, ReadHour, Return
  <2> QED
    BY <2>1 DEF FeedInv, SubscriberSeesCache, feedVars, replayVars
<1> QED
  BY <1>1, <1>2, <1>3, <1>4, <1>5, <1>6, <1>7 DEF Next, Feed, Replay

(* A subscriber's price of a symbol is the cache's whenever the symbol's   *)
(* last tick was live, however replays and subscriptions came between      *)
(* (update_price, on_price_update).                                        *)
THEOREM SubscriberMirrors == Spec => []SubscriberSeesCache
<1>1. FeedInv => SubscriberSeesCache
  BY DEF FeedInv
<1> QED
  BY <1>1, FeedStarts, FeedContinues, PTL DEF Spec

(* The unsigned age of a tick is its age, or that of a tick from the       *)
(* future, which no staleness bound in use reaches.                        *)
LEMMA UnsignedAge ==
  ASSUME NEW t \in 0 .. MaxTime, NEW now \in 0 .. MaxTime
  PROVE  (now - t) % Word \in 0 .. MaxAge <=> now - t \in 0 .. MaxAge
<1>1. MaxTime \in Nat /\ MaxAge \in Nat /\ Word \in Nat /\ MaxTime + MaxAge < Word
  BY ClockAssumption
<1>2. CASE now - t >= 0
  <2>1. (now - t) % Word = now - t
    BY <1>1, <1>2
  <2> QED
    BY <2>1
<1>3. CASE now - t < 0
  <2>1. (now - t) % Word = now - t + Word
    BY <1>1, <1>3
  <2> QED
    BY <1>1, <1>3, <2>1
<1> QED
  BY <1>2, <1>3

(* A price passes for fresh exactly when it is, for clocks that are set in *)
(* any way and ticks of any time, as long as neither comes near the width  *)
(* of a timestamp.                                                         *)
THEOREM FreshPricesAreRecent == Spec => []FreshIsRecent
<1>1. FeedInv => FreshIsRecent
  <2> SUFFICES ASSUME FeedInv, NEW s \in Symbols
               PROVE  ~is_stale(s) <=>
                        \E age \in 0 .. MaxAge :
                          has_price(s) /\ cache[s].timestamp_ns + age = clock
    BY DEF FreshIsRecent
  <2>1. CASE ~has_price(s)
    BY <2>1 DEF is_stale
  <2>2. CASE has_price(s)
    <3> DEFINE t == cache[s].timestamp_ns
    <3>1. t \in 0 .. MaxTime /\ clock \in 0 .. MaxTime
      BY <2>2, TicksAssumption DEF FeedInv, has_price, PriceTick
    <3>2. /\ MaxTime \in Nat /\ MaxAge \in Nat /\ Word \in Nat /\ Word > 0
      BY ClockAssumption
    <3>3. Age(cache[s]) = (clock - t) % Word
      BY DEF Age
    <3> HIDE DEF t
    <3>4. (clock - t) % Word \in Nat
      BY <3>1, <3>2
    <3>5. ~is_stale(s) <=> (clock - t) % Word \in 0 .. MaxAge
      BY <2>2, <3>2, <3>3, <3>4 DEF is_stale
    <3>6. ~is_stale(s) <=> clock - t \in 0 .. MaxAge
      BY <3>1, <3>5, UnsignedAge
    <3>7. (\E age \in 0 .. MaxAge : t + age = clock) <=> clock - t \in 0 .. MaxAge
      BY <3>1, <3>2
    <3> QED
      BY <2>2, <3>6, <3>7 DEF t
  <2> QED
    BY <2>1, <2>2
<1> QED
  BY <1>1, FeedStarts, FeedContinues, PTL DEF Spec

------------------------------------------------------------------------------
(* Replay.  What is loaded is the source's, in order of time or, if a line *)
(* does not parse, the lines in front of it, and what was delivered is the *)
(* part of it in front of the index.                                       *)
Loaded(file, ticks) ==
  IF Throws(file) THEN ticks = SubSeq(file, 1, Parsed(file)) ELSE ticks \in Sorted(file)

ReplayInv ==
  /\ source \in Files \cup {<< >>}
  /\ Loaded(source, replay_data)
  /\ replay_index \in 0 .. Len(replay_data)
  /\ delivered = SubSeq(replay_data, 1, replay_index)

LEMMA NothingIsLoaded == ~Throws(<< >>) /\ << >> \in Sorted(<< >>)
<1> DEFINE p == [i \in {} |-> i]
<1>1. DOMAIN << >> = {}
  OBVIOUS
<1>2. p \in Bijection({}, {})
  <2>1. p \in [{} -> {}]
    OBVIOUS
  <2> HIDE DEF p
  <2> QED
    BY <2>1 DEF Bijection, Injection, Surjection, IsInjective
<1>3. << >> = [i \in {} |-> << >>[p[i]]]
  OBVIOUS
<1>4. << >> \in Rearranged(<< >>)
  BY <1>1, <1>2, <1>3 DEF Rearranged
<1>5. InTimeOrder(<< >>)
  BY <1>1 DEF InTimeOrder
<1> QED
  BY <1>1, <1>4, <1>5 DEF Throws, Sorted

LEMMA ReplayStarts == Init => ReplayInv
<1> SUFFICES ASSUME Init PROVE ReplayInv
  OBVIOUS
<1>1. /\ source = << >> /\ replay_data = << >> /\ replay_index = 0 /\ delivered = << >>
  BY DEF Init
<1>2. SubSeq(<< >>, 1, 0) = << >>
  BY SubSeqEmpty
<1> QED
  BY <1>1, <1>2, NothingIsLoaded DEF ReplayInv, Loaded

LEMMA ReplayContinues == FeedInv /\ ReplayInv /\ [Next]_vars => ReplayInv'
<1> SUFFICES ASSUME FeedInv, ReplayInv, [Next]_vars PROVE ReplayInv'
  OBVIOUS
<1>1. CASE UNCHANGED replayVars
  BY <1>1 DEF ReplayInv, replayVars
<1>2. ASSUME NEW file \in Files \cup {Missing}, load_from_csv(file) PROVE ReplayInv'
  <2>1. /\ replay_data' \in Loads(file) /\ replay_index' = 0 /\ delivered' = << >>
        /\ source' = IF file = Missing THEN << >> ELSE file
    BY <1>2 DEF load_from_csv
  <2>2. replay_data' \in Seq(Ticks)
    BY <2>1, LoadsTicks
  <2>3. Loaded(source', replay_data')
    BY <2>1, NothingIsLoaded DEF Loads, Loaded
  <2>4. 0 \in 0 .. Len(replay_data')
    BY <2>2, LenProperties
  <2>5. SubSeq(replay_data', 1, 0) = << >>
    BY SubSeqEmpty
  <2> QED
    BY <2>1, <2>3, <2>4, <2>5 DEF ReplayInv
<1>3. CASE replay_next
  <2>1. /\ replay_remaining > 0 /\ replay_index' = replay_index + 1
        /\ delivered' = Append(delivered, replay_data[replay_index + 1])
        /\ UNCHANGED <<replay_data, source>>
    BY <1>3 DEF replay_next
  <2>2. /\ replay_data \in Seq(Ticks) /\ Len(replay_data) \in Nat
        /\ replay_index \in Nat /\ replay_index + 1 \in 1 .. Len(replay_data)
    BY <2>1, LenProperties DEF replay_remaining, FeedInv, ReplayInv
  <2> DEFINE n == replay_index + 1
  <2>3. SubSeq(replay_data, 1, n) = SubSeq(replay_data, 1, n - 1) \o << replay_data[n] >>
    <3>1. 1 \in 1 .. Len(replay_data) /\ n \in 1 .. Len(replay_data)
      BY <2>2
    <3> HIDE DEF n
    <3> QED
      BY <2>2, <3>1, SubSeqRecursiveSecond
  <2>4. n - 1 = replay_index
    BY <2>2
  <2>5. delivered \in Seq(Ticks) /\ replay_data[n] \in Ticks
    <3>1. \A i \in 1 .. replay_index : replay_data[i] \in Ticks
      BY <2>2, ElementOfSeq
    <3>2. SubSeq(replay_data, 1, replay_index) \in Seq(Ticks)
      BY <2>2, <3>1, SubSeqProperties
    <3> QED
      BY <2>2, <3>2, ElementOfSeq DEF ReplayInv
  <2>6. Append(delivered, replay_data[n]) = delivered \o << replay_data[n] >>
    BY <2>5, AppendIsConcat
  <2> QED
    BY <2>1, <2>2, <2>3, <2>4, <2>6 DEF ReplayInv
<1>4. CASE reset_replay
  <2>1. SubSeq(replay_data, 1, 0) = << >> /\ 0 \in 0 .. Len(replay_data)
    BY SubSeqEmpty, LenProperties DEF FeedInv
  <2> QED
    BY <1>4, <2>1 DEF reset_replay, ReplayInv
<1>5. CASE Feed \/ Hours \/ UNCHANGED vars
  BY <1>1, <1>5
     DEF Feed, Hours, vars, update_price, on_price_update, SetClock,
         set_market_hours, StoreHour, LoadHour, is_market_open, OtherTime, ReadHour,
         Return
<1> QED
  BY <1>2, <1>3, <1>4, <1>5 DEF Next, Replay

(* Sorting keeps what there is, as often as it is there. *)
LEMMA SortedKeeps ==
  ASSUME NEW file \in Seq(Ticks \cup {Malformed}), NEW ticks \in Sorted(file), NEW tick
  PROVE  /\ InTimeOrder(ticks)
         /\ Len(ticks) = Len(file)
         /\ Cardinality(Occurrences(tick, ticks)) = Cardinality(Occurrences(tick, file))
<1>1. /\ DOMAIN file = 1 .. Len(file) /\ Len(file) \in Nat
  BY LenProperties
<1>2. PICK p \in Bijection(DOMAIN file, DOMAIN file) :
        ticks = [i \in DOMAIN file |-> file[p[i]]]
  BY DEF Sorted, Rearranged
<1>3. /\ p \in [DOMAIN file -> DOMAIN file]
      /\ \A i, j \in DOMAIN file : p[i] = p[j] => i = j
      /\ \A j \in DOMAIN file : \E i \in DOMAIN file : p[i] = j
  BY <1>2 DEF Bijection, Injection, Surjection, IsInjective
<1>4. ticks \in [1 .. Len(file) -> Ticks \cup {Malformed}]
  BY <1>1, <1>2, <1>3, ElementOfSeq
<1>5. Len(ticks) = Len(file) /\ DOMAIN ticks = DOMAIN file
  BY <1>1, <1>4, IsASeq, LenProperties
<1> DEFINE here == Occurrences(tick, ticks)
           there == Occurrences(tick, file)
           q == [i \in here |-> p[i]]
<1>6. IsFiniteSet(here)
  <2>1. here \subseteq 1 .. Len(file) /\ IsFiniteSet(1 .. Len(file))
    BY <1>1, <1>5, FS_Interval DEF Occurrences
  <2> QED
    BY <2>1, FS_Subset
<1>7. q \in Bijection(here, there)
  <2>1. q \in [here -> there]
    BY <1>2, <1>3, <1>5 DEF Occurrences
  <2>2. \A i, j \in here : q[i] = q[j] => i = j
    BY <1>3, <1>5 DEF Occurrences
  <2>3. \A j \in there : \E i \in here : q[i] = j
    BY <1>2, <1>3, <1>5 DEF Occurrences
  <2> HIDE DEF q, here, there
  <2> QED
    BY <2>1, <2>2, <2>3 DEF Bijection, Injection, Surjection, IsInjective
<1>8. Cardinality(here) = Cardinality(there)
  <2> HIDE DEF q, here, there
  <2>1. ExistsBijection(here, there)
    BY <1>7 DEF ExistsBijection
  <2> QED
    BY <1>6, <2>1, FS_Bijection
<1> QED
  BY <1>5, <1>8 DEF Sorted

(* What the loads of a question and the flag of the feed are. *)
LoadType ==
  /\ callback \in BOOLEAN
  /\ loaded \in [Bounds -> 0 .. 24 \cup {Idle}]

(* The types of the market, which the invariants of its parts carry. *)
LEMMA MarketTypes == SessionInv /\ FeedInv /\ LoadType /\ ReplayInv => TypeOK
<1> SUFFICES ASSUME SessionInv, FeedInv, LoadType, ReplayInv PROVE TypeOK
  OBVIOUS
<1>1. delivered \in Seq(Ticks)
  <2>1. /\ replay_data \in Seq(Ticks) /\ replay_index \in Int
        /\ \A i \in 1 .. replay_index : replay_data[i] \in Ticks
    BY LenProperties, ElementOfSeq DEF FeedInv, ReplayInv
  <2> QED
    BY <2>1, SubSeqProperties DEF ReplayInv
<1>2. Unlocked => hours = target /\ before = target
  <2> SUFFICES ASSUME Unlocked PROVE hours = target /\ before = target
    OBVIOUS
  <2>1. \A b \in Bounds : hours[b] = target[b]
    BY DEF SessionInv, HalfStored, Unlocked
  <2> QED
    BY <2>1 DEF SessionInv, Session
<1> QED
  BY <1>1, <1>2 DEF TypeOK, SessionInv, FeedInv, ReplayInv, LoadType

LEMMA LoadsStart == Init => LoadType
<1> QED
  BY DEF Init, LoadType, NoLoads

LEMMA LoadsContinue == SessionInv /\ LoadType /\ [Next]_vars => LoadType'
<1> SUFFICES ASSUME SessionInv, LoadType, [Next]_vars PROVE LoadType'
  OBVIOUS
<1>1. callback' \in BOOLEAN
  <2>1. CASE UNCHANGED callback
    BY <2>1 DEF LoadType
  <2>2. CASE on_price_update
    BY <2>2 DEF on_price_update
  <2>3. CASE ~on_price_update
    BY <2>1, <2>3
       DEF Next, Feed, Replay, Hours, vars, feedVars, update_price, SetClock,
           load_from_csv, replay_next, reset_replay, set_market_hours, StoreHour,
           LoadHour, is_market_open, OtherTime, ReadHour, Return
  <2> QED
    BY <2>2, <2>3
<1>2. loaded' \in [Bounds -> 0 .. 24 \cup {Idle}]
  <2>1. CASE UNCHANGED loaded
    BY <2>1 DEF LoadType
  <2>2. ASSUME NEW b \in Bounds, LoadHour(b)
        PROVE  loaded' \in [Bounds -> 0 .. 24 \cup {Idle}]
    <3>1. hours[b] \in 0 .. 24 /\ loaded' = [loaded EXCEPT ![b] = hours[b]]
      BY <2>2, SessionType DEF SessionInv, LoadHour
    <3> QED
      BY <3>1 DEF LoadType
  <2>3. CASE Return
    BY <2>3 DEF Return, NoLoads
  <2>4. CASE ~Return /\ ~(\E b \in Bounds : LoadHour(b))
    BY <2>1, <2>4
       DEF Next, Feed, Replay, Hours, vars, questionVars, update_price,
           on_price_update, SetClock, load_from_csv, replay_next, reset_replay,
           set_market_hours, StoreHour, is_market_open, OtherTime, ReadHour
  <2> QED
    BY <2>2, <2>3, <2>4
<1> QED
  BY <1>1, <1>2 DEF LoadType

(* The ticks that were replayed and those that are left are the ticks of   *)
(* the file, each as often as it is there, in the order of time; of a file *)
(* with a line that does not parse they are the lines in front of it.      *)
THEOREM FilesReplayInOrder == Spec => []ReplayInOrder
<1>1. SessionInv /\ FeedInv /\ LoadType /\ ReplayInv => ReplayInOrder
  <2> SUFFICES ASSUME SessionInv, FeedInv, LoadType, ReplayInv PROVE ReplayInOrder
    OBVIOUS
  <2>1. TypeOK
    BY MarketTypes
  <2> DEFINE run == delivered \o SubSeq(replay_data, replay_index + 1, Len(replay_data))
  <2>2. run = replay_data
    <3>1. /\ replay_data \in Seq(Ticks) /\ Len(replay_data) \in Nat
          /\ replay_index \in 0 .. Len(replay_data)
      BY LenProperties DEF FeedInv, ReplayInv
    <3>2. /\ 1 \in 1 .. Len(replay_data) + 1
          /\ replay_index \in 1 - 1 .. Len(replay_data)
          /\ Len(replay_data) \in replay_index .. Len(replay_data)
      BY <3>1
    <3>3. SubSeq(replay_data, 1, replay_index)
            \o SubSeq(replay_data, replay_index + 1, Len(replay_data))
          = SubSeq(replay_data, 1, Len(replay_data))
      BY <3>1, <3>2, ConcatAdjacentSubSeq
    <3>4. SubSeq(replay_data, 1, Len(replay_data)) = replay_data
      BY <3>1, SubSeqFull
    <3> QED
      BY <3>3, <3>4 DEF ReplayInv
  <2>3. CASE Throws(source)
    BY <2>1, <2>2, <2>3 DEF ReplayInv, Loaded, ReplayInOrder
  <2>4. CASE ~Throws(source)
    <3>1. replay_data \in Sorted(source)
      BY <2>4 DEF ReplayInv, Loaded
    <3>2. source \in Seq(Ticks \cup {Malformed})
      BY FilesAssumption, EmptySeq DEF ReplayInv
    <3>3. /\ InTimeOrder(replay_data) /\ Len(replay_data) = Len(source)
          /\ \A tick \in Ticks : Cardinality(Occurrences(tick, replay_data))
                                   = Cardinality(Occurrences(tick, source))
      BY <3>1, <3>2, SortedKeeps
    <3> QED
      BY <2>1, <2>2, <2>4, <3>3 DEF ReplayInOrder
  <2> QED
    BY <2>3, <2>4
<1> QED
  BY <1>1, SessionStarts, SessionContinues, FeedStarts, FeedContinues,
     LoadsStart, LoadsContinue, ReplayStarts, ReplayContinues, PTL DEF Spec
=============================================================================
