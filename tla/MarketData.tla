------------------------------ MODULE MarketData ------------------------------
(***************************************************************************)
(* MarketData (include/risk/market_data.h, src/market_data.cpp): the last  *)
(* tick of every symbol, a callback for live ticks, a file of ticks to be  *)
(* replayed, and the hours of the market.  Every operation holds the mutex *)
(* and is one step, but for is_market_open, which takes no mutex and races *)
(* twice.  set_market_hours stores its two hours under the mutex, and they *)
(* are loaded without: a load may come between the two stores, and stores  *)
(* and loads may come in any order.  And the hour of the question lies in  *)
(* the buffer that all calls of std::gmtime share: whatever thread calls   *)
(* it next, in a question of its own or to print a time, overwrites it.    *)
(* One question is followed; of the others only what they write matters.   *)
(***************************************************************************)
EXTENDS Integers, SequencesExt

CONSTANTS
  Symbols,
  NoTick,       \* no tick is cached for the symbol
  Ticks,        \* the ticks of the feed and of the files
  Malformed,    \* a line of a file that does not parse
  Files,        \* CSV files: sequences of lines, without the header
  Missing,      \* a path that cannot be opened
  Sessions,     \* hours that the market is set to
  Questions,    \* times that std::gmtime is called with
  HourLength,   \* ticks of the clock in an hour
  MaxTime,      \* bound: the clock of the system
  MaxAge,       \* the max_age_ns of is_stale
  Word          \* 2^w for the w bits of a timestamp (64 in the code)

PriceTick == [timestamp_ns : 0 .. MaxTime, symbol : Symbols, last : Nat]

Bounds == {"open", "close"}

Session == [Bounds -> 0 .. 24]

ASSUME TicksAssumption == Ticks \subseteq PriceTick /\ NoTick \notin Ticks

ASSUME FilesAssumption ==
  /\ Files \subseteq Seq(Ticks \cup {Malformed})
  /\ Malformed \notin Ticks /\ Missing \notin Files

ASSUME HoursAssumption ==
  /\ Sessions \subseteq Session
  /\ Questions \subseteq Nat /\ HourLength \in Nat \ {0}

ASSUME ClockAssumption ==
  /\ MaxTime \in Nat /\ MaxAge \in Nat /\ Word \in Nat
  /\ MaxTime + MaxAge < Word

VARIABLES
  cache,         \* cache_
  callback,      \* callback_ is set
  replay_data,   \* replay_data_
  replay_index,  \* replay_index_
  hours,         \* open_hour_ and close_hour_
  target,        \* the arguments of the last set_market_hours
  storing,       \* what it has not stored yet; it holds the mutex meanwhile
  before,        \* audit: the session it replaces, while a store is left
  asked,         \* the argument of is_market_open, or -1
  tm_hour,       \* gmtime's buffer while the question needs it, or -1
  hour,          \* what the question has read of it, or -1
  loaded,        \* the hours it has loaded, -1 for those it has not
  clock,         \* environment: the clock of the system
  heard,         \* audit: the last tick of each symbol the callback was given
  origin,        \* audit: where the price of each symbol came from since the
                 \* callback was set
  source,        \* audit: the file that was last loaded
  delivered,     \* audit: ticks replayed since the last load or reset
  during,        \* audit: sessions in force at some time of the question
  written        \* audit: hours written to the buffer until it was read

feedVars == <<cache, callback, heard, origin>>

replayVars == <<replay_data, replay_index, source, delivered>>

sessionVars == <<hours, target, storing, before>>

questionVars == <<asked, tm_hour, hour, loaded, during, written>>

vars == <<feedVars, replayVars, sessionVars, questionVars, clock>>

Idle == -1

NoLoads == [b \in Bounds |-> Idle]

Origins == {"none", "live", "replay"}

NoOrigin == [s \in Symbols |-> "none"]

Init ==
  /\ cache = [s \in Symbols |-> NoTick]
  /\ callback = FALSE
  /\ replay_data = << >> /\ replay_index = 0
  /\ hours = [b \in Bounds |-> IF b = "open" THEN 9 ELSE 16]
  /\ target = hours /\ before = hours
  /\ storing = {}
  /\ asked = Idle /\ tm_hour = Idle /\ hour = Idle /\ loaded = NoLoads
  /\ clock \in 0 .. MaxTime
  /\ heard = cache
  /\ origin = NoOrigin
  /\ source = << >> /\ delivered = << >>
  /\ during = {} /\ written = {}

-----------------------------------------------------------------------------
(* Prices *)

\* The mutex is free.
Unlocked == storing = {}

\* Mutant: the difference is signed.
Age_Signed(tick) == clock - tick.timestamp_ns

\* The unsigned difference: a tick from the future is very old.
Age(tick) == (clock - tick.timestamp_ns) % Word

has_price(s) == cache[s] # NoTick

is_stale(s) == ~has_price(s) \/ Age(cache[s]) > MaxAge

\* Mutant: only the first tick of a symbol is passed on.
Told_FirstOnly(tick) ==
  IF callback /\ heard[tick.symbol] = NoTick
    THEN [heard EXCEPT ![tick.symbol] = tick] ELSE heard

\* What the subscriber has heard once it is called, if there is one.
Told(tick) ==
  IF callback THEN [heard EXCEPT ![tick.symbol] = tick] ELSE heard

update_price(tick) ==
  /\ Unlocked
  /\ cache' = [cache EXCEPT ![tick.symbol] = tick]
  /\ heard' = Told(tick)
  /\ origin' = [origin EXCEPT ![tick.symbol] = "live"]
  /\ UNCHANGED <<callback, replayVars, sessionVars, questionVars, clock>>

on_price_update ==
  /\ Unlocked
  /\ callback' = TRUE
  /\ heard' = [s \in Symbols |-> NoTick]
  /\ origin' = NoOrigin
  /\ UNCHANGED <<cache, replayVars, sessionVars, questionVars, clock>>

\* The system clock goes on, or is set forwards or back.
SetClock(t) ==
  /\ clock' = t
  /\ UNCHANGED <<feedVars, replayVars, sessionVars, questionVars>>

-----------------------------------------------------------------------------
(* Replay *)

InTimeOrder(ticks) ==
  \A i, j \in DOMAIN ticks :
    i < j => ticks[i].timestamp_ns <= ticks[j].timestamp_ns

Rearranged(ticks) ==
  {[i \in DOMAIN ticks |-> ticks[p[i]]] : p \in Bijection(DOMAIN ticks, DOMAIN ticks)}

\* Mutant: the file is replayed as it was read.
Sorted_AsRead(ticks) == {ticks}

\* std::sort leaves the order of equal times open.
Sorted(ticks) == {order \in Rearranged(ticks) : InTimeOrder(order)}

Throws(file) == \E i \in DOMAIN file : file[i] = Malformed

\* The lines in front of the first that does not parse.
Parsed(file) ==
  SelectInSeq(file, LAMBDA line : line = Malformed) - 1

\* What a load leaves behind: the exception of a line that does not parse
\* passes by the sort.
Loads(file) ==
  IF file = Missing THEN {<< >>}
  ELSE IF Throws(file) THEN {SubSeq(file, 1, Parsed(file))}
  ELSE Sorted(file)

load_from_csv(file) ==
  /\ Unlocked
  /\ replay_data' \in Loads(file)
  /\ replay_index' = 0
  /\ source' = IF file = Missing THEN << >> ELSE file
  /\ delivered' = << >>
  /\ UNCHANGED <<feedVars, sessionVars, questionVars, clock>>

replay_remaining == Len(replay_data) - replay_index

\* The tick goes to the caller and to the cache, and not to the callback.
replay_next ==
  /\ Unlocked
  /\ replay_remaining > 0
  /\ LET tick == replay_data[replay_index + 1]
     IN /\ cache' = [cache EXCEPT ![tick.symbol] = tick]
        /\ origin' = [origin EXCEPT ![tick.symbol] = "replay"]
        /\ delivered' = Append(delivered, tick)
  /\ replay_index' = replay_index + 1
  /\ UNCHANGED <<callback, heard, replay_data, source, sessionVars,
                 questionVars, clock>>

reset_replay ==
  /\ Unlocked
  /\ replay_index' = 0
  /\ delivered' = << >>
  /\ UNCHANGED <<feedVars, replay_data, source, sessionVars, questionVars, clock>>

-----------------------------------------------------------------------------
(* Hours *)

\* The call and the first of its stores.
set_market_hours(session, b) ==
  /\ Unlocked
  /\ target' = session /\ before' = target
  /\ hours' = [hours EXCEPT ![b] = session[b]]
  /\ storing' = Bounds \ {b}
  /\ during' = IF asked = Idle THEN during ELSE during \cup {session}
  /\ UNCHANGED <<feedVars, replayVars, asked, tm_hour, hour, loaded, written, clock>>

StoreHour(b) ==
  /\ b \in storing
  /\ hours' = [hours EXCEPT ![b] = target[b]]
  /\ storing' = storing \ {b}
  /\ before' = IF storing' = {} THEN target ELSE before
  /\ UNCHANGED <<feedVars, replayVars, target, questionVars, clock>>

HourOf(t) == (t \div HourLength) % 24

\* The call, and the hour that gmtime writes.
is_market_open(t) ==
  /\ asked = Idle
  /\ asked' = t
  /\ tm_hour' = HourOf(t) /\ written' = {HourOf(t)}
  /\ during' = {before, target}
  /\ UNCHANGED <<feedVars, replayVars, sessionVars, hour, loaded, clock>>

\* Another thread's gmtime, before the question has read its hour.
OtherTime(t) ==
  /\ asked # Idle /\ hour = Idle
  /\ tm_hour' = HourOf(t) /\ written' = written \cup {HourOf(t)}
  /\ UNCHANGED <<feedVars, replayVars, sessionVars, asked, hour, loaded, during, clock>>

ReadHour ==
  /\ asked # Idle /\ hour = Idle
  /\ hour' = tm_hour /\ tm_hour' = Idle
  /\ UNCHANGED <<feedVars, replayVars, sessionVars, asked, loaded, during, written, clock>>

LoadHour(b) ==
  /\ hour # Idle /\ loaded[b] = Idle
  /\ loaded' = [loaded EXCEPT ![b] = hours[b]]
  /\ UNCHANGED <<feedVars, replayVars, sessionVars, asked, tm_hour, hour, during,
                 written, clock>>

Answered == hour # Idle /\ \A b \in Bounds : loaded[b] # Idle

\* Mutant: the closing hour belongs to the session.
Answer_ClosesLate == hour >= loaded["open"] /\ hour <= loaded["close"]

Answer == hour >= loaded["open"] /\ hour < loaded["close"]

Return ==
  /\ Answered
  /\ asked' = Idle /\ hour' = Idle /\ loaded' = NoLoads
  /\ during' = {} /\ written' = {}
  /\ UNCHANGED <<feedVars, replayVars, sessionVars, tm_hour, clock>>

Feed ==
  \/ \E tick \in Ticks : update_price(tick)
  \/ on_price_update
  \/ \E t \in 0 .. MaxTime : SetClock(t)

Replay ==
  \/ \E file \in Files \cup {Missing} : load_from_csv(file)
  \/ replay_next
  \/ reset_replay

Hours ==
  \/ \E session \in Sessions, b \in Bounds : set_market_hours(session, b)
  \/ \E b \in Bounds : StoreHour(b) \/ LoadHour(b)
  \/ \E t \in Questions : is_market_open(t) \/ OtherTime(t)
  \/ ReadHour
  \/ Return

Next == Feed \/ Replay \/ Hours

Spec == Init /\ [][Next]_vars

-----------------------------------------------------------------------------
(* Properties *)

\* Every variable has its type, and an unlocked market has the session it
\* was last given.
TypeOK ==
  /\ cache \in [Symbols -> Ticks \cup {NoTick}]
  /\ heard \in [Symbols -> Ticks \cup {NoTick}]
  /\ callback \in BOOLEAN /\ origin \in [Symbols -> Origins]
  /\ replay_data \in Seq(Ticks) /\ delivered \in Seq(Ticks)
  /\ source \in Files \cup {<< >>}
  /\ replay_index \in 0 .. Len(replay_data)
  /\ hours \in Session /\ target \in Session /\ before \in Session
  /\ storing \in SUBSET Bounds
  /\ asked \in Questions \cup {Idle}
  /\ tm_hour \in 0 .. 23 \cup {Idle} /\ hour \in 0 .. 23 \cup {Idle}
  /\ loaded \in [Bounds -> 0 .. 24 \cup {Idle}]
  /\ during \subseteq Session /\ written \subseteq 0 .. 23
  /\ clock \in 0 .. MaxTime
  /\ Unlocked => hours = target /\ before = target

Occurrences(tick, ticks) ==
  {i \in DOMAIN ticks : ticks[i] = tick}

\* The ticks replayed since the last load or reset, and those that are left,
\* are together the ticks of the file, each as often as it is there, and in
\* the order of time; a file with a line that does not parse gives the lines
\* in front of it, as they come (replay_next, load_from_csv).
ReplayInOrder ==
  /\ TypeOK
  /\ LET run == delivered \o SubSeq(replay_data, replay_index + 1, Len(replay_data))
     IN IF Throws(source) THEN run = SubSeq(source, 1, Parsed(source))
        ELSE /\ InTimeOrder(run)
             /\ Len(run) = Len(source)
             /\ \A tick \in Ticks :
                  Cardinality(Occurrences(tick, run))
                    = Cardinality(Occurrences(tick, source))

\* is_stale lets a price pass exactly when it was made in the last MaxAge,
\* wherever the clock is set: a tick from the future, whose unsigned age wraps,
\* does not pass for a fresh one (is_stale).
FreshIsRecent ==
  \A s \in Symbols :
    ~is_stale(s) <=>
      \E age \in 0 .. MaxAge : has_price(s) /\ cache[s].timestamp_ns + age = clock

\* A subscriber that keeps prices of its own has, of every symbol, the price
\* in the cache or knows nothing, from the time it subscribed: none of a
\* symbol that was not live since, and the cache's of one whose last tick was
\* live.  Only a replay passes it by, and only until the symbol's next live
\* tick (update_price, replay_next, on_price_update).
SubscriberSeesCache ==
  callback =>
    \A s \in Symbols :
      /\ origin[s] = "live" => heard[s] = cache[s]
      /\ origin[s] = "none" => heard[s] = NoTick

Within(h, session) == session["open"] <= h /\ h < session["close"]

\* is_market_open may mix the hours of two sessions, and may take the hour of
\* another thread's gmtime for its own; but an answer is never closed when all
\* hours written meanwhile are within all sessions in force meanwhile, nor
\* open when they are all early, or late, for all of them: undisturbed, it is
\* the answer for its own hour.  A session that closes at an earlier hour than
\* it opens, as CME's in config/market_hours.yaml, is never open for the code.
AnswerJustified ==
  Answered =>
    /\ (\A s \in during, h \in written : Within(h, s)) => Answer
    /\ (\A s \in during, h \in written : h < s["open"]) => ~Answer
    /\ (\A s \in during, h \in written : h >= s["close"]) => ~Answer
=============================================================================
