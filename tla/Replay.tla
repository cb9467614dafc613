-------------------------------- MODULE Replay --------------------------------
(***************************************************************************)
(* run_replay (src/main.cpp), and the replay tool, which runs the same     *)
(* loop: a process reads trades from a CSV file, hands each one to its own *)
(* position tracker and PnL calculator, and logs it in a journal that      *)
(* other processes replay into at the same time.  The result of log_trade  *)
(* is not looked at.  Between two lines a signal may stop the loop; a line *)
(* that does not parse, or a kill, ends the process, and a replay that is  *)
(* started again starts from the first line with empty components.         *)
(*                                                                         *)
(* What a line does to the components in memory is one step here: nobody   *)
(* else sees them, and all of it is lost in a crash.  Left out are their   *)
(* histories, the lot matcher, market data and alerts, which the loop does *)
(* not use, and the exposure and the limits, which it queries but never    *)
(* fills.                                                                  *)
(***************************************************************************)
EXTENDS Positions, TradeJournal, Sums

\* Connections are the replays: processes with a journal object each.
CONSTANTS
  Malformed,     \* a line that parse_trade_line throws on
  Files,         \* CSV files: sequences of lines
  MaxStarts      \* bound: replays started

Entry == [id : TradeIds, trade : Trade]

ASSUME FilesAssumption == Files \subseteq Seq(Entry \cup {Malformed})

ASSUME MaxStartsAssumption == MaxStarts \in Nat

(* No replay may ever wait for the bound on logging calls. *)
ASSUME CallsSuffice == \A f \in Files : MaxStarts * Len(f) <= MaxCalls

VARIABLES
  file,       \* environment: the CSV file, which no one changes
  stage,      \* where a process is in its loop
  line,       \* lines of the file it has read
  memory,     \* its components
  missed,     \* audit: trades it could not log for a lock, a failed
              \* commit or a journal that is not open
  g_running,  \* g_running
  starts      \* environment: replays started so far

processVars == <<stage, line, memory, missed, g_running>>

replayVars == <<vars, processVars, file, starts>>

LoopStages == {"down", "loop", "log", "logging", "end"}

NoPositions == [s \in Symbols |-> EmptyPosition]

(* The tracker's positions; the calculator's fees and its last mark of     *)
(* every symbol.  Its realised profit stays 0: the loop records every      *)
(* trade with an entry price of 0.                                         *)
NoMemory == [positions |-> NoPositions, fees |-> 0,
             marks |-> [s \in Symbols |-> Zero]]

ReplayInit ==
  /\ Init
  /\ file \in Files
  /\ stage = [p \in Connections |-> "down"]
  /\ line = [p \in Connections |-> 0]
  /\ memory = [p \in Connections |-> NoMemory]
  /\ missed = [p \in Connections |-> {}]
  /\ g_running = [p \in Connections |-> TRUE]
  /\ starts = 0

------------------------------------------------------------------------------
GoesTo(p, next) == stage' = [stage EXCEPT ![p] = next]

(* Mutant: a replay resumes behind as many lines as the journal has rows. *)
Start_Resumes(p) ==
  /\ stage[p] = "down"
  /\ starts < MaxStarts
  /\ starts' = starts + 1
  /\ Open(p)
  /\ GoesTo(p, "loop")
  /\ line' = [line EXCEPT ![p] = Smaller(Cardinality(DOMAIN table), Len(file))]
  /\ UNCHANGED <<file, memory, missed, g_running>>

(* The journal is opened before the file is, and nobody looks whether it   *)
(* could be; without the file the replay ends at once.                     *)
Start(p) ==
  /\ stage[p] = "down"
  /\ starts < MaxStarts
  /\ starts' = starts + 1
  /\ Open(p)
  /\ \E found \in BOOLEAN : GoesTo(p, IF found THEN "loop" ELSE "end")
  /\ UNCHANGED <<file, line, memory, missed, g_running>>

Reads(p) == stage[p] = "loop" /\ g_running[p] /\ line[p] < Len(file)

(* Mutant: fees are booked with the wrong sign. *)
Applied_FeesNegated(mem, trade, pos) ==
  [mem EXCEPT !.positions[trade.symbol] = pos,
              !.fees = @ - trade.fees]

(* update_position, record_trade, get_position and update_unrealized.      *)
Applied(mem, trade, pos) ==
  LET mark == Times(pos.net_quantity, Minus(Whole(trade.price), pos.avg_entry_price))
  IN [positions |-> [mem.positions EXCEPT ![trade.symbol] = pos],
      fees |-> mem.fees + trade.fees,
      marks |-> [mem.marks EXCEPT ![trade.symbol] = mark]]

Apply(p) ==
  /\ Reads(p)
  /\ file[line[p] + 1] # Malformed
  /\ LET trade == file[line[p] + 1].trade
         before == memory[p].positions[trade.symbol]
     IN \E pos \in {PositionAfter(before, trade)} :
          memory' = [memory EXCEPT ![p] = Applied(@, trade, pos)]
  /\ line' = [line EXCEPT ![p] = @ + 1]
  /\ GoesTo(p, "log")
  /\ UNCHANGED <<vars, file, missed, g_running, starts>>

LogTrade(p) ==
  /\ stage[p] = "log"
  /\ log_trade(p, file[line[p]].id)
  /\ GoesTo(p, "logging")
  /\ UNCHANGED <<file, line, memory, missed, g_running, starts>>

(* Mutant: a refused trade is logged again until it is accepted. *)
Resumes_Retries(p, excused) ==
  /\ IF call'[p] = NoCall
       THEN GoesTo(p, IF file[line[p]].id \in DOMAIN table' \ DOMAIN table
                        THEN "loop" ELSE "log")
       ELSE UNCHANGED stage
  /\ UNCHANGED <<file, line, memory, missed, g_running, starts>>

(* Whatever log_trade returns, the loop goes on. *)
Resumes(p, excused) ==
  LET id == file[line[p]].id
  IN /\ IF call'[p] = NoCall
          THEN /\ GoesTo(p, "loop")
               /\ missed' = [missed EXCEPT ![p] =
                               IF excused /\ id \notin DOMAIN table' THEN @ \cup {id}
                                                                    ELSE @]
          ELSE UNCHANGED <<stage, missed>>
     /\ UNCHANGED <<file, line, memory, g_running, starts>>

(* The journal is not open, or another process is writing. *)
Locked(p) == handle[p] # "open" \/ writer \notin {Nobody, p}

(* The call runs inside the journal. *)
Logging(p) == stage[p] = "logging" /\ Step(p) /\ Resumes(p, Locked(p))

LoggingFails(p) == stage[p] = "logging" /\ CommitFails(p) /\ Resumes(p, TRUE)

Forgotten(p) ==
  /\ GoesTo(p, "down")
  /\ line' = [line EXCEPT ![p] = 0]
  /\ memory' = [memory EXCEPT ![p] = NoMemory]
  /\ missed' = [missed EXCEPT ![p] = {}]
  /\ g_running' = [g_running EXCEPT ![p] = TRUE]
  /\ UNCHANGED <<file, starts>>

(* The end of the file or a signal ends the loop, and the destructors run. *)
Finish(p) ==
  /\ stage[p] = "end" \/ (stage[p] = "loop" /\ ~Reads(p))
  /\ Close(p)
  /\ Forgotten(p)

(* std::stoull and its kin throw, and nothing catches it. *)
Throw(p) ==
  /\ Reads(p)
  /\ file[line[p] + 1] = Malformed
  /\ Close(p)
  /\ Forgotten(p)

Kill(p) ==
  /\ stage[p] # "down"
  /\ Close(p) \/ Crash(p)
  /\ Forgotten(p)

(* SIGINT or SIGTERM *)
signal_handler(p) ==
  /\ stage[p] # "down"
  /\ g_running' = [g_running EXCEPT ![p] = FALSE]
  /\ UNCHANGED <<vars, file, stage, line, memory, missed, starts>>

Proceed(p) ==
  \/ Apply(p)
  \/ LogTrade(p)
  \/ Logging(p)
  \/ Finish(p)
  \/ Throw(p)

ReplayNext ==
  \E p \in Connections :
    \/ Start(p)
    \/ Proceed(p)
    \/ LoggingFails(p)
    \/ Kill(p)
    \/ signal_handler(p)

Replaying == ReplayInit /\ [][ReplayNext]_replayVars

(* A process that has something to do gets to do it. *)
FairReplay == Replaying /\ \A p \in Connections : WF_replayVars(Proceed(p))

------------------------------------------------------------------------------
ReplayTypeOK ==
  /\ TypeOK
  /\ file \in Files
  /\ stage \in [Connections -> LoopStages]
  /\ line \in [Connections -> 0 .. Len(file)]
  /\ \A p \in Connections :
       /\ memory[p].positions \in [Symbols -> PositionDetail]
       /\ memory[p].fees \in Nat
       /\ memory[p].marks \in [Symbols -> Fraction]
  /\ missed \in [Connections -> SUBSET TradeIds]
  /\ g_running \in [Connections -> BOOLEAN]
  /\ starts \in 0 .. MaxStarts

(* The lines a process is done with: all it has read but the one it is     *)
(* about to log.                                                           *)
DoneLines(p) ==
  1 .. (IF stage[p] \in {"log", "logging"} THEN line[p] - 1 ELSE line[p])

DoneIds(p) == {file[i].id : i \in DoneLines(p)}

Journaled(p, s) == {i \in DoneLines(p) : /\ file[i].id \in DOMAIN table
                                         /\ file[i].trade.symbol = s}

(* Every trade a replay has passed is in the journal, put there by itself, *)
(* by a replay beside it or by one that crashed before.  There are three   *)
(* excuses: when the call returned, another process held the write lock,   *)
(* this one's commit failed, or its journal was never opened.  Without one *)
(* an ignored refusal is a duplicate's: a replay after a crash completes   *)
(* the journal and doubles nothing.                                        *)
PassedIsJournaled ==
  /\ ReplayTypeOK
  /\ \A p \in Connections : DoneIds(p) \subseteq DOMAIN table \cup missed[p]

(* What a process holds in memory and what the journal holds of the lines  *)
(* it has passed are the same book, after any history of crashes, restarts *)
(* and replays side by side, as long as none of its trades was missed and  *)
(* no trade id comes twice in those lines: the same net quantity, number   *)
(* of trades and fees.                                                     *)
MemoryMatchesJournal ==
  \A p \in Connections :
    (/\ stage[p] = "loop"
     /\ missed[p] = {}
     /\ Cardinality(DoneIds(p)) = line[p])
    => /\ \A s \in Symbols :
            LET pos == memory[p].positions[s]
            IN /\ pos.net_quantity =
                    Total([i \in Journaled(p, s) |-> SignedQuantity(file[i].trade)])
               /\ pos.trade_count = Cardinality(Journaled(p, s))
       /\ memory[p].fees =
            Total([i \in UNION {Journaled(p, s) : s \in Symbols} |-> file[i].trade.fees])

(* Every replay comes to its end, whatever the journal answers: it never   *)
(* waits for another process, nor logs a refused trade again.              *)
ReplayEnds == \A p \in Connections : stage[p] # "down" ~> stage[p] = "down"
=============================================================================
