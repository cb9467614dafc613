-------------------------- MODULE TradeJournalProofs --------------------------
(***************************************************************************)
(* Proofs about TradeJournal, for any connections, trades and batches:     *)
(* what is logged stays in the journal, a connection between two calls     *)
(* holds nothing, what a query shows every later query shows, and the      *)
(* journal implements the append-only log of whole calls.                  *)
(*                                                                         *)
(* And about the replays into it, for any processes and files: they take   *)
(* no steps but those of their journal, so all of this holds of them too,  *)
(* every trade a replay has passed is journaled unless its own insert was  *)
(* in vain, and what it holds in memory is what the journal holds.         *)
(***************************************************************************)
EXTENDS Replay, PositionProofs, SequenceTheorems

Rows == UNION {[ids -> CallNumbers] : ids \in SUBSET TradeIds}

Call == [number : 0 .. MaxCalls, left : Seq(TradeIds), batch : BOOLEAN,
         at : {"idle", "insert", "rollback", "commit"}]

CallEntry == [ids : SUBSET TradeIds, outcome : Outcomes]

JournalType ==
  /\ table \in Rows
  /\ writer \in Connections \cup {Nobody}
  /\ handle \in [Connections -> {"closed", "null", "open"}]
  /\ pending \in [Connections -> Rows]
  /\ explicit \in [Connections -> BOOLEAN]
  /\ call \in [Connections -> Call]
  /\ calls \in Seq(CallEntry) /\ Len(calls) <= MaxCalls
  /\ torn \subseteq Connections

Running(c) == call[c] # NoCall

RowsOf(rows, n) == {id \in DOMAIN rows : rows[id] = n}

(* Where a call can be.  A single insert is its only statement. *)
Stages ==
  \A c \in Connections :
    /\ call[c].at = "idle" <=> ~Running(c)
    /\ call[c].at = "insert" => call[c].left # << >>
    /\ call[c].at = "commit" => call[c].left = << >>
    /\ call[c].at = "insert" /\ ~call[c].batch =>
         Len(call[c].left) = 1 /\ RowsOf(pending[c], call[c].number) = {}
    /\ call[c].at = "rollback" => call[c].batch

(* A running call is that of one connection. *)
OwnCalls ==
  \A c \in Connections : Running(c) =>
    /\ call[c].number \in DOMAIN calls
    /\ calls[call[c].number].outcome = "running"
    /\ \A d \in Connections : Running(d) /\ call[d].number = call[c].number => d = c

(* Rows wait under the write lock; it is held between two calls, or at the *)
(* begin of a single insert, only behind a COMMIT that failed.             *)
Locking ==
  \A c \in Connections :
    /\ DOMAIN pending[c] # {} => writer = c
    /\ writer = c /\ c \notin torn => call[c].batch \/ call[c].at = "commit"
    /\ explicit[c] /\ c \notin torn => call[c].batch

(* A committed row is of a call that has returned. *)
TableOfEnded ==
  \A id \in DOMAIN table :
    /\ table[id] \in DOMAIN calls
    /\ \A c \in Connections : Running(c) => call[c].number # table[id]

(* A row that waits is of the connection's own call, or of one whose caller*)
(* cannot know, and then all of that call's rows wait.                     *)
PendingOfOwn ==
  \A c \in Connections : \A id \in DOMAIN pending[c] :
    /\ id \notin DOMAIN table
    /\ pending[c][id] \in DOMAIN calls
    /\ \/ Running(c) /\ pending[c][id] = call[c].number
       \/ /\ calls[pending[c][id]].outcome = "unsure"
          /\ RowsOf(pending[c], pending[c][id]) = calls[pending[c][id]].ids

(* What a call was given is written or left. *)
Progress ==
  \A c \in Connections :
    call[c].at \in {"insert", "commit"} =>
      RowsOf(pending[c], call[c].number) \cup ToSet(call[c].left)
        = calls[call[c].number].ids

JournalInv ==
  /\ JournalType /\ Stages /\ OwnCalls /\ Locking
  /\ TableOfEnded /\ PendingOfOwn /\ Progress
  /\ LoggedIsDurable

------------------------------------------------------------------------------
(* Rows *)

LEMMA RowsHave ==
  ASSUME NEW rows \in Rows
  PROVE  /\ DOMAIN rows \subseteq TradeIds
         /\ \A id \in DOMAIN rows : rows[id] \in CallNumbers
<1> QED
  BY DEF Rows

LEMMA NoRowsAreRows ==
  /\ NoRows \in Rows
  /\ DOMAIN NoRows = {}
  /\ \A n : RowsOf(NoRows, n) = {}
<1>1. NoRows \in [{} -> CallNumbers]
  BY DEF NoRows
<1>2. NoRows \in Rows
  BY <1>1 DEF Rows
<1> QED
  BY <1>2 DEF NoRows, RowsOf

LEMMA WrittenRows ==
  ASSUME NEW rows \in Rows, NEW more \in Rows
  PROVE  /\ Written(rows, more) \in Rows
         /\ DOMAIN Written(rows, more) = DOMAIN rows \cup DOMAIN more
         /\ \A id \in DOMAIN Written(rows, more) :
              Written(rows, more)[id]
                = IF id \in DOMAIN more THEN more[id] ELSE rows[id]
<1> DEFINE ids == DOMAIN rows \cup DOMAIN more
<1>1. ids \in SUBSET TradeIds
  BY RowsHave
<1>2. Written(rows, more) \in [ids -> CallNumbers]
  BY RowsHave DEF Written
<1>3. Written(rows, more) \in Rows
  BY <1>1, <1>2 DEF Rows
<1> QED
  BY <1>3 DEF Written

LEMMA OneRow ==
  ASSUME NEW id \in TradeIds, NEW n \in CallNumbers
  PROVE  [k \in {id} |-> n] \in Rows
<1>1. [k \in {id} |-> n] \in [{id} -> CallNumbers]
  OBVIOUS
<1> QED
  BY <1>1 DEF Rows

LEMMA TakesOne ==
  ASSUME NEW left \in Seq(TradeIds), left # << >>
  PROVE  /\ Head(left) \in TradeIds /\ Tail(left) \in Seq(TradeIds)
         /\ Len(left) \in Nat \ {0}
         /\ Len(Tail(left)) = Len(left) - 1
         /\ Len(left) = 1 <=> Tail(left) = << >>
         /\ ToSet(left) = {Head(left)} \cup ToSet(Tail(left))
<1>1. /\ Head(left) \in TradeIds /\ Tail(left) \in Seq(TradeIds)
      /\ Len(left) \in Nat \ {0}
      /\ Len(Tail(left)) = Len(left) - 1
      /\ \A i \in 1 .. Len(left) - 1 : Tail(left)[i] = left[i + 1]
      /\ Head(left) = left[1]
  BY HeadTailProperties, EmptySeq, LenProperties
<1>2. Len(left) = 1 <=> Tail(left) = << >>
  <2>1. Tail(left) = << >> <=> Len(Tail(left)) = 0
    BY <1>1, EmptySeq
  <2> QED
    BY <1>1, <2>1
<1>3. DOMAIN left = 1 .. Len(left) /\ DOMAIN Tail(left) = 1 .. Len(left) - 1
  BY <1>1, LenProperties
<1>4. \A i \in 2 .. Len(left) : i - 1 \in 1 .. Len(left) - 1 /\ Tail(left)[i - 1] = left[i]
  BY <1>1
<1>5. ToSet(left) \subseteq {Head(left)} \cup ToSet(Tail(left))
  <2> SUFFICES ASSUME NEW i \in 1 .. Len(left)
               PROVE  left[i] = Head(left) \/ \E j \in DOMAIN Tail(left) : left[i] = Tail(left)[j]
    BY <1>3 DEF ToSet
  <2>1. i = 1 \/ i \in 2 .. Len(left)
    BY <1>1
  <2> QED
    BY <1>1, <1>3, <1>4, <2>1
<1>6. {Head(left)} \cup ToSet(Tail(left)) \subseteq ToSet(left)
  <2>1. 1 \in DOMAIN left
    BY <1>1, <1>3
  <2>2. \A j \in DOMAIN Tail(left) : j + 1 \in DOMAIN left /\ Tail(left)[j] = left[j + 1]
    BY <1>1, <1>3
  <2> QED
    BY <1>1, <2>1, <2>2 DEF ToSet
<1> QED
  BY <1>1, <1>2, <1>5, <1>6

(* A call's entry when its outcome is known. *)
LEMMA OutcomeKnown ==
  ASSUME JournalType, NEW n \in DOMAIN calls, NEW outcome \in Outcomes,
         calls' = [calls EXCEPT ![n].outcome = outcome]
  PROVE  /\ calls' \in Seq(CallEntry) /\ Len(calls') = Len(calls)
         /\ DOMAIN calls' = DOMAIN calls
         /\ \A m \in DOMAIN calls :
              /\ calls'[m].ids = calls[m].ids
              /\ calls'[m].outcome = IF m = n THEN outcome ELSE calls[m].outcome
<1>1. calls \in [1 .. Len(calls) -> CallEntry] /\ Len(calls) \in Nat
  BY LenProperties DEF JournalType
<1>2. calls' \in [1 .. Len(calls) -> CallEntry]
  BY <1>1 DEF CallEntry
<1>3. calls' \in Seq(CallEntry) /\ Len(calls') = Len(calls)
  BY <1>1, <1>2, IsASeq, LenProperties
<1> QED
  BY <1>1, <1>2, <1>3 DEF CallEntry

------------------------------------------------------------------------------
(* The ways a call ends.  One that gives up its transaction leaves nothing *)
(* behind.                                                                 *)
LEMMA EndsWithoutRows ==
  ASSUME JournalInv, NEW c \in Connections, Running(c),
         NEW outcome \in {"refused", "crashed", "unsure"}, Return(c, outcome),
         EndTransaction(c), UNCHANGED table,
         handle' \in [Connections -> {"closed", "null", "open"}]
  PROVE  JournalInv'
<1> DEFINE n == call[c].number
<1>1. n \in DOMAIN calls /\ calls[n].outcome = "running"
  BY DEF JournalInv, OwnCalls
<1>2. /\ calls' \in Seq(CallEntry) /\ Len(calls') = Len(calls)
      /\ DOMAIN calls' = DOMAIN calls
      /\ \A m \in DOMAIN calls :
           /\ calls'[m].ids = calls[m].ids
           /\ calls'[m].outcome = IF m = n THEN outcome ELSE calls[m].outcome
  <2> HIDE DEF n
  <2>1. outcome \in Outcomes
    BY DEF Outcomes
  <2> QED
    BY <1>1, <2>1, OutcomeKnown DEF JournalInv, Return, n
<1>3. /\ call \in [Connections -> Call] /\ pending \in [Connections -> Rows]
      /\ call' = [call EXCEPT ![c] = NoCall]
      /\ pending' = [pending EXCEPT ![c] = NoRows]
      /\ explicit' = [explicit EXCEPT ![c] = FALSE]
      /\ writer' = IF writer = c THEN Nobody ELSE writer
      /\ torn' = torn \ {c}
      /\ \A d \in Connections : d # Nobody
  BY ConnectionsAssumption DEF JournalInv, JournalType, Return, EndTransaction, Nobody
<1>4. ~(Running(c)') /\ DOMAIN pending'[c] = {} /\ call'[c] = NoCall
  BY <1>3, NoRowsAreRows DEF Running
<1>5. \A d \in Connections \ {c} :
        /\ call'[d] = call[d] /\ (Running(d)' <=> Running(d))
        /\ pending'[d] = pending[d]
  BY <1>3 DEF Running
<1> HIDE DEF n
<1>6. JournalType'
  BY <1>2, <1>3, NoRowsAreRows, EmptySeq, MaxCallsAssumption
     DEF JournalInv, JournalType, Call, NoCall
<1>7. Stages'
  BY <1>4, <1>5 DEF JournalInv, Stages, RowsOf, NoCall
<1>8. OwnCalls'
  BY <1>1, <1>2, <1>4, <1>5 DEF JournalInv, OwnCalls, n
<1>9. Locking'
  <2>1. /\ writer' # c /\ ~explicit'[c]
        /\ \A d \in Connections \ {c} :
             /\ writer' = d <=> writer = d
             /\ explicit'[d] = explicit[d] /\ (d \in torn' <=> d \in torn)
    BY <1>3 DEF JournalInv, JournalType
  <2> QED
    BY <1>4, <1>5, <2>1 DEF JournalInv, Locking
<1>10. TableOfEnded'
  BY <1>2, <1>4, <1>5 DEF JournalInv, TableOfEnded
<1>11. PendingOfOwn'
  <2> SUFFICES ASSUME NEW d \in Connections \ {c}, NEW id \in DOMAIN pending[d]
               PROVE  /\ id \notin DOMAIN table
                      /\ pending[d][id] \in DOMAIN calls
                      /\ \/ Running(d) /\ pending[d][id] = call[d].number
                         \/ /\ calls'[pending[d][id]].outcome = "unsure"
                            /\ RowsOf(pending[d], pending[d][id])
                                 = calls'[pending[d][id]].ids
    BY <1>2, <1>4, <1>5 DEF PendingOfOwn, RowsOf
  <2> QED
    BY <1>1, <1>2 DEF JournalInv, PendingOfOwn
<1>12. Progress'
  <2> SUFFICES ASSUME NEW d \in Connections \ {c}, call[d].at \in {"insert", "commit"}
               PROVE  RowsOf(pending[d], call[d].number) \cup ToSet(call[d].left)
                        = calls'[call[d].number].ids
    BY <1>4, <1>5 DEF Progress, RowsOf, NoCall
  <2>1. call[d].number \in DOMAIN calls
    BY DEF JournalInv, Stages, OwnCalls
  <2> QED
    BY <1>2, <2>1 DEF JournalInv, Progress
<1>13. LoggedIsDurable'
  <2>1. {id \in DOMAIN table : table[id] = n} = {}
    BY DEF JournalInv, TableOfEnded, n
  <2> QED
    BY <1>2, <2>1 DEF JournalInv, LoggedIsDurable, WrittenBy
<1> QED
  BY <1>6, <1>7, <1>8, <1>9, <1>10, <1>11, <1>12, <1>13 DEF JournalInv

(* One that leaves its transaction open has no rows in it, or all of them, *)
(* and the caller cannot know.                                             *)
LEMMA EndsInTransaction ==
  ASSUME JournalInv, NEW c \in Connections, Running(c),
         NEW outcome \in {"refused", "unsure"}, Return(c, outcome),
         UNCHANGED <<table, writer, handle, pending, explicit>>,
         torn' = torn \/ torn' = torn \cup {c},
         c \in torn' \/ (~call[c].batch /\ call[c].at = "insert"),
         \/ RowsOf(pending[c], call[c].number) = {}
         \/ /\ outcome = "unsure"
            /\ RowsOf(pending[c], call[c].number) = calls[call[c].number].ids
  PROVE  JournalInv'
<1> DEFINE n == call[c].number
<1>1. n \in DOMAIN calls /\ calls[n].outcome = "running"
  BY DEF JournalInv, OwnCalls
<1>2. /\ calls' \in Seq(CallEntry) /\ Len(calls') = Len(calls)
      /\ DOMAIN calls' = DOMAIN calls
      /\ \A m \in DOMAIN calls :
           /\ calls'[m].ids = calls[m].ids
           /\ calls'[m].outcome = IF m = n THEN outcome ELSE calls[m].outcome
  <2> HIDE DEF n
  <2>1. outcome \in Outcomes
    BY DEF Outcomes
  <2> QED
    BY <1>1, <2>1, OutcomeKnown DEF JournalInv, Return, n
<1>3. /\ call \in [Connections -> Call]
      /\ call' = [call EXCEPT ![c] = NoCall] /\ pending' = pending
  BY DEF JournalInv, JournalType, Return
<1>4. ~(Running(c)') /\ call'[c] = NoCall
  BY <1>3 DEF Running
<1>5. \A d \in Connections \ {c} :
        call'[d] = call[d] /\ (Running(d)' <=> Running(d))
  BY <1>3 DEF Running
<1> HIDE DEF n
<1>6. JournalType'
  BY <1>2, <1>3, EmptySeq, MaxCallsAssumption
     DEF JournalInv, JournalType, Call, NoCall
<1>7. Stages'
  BY <1>3, <1>4, <1>5 DEF JournalInv, Stages, RowsOf, NoCall
<1>8. OwnCalls'
  BY <1>1, <1>2, <1>4, <1>5 DEF JournalInv, OwnCalls, n
<1>9. Locking'
  <2>1. \A d \in Connections \ {c} : d \in torn' <=> d \in torn
    OBVIOUS
  <2>2. /\ DOMAIN pending[c] # {} => writer = c
        /\ c \notin torn' => writer # c /\ ~explicit[c]
    BY DEF JournalInv, Locking
  <2> QED
    BY <1>3, <1>4, <1>5, <2>1, <2>2 DEF JournalInv, Locking
<1>10. TableOfEnded'
  BY <1>2, <1>4, <1>5 DEF JournalInv, TableOfEnded
<1>11. PendingOfOwn'
  <2> SUFFICES ASSUME NEW d \in Connections, NEW id \in DOMAIN pending[d]
               PROVE  /\ id \notin DOMAIN table
                      /\ pending[d][id] \in DOMAIN calls
                      /\ \/ d # c /\ Running(d) /\ pending[d][id] = call[d].number
                         \/ /\ calls'[pending[d][id]].outcome = "unsure"
                            /\ RowsOf(pending[d], pending[d][id])
                                 = calls'[pending[d][id]].ids
    BY <1>2, <1>3, <1>4, <1>5 DEF PendingOfOwn, RowsOf
  <2>1. CASE d = c /\ pending[c][id] = n
    <3>1. id \in RowsOf(pending[c], n)
      BY <2>1 DEF RowsOf
    <3>2. outcome = "unsure" /\ RowsOf(pending[c], n) = calls[n].ids
      BY <3>1 DEF n
    <3> QED
      BY <1>1, <1>2, <2>1, <3>2 DEF JournalInv, PendingOfOwn
  <2>2. CASE ~(d = c /\ pending[c][id] = n)
    BY <1>1, <1>2, <2>2 DEF JournalInv, PendingOfOwn, n
  <2> QED
    BY <2>1, <2>2
<1>12. Progress'
  <2> SUFFICES ASSUME NEW d \in Connections \ {c}, call[d].at \in {"insert", "commit"}
               PROVE  RowsOf(pending[d], call[d].number) \cup ToSet(call[d].left)
                        = calls'[call[d].number].ids
    BY <1>3, <1>4, <1>5 DEF Progress, RowsOf, NoCall
  <2>1. call[d].number \in DOMAIN calls
    BY DEF JournalInv, Stages, OwnCalls
  <2> QED
    BY <1>2, <2>1 DEF JournalInv, Progress
<1>13. LoggedIsDurable'
  <2>1. {id \in DOMAIN table : table[id] = n} = {}
    BY DEF JournalInv, TableOfEnded, n
  <2> QED
    BY <1>2, <2>1 DEF JournalInv, LoggedIsDurable, WrittenBy
<1> QED
  BY <1>6, <1>7, <1>8, <1>9, <1>10, <1>11, <1>12, <1>13 DEF JournalInv

(* A commit writes all rows of the call, and of the calls it completes.    *)
LEMMA Commits ==
  ASSUME JournalInv, NEW c \in Connections, Commit(c)
  PROVE  JournalInv'
<1> DEFINE outcome == "logged"
<1>0. Running(c) /\ Return(c, outcome) /\ EndTransaction(c) /\ UNCHANGED handle
  BY DEF Commit, JournalInv, Stages
<1> DEFINE n == call[c].number
<1>1. n \in DOMAIN calls /\ calls[n].outcome = "running"
  BY <1>0 DEF JournalInv, OwnCalls
<1>2. /\ calls' \in Seq(CallEntry) /\ Len(calls') = Len(calls)
      /\ DOMAIN calls' = DOMAIN calls
      /\ \A m \in DOMAIN calls :
           /\ calls'[m].ids = calls[m].ids
           /\ calls'[m].outcome = IF m = n THEN outcome ELSE calls[m].outcome
  <2> HIDE DEF n
  <2>1. outcome \in Outcomes
    BY DEF Outcomes
  <2> QED
    BY <1>0, <1>1, <2>1, OutcomeKnown DEF JournalInv, Return, n
<1>3. /\ call \in [Connections -> Call] /\ pending \in [Connections -> Rows]
      /\ call' = [call EXCEPT ![c] = NoCall]
      /\ pending' = [pending EXCEPT ![c] = NoRows]
      /\ explicit' = [explicit EXCEPT ![c] = FALSE]
      /\ writer' = IF writer = c THEN Nobody ELSE writer
      /\ torn' = torn \ {c}
      /\ \A d \in Connections : d # Nobody
  BY <1>0, ConnectionsAssumption
     DEF JournalInv, JournalType, Return, EndTransaction, Nobody
<1>4. ~(Running(c)') /\ DOMAIN pending'[c] = {} /\ call'[c] = NoCall
  BY <1>3, NoRowsAreRows DEF Running
<1>5. \A d \in Connections \ {c} :
        /\ call'[d] = call[d] /\ (Running(d)' <=> Running(d))
        /\ pending'[d] = pending[d]
  BY <1>3 DEF Running
<1>6. /\ table' \in Rows
      /\ DOMAIN table' = DOMAIN table \cup DOMAIN pending[c]
      /\ \A id \in DOMAIN table' :
           table'[id] = IF id \in DOMAIN pending[c] THEN pending[c][id] ELSE table[id]
  <2>1. table' = Written(table, pending[c])
    BY DEF Commit
  <2>2. table \in Rows /\ pending[c] \in Rows
    BY DEF JournalInv, JournalType
  <2> DEFINE more == pending[c]
  <2> HIDE DEF more
  <2>3. /\ Written(table, more) \in Rows
        /\ DOMAIN Written(table, more) = DOMAIN table \cup DOMAIN more
        /\ \A id \in DOMAIN Written(table, more) :
             Written(table, more)[id]
               = IF id \in DOMAIN more THEN more[id] ELSE table[id]
    BY <2>2, WrittenRows DEF more
  <2> QED
    BY <2>1, <2>3 DEF more
<1> HIDE DEF n, outcome
<1>7. JournalType'
  <2>1. NoCall \in Call
    BY EmptySeq, MaxCallsAssumption DEF Call, NoCall
  <2>2. table' \in Rows
    BY <1>6
  <2> QED
    BY <1>0, <1>2, <1>3, <2>1, <2>2, NoRowsAreRows DEF JournalInv, JournalType
<1>8. Stages'
  BY <1>4, <1>5 DEF JournalInv, Stages, RowsOf, NoCall
<1>9. OwnCalls'
  BY <1>0, <1>1, <1>2, <1>4, <1>5 DEF JournalInv, OwnCalls, n
<1>10. Locking'
  <2>1. /\ writer' # c /\ ~explicit'[c]
        /\ \A d \in Connections \ {c} :
             /\ writer' = d <=> writer = d
             /\ explicit'[d] = explicit[d] /\ (d \in torn' <=> d \in torn)
    BY <1>3 DEF JournalInv, JournalType
  <2> QED
    BY <1>4, <1>5, <2>1 DEF JournalInv, Locking
<1>11. TableOfEnded'
  <2> SUFFICES ASSUME NEW id \in DOMAIN table'
               PROVE  /\ table'[id] \in DOMAIN calls
                      /\ \A d \in Connections \ {c} :
                           Running(d) => call[d].number # table'[id]
    BY <1>2, <1>4, <1>5 DEF TableOfEnded
  <2>1. CASE id \in DOMAIN pending[c]
    <3>1. /\ pending[c][id] \in DOMAIN calls
          /\ pending[c][id] = n \/ calls[pending[c][id]].outcome = "unsure"
      BY <2>1 DEF JournalInv, PendingOfOwn, n
    <3> QED
      BY <1>0, <1>6, <2>1, <3>1 DEF JournalInv, OwnCalls, n
  <2>2. CASE id \notin DOMAIN pending[c]
    BY <1>6, <2>2 DEF JournalInv, TableOfEnded
  <2> QED
    BY <2>1, <2>2
<1>12. PendingOfOwn'
  <2> SUFFICES ASSUME NEW d \in Connections \ {c}, NEW id \in DOMAIN pending[d]
               PROVE  /\ id \notin DOMAIN table'
                      /\ pending[d][id] \in DOMAIN calls
                      /\ \/ Running(d) /\ pending[d][id] = call[d].number
                         \/ /\ calls'[pending[d][id]].outcome = "unsure"
                            /\ RowsOf(pending[d], pending[d][id])
                                 = calls'[pending[d][id]].ids
    BY <1>2, <1>4, <1>5 DEF PendingOfOwn, RowsOf
  <2>1. id \notin DOMAIN pending[c]
    BY DEF JournalInv, Locking
  <2> QED
    BY <1>1, <1>2, <1>6, <2>1 DEF JournalInv, PendingOfOwn
<1>13. Progress'
  <2> SUFFICES ASSUME NEW d \in Connections \ {c}, call[d].at \in {"insert", "commit"}
               PROVE  RowsOf(pending[d], call[d].number) \cup ToSet(call[d].left)
                        = calls'[call[d].number].ids
    BY <1>4, <1>5 DEF Progress, RowsOf, NoCall
  <2>1. call[d].number \in DOMAIN calls
    BY DEF JournalInv, Stages, OwnCalls
  <2> QED
    BY <1>2, <2>1 DEF JournalInv, Progress
<1>14. LoggedIsDurable'
  <2> DEFINE rows(m) == {id \in DOMAIN table : table[id] = m}
             now(m) == {id \in DOMAIN table' : table'[id] = m}
  <2> SUFFICES ASSUME NEW m \in DOMAIN calls
               PROVE  /\ calls'[m].outcome = "logged" => now(m) = calls[m].ids
                      /\ calls'[m].outcome = "unsure" =>
                           now(m) \in {{}, calls[m].ids}
    BY <1>2 DEF LoggedIsDurable, WrittenBy
  <2>0. now(m) = (rows(m) \ DOMAIN pending[c]) \cup RowsOf(pending[c], m)
    BY <1>6 DEF RowsOf
  <2>1. CASE m = n
    <3>1. RowsOf(pending[c], n) = calls[n].ids
      <4>1. call[c].at = "commit" /\ call[c].left = << >>
        BY DEF Commit, JournalInv, Stages
      <4>2. ToSet(call[c].left) = {}
        BY <4>1 DEF ToSet
      <4> QED
        BY <4>1, <4>2 DEF JournalInv, Progress, n
    <3>2. rows(n) = {}
      BY <1>0 DEF JournalInv, TableOfEnded, n
    <3>3. now(n) = calls[n].ids
      BY <2>0, <2>1, <3>1, <3>2
    <3> QED
      BY <2>1, <3>3
  <2>2. CASE m # n
    <3>1. calls'[m].outcome = calls[m].outcome
      BY <1>2, <2>2
    <3>2. \A id \in DOMAIN pending[c] :
            /\ id \notin DOMAIN table
            /\ pending[c][id] = m =>
                 calls[m].outcome = "unsure" /\ RowsOf(pending[c], m) = calls[m].ids
      BY <1>1, <2>2 DEF JournalInv, PendingOfOwn, n
    <3>3. /\ calls[m].outcome = "logged" => rows(m) = calls[m].ids
          /\ calls[m].outcome = "unsure" => rows(m) \in {{}, calls[m].ids}
      BY DEF JournalInv, LoggedIsDurable, WrittenBy
    <3>4. rows(m) \cap DOMAIN pending[c] = {}
      BY <3>2
    <3>5. CASE RowsOf(pending[c], m) = {}
      BY <2>0, <3>1, <3>3, <3>4, <3>5
    <3>6. CASE RowsOf(pending[c], m) # {}
      <4>1. calls[m].outcome = "unsure" /\ RowsOf(pending[c], m) = calls[m].ids
        BY <3>2, <3>6 DEF RowsOf
      <4>2. RowsOf(pending[c], m) \subseteq DOMAIN pending[c]
        BY DEF RowsOf
      <4>3. rows(m) = {}
        BY <3>3, <3>4, <3>6, <4>1, <4>2
      <4> QED
        BY <2>0, <3>1, <4>1, <4>3
    <3> QED
      BY <3>5, <3>6
  <2> QED
    BY <2>1, <2>2
<1> QED
  BY <1>7, <1>8, <1>9, <1>10, <1>11, <1>12, <1>13, <1>14 DEF JournalInv

------------------------------------------------------------------------------
(* The steps of a call *)

LEMMA Begins ==
  ASSUME JournalInv, NEW c \in Connections, NEW ids \in Seq(TradeIds),
         NEW batch \in BOOLEAN,
         ~batch => Len(ids) = 1,
         Started(c, ids, batch, IF ids = << >> THEN "commit" ELSE "insert"),
         explicit' = IF batch THEN [explicit EXCEPT ![c] = handle[c] = "open"]
                              ELSE explicit,
         UNCHANGED <<table, writer, handle, pending, torn>>
  PROVE  JournalInv'
<1> DEFINE n == Len(calls) + 1
           new == [number |-> n, left |-> ids, batch |-> batch,
                   at |-> IF ids = << >> THEN "commit" ELSE "insert"]
           entry == [ids |-> ToSet(ids), outcome |-> "running"]
<1>1. /\ call \in [Connections -> Call] /\ call[c] = NoCall
      /\ calls \in Seq(CallEntry) /\ Len(calls) \in Nat
      /\ DOMAIN calls = 1 .. Len(calls) /\ n \in 1 .. MaxCalls
  BY LenProperties, MaxCallsAssumption DEF JournalInv, JournalType, Started
<1>2. call' = [call EXCEPT ![c] = new] /\ calls' = Append(calls, entry)
  BY DEF Started
<1>3. entry \in CallEntry
  BY ElementOfSeq, LenProperties DEF CallEntry, Outcomes, ToSet
<1>4. /\ new \in Call
      /\ new.number = n /\ new.left = ids /\ new.batch = batch
      /\ new.at = IF ids = << >> THEN "commit" ELSE "insert"
      /\ entry.ids = ToSet(ids) /\ entry.outcome = "running"
  BY <1>1 DEF Call
<1> HIDE DEF new, entry
<1>5. /\ calls' \in Seq(CallEntry) /\ Len(calls') = n
      /\ DOMAIN calls' = DOMAIN calls \cup {n} /\ n \notin DOMAIN calls
      /\ \A m \in DOMAIN calls : calls'[m] = calls[m]
      /\ calls'[n] = entry
  <2>1. /\ calls' \in Seq(CallEntry) /\ Len(calls') = n
        /\ \A m \in 1 .. Len(calls) : calls'[m] = calls[m]
        /\ calls'[n] = entry
    BY <1>1, <1>2, <1>3, AppendProperties
  <2>2. DOMAIN calls' = 1 .. n
    BY <2>1, LenProperties
  <2> QED
    BY <1>1, <2>1, <2>2
<1>6. /\ call'[c] = new /\ Running(c)'
      /\ \A d \in Connections \ {c} :
           call'[d] = call[d] /\ (Running(d)' <=> Running(d))
  BY <1>1, <1>2, <1>4 DEF Running, NoCall
<1>7. /\ \A id \in DOMAIN table : table[id] \in DOMAIN calls
      /\ \A d \in Connections : \A id \in DOMAIN pending[d] :
           pending[d][id] \in DOMAIN calls
  BY DEF JournalInv, TableOfEnded, PendingOfOwn
<1>8. /\ pending' = pending /\ table' = table
      /\ RowsOf(pending[c], n) = {}
  BY <1>5, <1>7 DEF RowsOf
<1> HIDE DEF n
<1>9. JournalType'
  BY <1>1, <1>2, <1>4, <1>5 DEF JournalInv, JournalType
<1>10. Stages'
  BY <1>4, <1>6, <1>8 DEF JournalInv, Stages, RowsOf
<1>11. OwnCalls'
  BY <1>4, <1>5, <1>6 DEF JournalInv, OwnCalls
<1>12. Locking'
  <2>1. writer = c \/ explicit[c] => c \in torn
    BY <1>1 DEF JournalInv, Locking, NoCall
  <2>2. /\ \A d \in Connections \ {c} : explicit'[d] = explicit[d]
        /\ ~batch => explicit' = explicit
    BY DEF JournalInv, JournalType
  <2> QED
    BY <1>4, <1>6, <1>8, <2>1, <2>2 DEF JournalInv, Locking
<1>13. TableOfEnded'
  BY <1>4, <1>5, <1>6, <1>7, <1>8 DEF JournalInv, TableOfEnded
<1>14. PendingOfOwn'
  BY <1>1, <1>5, <1>6, <1>7, <1>8 DEF JournalInv, PendingOfOwn, RowsOf, Running
<1>15. Progress'
  <2> SUFFICES ASSUME NEW d \in Connections \ {c}, call[d].at \in {"insert", "commit"}
               PROVE  RowsOf(pending[d], call[d].number) \cup ToSet(call[d].left)
                        = calls'[call[d].number].ids
    BY <1>4, <1>5, <1>6, <1>8 DEF Progress
  <2>1. call[d].number \in DOMAIN calls
    BY DEF JournalInv, Stages, OwnCalls
  <2> QED
    BY <1>5, <2>1 DEF JournalInv, Progress
<1>16. LoggedIsDurable'
  BY <1>4, <1>5, <1>8 DEF JournalInv, LoggedIsDurable, WrittenBy
<1> QED
  BY <1>9, <1>10, <1>11, <1>12, <1>13, <1>14, <1>15, <1>16 DEF JournalInv

LEMMA Inserts ==
  ASSUME JournalInv, NEW c \in Connections, Insert(c)
  PROVE  JournalInv'
<1> DEFINE n == call[c].number
           id == Head(call[c].left)
           row == [k \in {id} |-> n]
           more == Written(pending[c], row)
           next == [call[c] EXCEPT !.left = Tail(call[c].left),
                                   !.at = IF Len(call[c].left) = 1
                                            THEN "commit" ELSE "insert"]
<1>1. /\ Running(c) /\ call[c].at = "insert" /\ call[c].left # << >>
      /\ MayInsert(c, id)
      /\ n \in DOMAIN calls
      /\ call \in [Connections -> Call] /\ pending \in [Connections -> Rows]
      /\ call[c] \in Call /\ pending[c] \in Rows
      /\ UNCHANGED <<table, handle, explicit, calls, torn>> /\ writer' = c
  BY DEF Insert, JournalInv, JournalType, Stages, OwnCalls
<1>2. /\ id \in TradeIds /\ Tail(call[c].left) \in Seq(TradeIds)
      /\ Len(call[c].left) \in Nat \ {0}
      /\ Len(call[c].left) = 1 <=> Tail(call[c].left) = << >>
      /\ ToSet(call[c].left) = {id} \cup ToSet(Tail(call[c].left))
  BY <1>1, TakesOne DEF Call
<1>3. n \in CallNumbers
  BY <1>1, LenProperties, MaxCallsAssumption DEF JournalInv, JournalType, CallNumbers
<1>4. row \in Rows /\ DOMAIN row = {id} /\ row[id] = n
  BY <1>2, <1>3, OneRow
<1>5. pending' = [pending EXCEPT ![c] = more] /\ call' = [call EXCEPT ![c] = next]
  BY <1>1 DEF Insert
<1>6. /\ next \in Call /\ next # NoCall
      /\ next.number = n /\ next.left = Tail(call[c].left)
      /\ next.batch = call[c].batch
      /\ next.at = IF Len(call[c].left) = 1 THEN "commit" ELSE "insert"
  BY <1>1, <1>2 DEF Call, NoCall
<1> HIDE DEF n, id, row, next
<1>7. /\ more \in Rows
      /\ DOMAIN more = DOMAIN pending[c] \cup {id}
      /\ \A k \in DOMAIN more : more[k] = IF k = id THEN n ELSE pending[c][k]
  <2>1. /\ more \in Rows
        /\ DOMAIN more = DOMAIN pending[c] \cup DOMAIN row
        /\ \A k \in DOMAIN more :
             more[k] = IF k \in DOMAIN row THEN row[k] ELSE pending[c][k]
    BY <1>1, <1>4, WrittenRows
  <2> HIDE DEF more
  <2> QED
    BY <1>4, <2>1
<1> HIDE DEF more
<1>8. /\ call'[c] = next /\ Running(c)' /\ pending'[c] = more
      /\ \A d \in Connections \ {c} :
           /\ call'[d] = call[d] /\ (Running(d)' <=> Running(d))
           /\ pending'[d] = pending[d]
  BY <1>1, <1>5, <1>6 DEF Running
<1>9. /\ id \notin DOMAIN table /\ id \notin DOMAIN pending[c]
      /\ \A d \in Connections \ {c} : writer # d /\ DOMAIN pending[d] = {}
  <2>1. \A d \in Connections \ {c} : writer # d
    BY <1>1, ConnectionsAssumption DEF MayInsert, Nobody
  <2> QED
    BY <1>1, <2>1 DEF MayInsert, JournalInv, Locking
<1>10. /\ RowsOf(more, n) = RowsOf(pending[c], n) \cup {id}
       /\ \A m : m # n => RowsOf(more, m) = RowsOf(pending[c], m)
  <2>1. \A k \in DOMAIN pending[c] : k # id /\ k \in DOMAIN more /\ more[k] = pending[c][k]
    BY <1>7, <1>9
  <2>2. id \in DOMAIN more /\ more[id] = n
    BY <1>7
  <2> QED
    BY <1>7, <2>1, <2>2 DEF RowsOf
<1>11. JournalType'
  BY <1>1, <1>5, <1>6, <1>7 DEF JournalInv, JournalType
<1>12. Stages'
  <2>1. next.batch \/ next.at = "commit"
    BY <1>1, <1>6 DEF JournalInv, Stages
  <2>2. /\ next.at \in {"insert", "commit"}
        /\ next.at = "commit" <=> next.left = << >>
    BY <1>2, <1>6
  <2>3. \A d \in Connections \ {c} :
          RowsOf(pending'[d], call'[d].number) = RowsOf(pending[d], call[d].number)
    BY <1>8
  <2> QED
    BY <1>8, <2>1, <2>2, <2>3 DEF JournalInv, Stages, RowsOf
<1>13. OwnCalls'
  BY <1>1, <1>6, <1>8 DEF JournalInv, OwnCalls, n
<1>14. Locking'
  <2>1. next.batch \/ next.at = "commit"
    BY <1>1, <1>6 DEF JournalInv, Stages
  <2> QED
    BY <1>1, <1>6, <1>8, <1>9, <2>1 DEF JournalInv, Locking
<1>15. TableOfEnded'
  BY <1>1, <1>6, <1>8 DEF JournalInv, TableOfEnded, n
<1>16. PendingOfOwn'
  <2> SUFFICES ASSUME NEW k \in DOMAIN more
               PROVE  /\ k \notin DOMAIN table
                      /\ more[k] \in DOMAIN calls
                      /\ \/ more[k] = n
                         \/ /\ calls[more[k]].outcome = "unsure"
                            /\ RowsOf(more, more[k]) = calls[more[k]].ids
    BY <1>1, <1>6, <1>8, <1>9 DEF PendingOfOwn, RowsOf
  <2>1. CASE k = id
    BY <1>1, <1>7, <1>9, <2>1
  <2>2. CASE k # id /\ more[k] # n
    BY <1>7, <1>10, <2>2 DEF JournalInv, PendingOfOwn, n
  <2>3. CASE k # id /\ more[k] = n
    BY <1>1, <1>7, <2>3 DEF JournalInv, PendingOfOwn
  <2> QED
    BY <2>1, <2>2, <2>3
<1>17. Progress'
  <2>1. RowsOf(pending[c], n) \cup ToSet(call[c].left) = calls[n].ids
    BY <1>1 DEF JournalInv, Progress, n
  <2>2. RowsOf(more, n) \cup ToSet(next.left) = calls[n].ids
    BY <1>2, <1>6, <1>10, <2>1
  <2> QED
    BY <1>1, <1>6, <1>8, <2>2 DEF JournalInv, Progress, RowsOf
<1>18. LoggedIsDurable'
  BY <1>1 DEF JournalInv, LoggedIsDurable, WrittenBy
<1> QED
  BY <1>11, <1>12, <1>13, <1>14, <1>15, <1>16, <1>17, <1>18 DEF JournalInv

(* A refused insert ends a single call, whose only statement it was; a     *)
(* batch goes on with its ROLLBACK.                                        *)
LEMMA Refusals ==
  ASSUME JournalInv, NEW c \in Connections, InsertFails(c)
  PROVE  JournalInv'
<1>1. /\ Running(c) /\ call[c].at = "insert"
      /\ UNCHANGED <<table, writer, handle, pending, explicit, torn>>
      /\ call \in [Connections -> Call] /\ call[c] \in Call
  BY DEF InsertFails, JournalInv, JournalType, Stages
<1>2. CASE ~call[c].batch
  <2>1. Return(c, "refused")
    BY <1>2 DEF InsertFails
  <2>2. RowsOf(pending[c], call[c].number) = {}
    BY <1>1, <1>2 DEF JournalInv, Stages
  <2> QED
    BY <1>1, <1>2, <2>1, <2>2, EndsInTransaction
<1>3. CASE call[c].batch
  <2> DEFINE next == [call[c] EXCEPT !.at = "rollback"]
  <2>1. call' = [call EXCEPT ![c] = next] /\ calls' = calls
    BY <1>3 DEF InsertFails, WhenRefused
  <2>2. /\ next \in Call /\ next # NoCall
        /\ next.number = call[c].number /\ next.left = call[c].left
        /\ next.batch = TRUE /\ next.at = "rollback"
    BY <1>1, <1>3 DEF Call, NoCall
  <2> HIDE DEF next
  <2>3. /\ call'[c] = next /\ Running(c)'
        /\ \A d \in Connections \ {c} :
             call'[d] = call[d] /\ (Running(d)' <=> Running(d))
    BY <1>1, <2>1, <2>2 DEF Running
  <2>4. JournalType'
    BY <1>1, <2>1, <2>2 DEF JournalInv, JournalType
  <2>5. Stages'
    BY <1>1, <2>2, <2>3 DEF JournalInv, Stages, RowsOf
  <2>6. OwnCalls'
    BY <1>1, <2>1, <2>2, <2>3 DEF JournalInv, OwnCalls
  <2>7. Locking'
    BY <1>1, <2>2, <2>3 DEF JournalInv, Locking
  <2>8. TableOfEnded'
    BY <1>1, <2>1, <2>2, <2>3 DEF JournalInv, TableOfEnded
  <2>9. PendingOfOwn'
    BY <1>1, <2>1, <2>2, <2>3 DEF JournalInv, PendingOfOwn, RowsOf
  <2>10. Progress'
    BY <1>1, <2>1, <2>2, <2>3 DEF JournalInv, Progress, RowsOf
  <2>11. LoggedIsDurable'
    BY <1>1, <2>1 DEF JournalInv, LoggedIsDurable, WrittenBy
  <2> QED
    BY <2>4, <2>5, <2>6, <2>7, <2>8, <2>9, <2>10, <2>11 DEF JournalInv
<1> QED
  BY <1>1, <1>2, <1>3 DEF Call

LEMMA Connects ==
  ASSUME JournalInv, NEW c \in Connections, Open(c)
  PROVE  JournalInv'
<1>1. /\ UNCHANGED <<table, writer, pending, explicit, call, calls, torn>>
      /\ handle' \in [Connections -> {"closed", "null", "open"}]
  BY DEF Open, JournalInv, JournalType
<1> QED
  BY <1>1
     DEF JournalInv, JournalType, Stages, OwnCalls, Locking, TableOfEnded,
         PendingOfOwn, Progress, LoggedIsDurable, WrittenBy, RowsOf, Running

(* Closing undoes what a failed COMMIT left. *)
LEMMA Disconnects ==
  ASSUME JournalInv, NEW c \in Connections, Close(c)
  PROVE  JournalInv'
<1>1. /\ UNCHANGED <<table, call, calls>>
      /\ handle' \in [Connections -> {"closed", "null", "open"}]
      /\ pending \in [Connections -> Rows]
      /\ pending' = [pending EXCEPT ![c] = NoRows]
      /\ explicit' = [explicit EXCEPT ![c] = FALSE]
      /\ writer' = IF writer = c THEN Nobody ELSE writer
      /\ torn' = torn \ {c}
      /\ call[c] = NoCall
      /\ \A d \in Connections : d # Nobody
  <2>1. call' = call
    BY DEF Close, Abandoned, JournalInv, JournalType
  <2> QED
    BY <2>1, ConnectionsAssumption
       DEF Close, Abandoned, JournalInv, JournalType, Nobody
<1>2. /\ DOMAIN pending'[c] = {}
      /\ \A d \in Connections \ {c} : pending'[d] = pending[d]
  BY <1>1, NoRowsAreRows
<1>3. /\ writer' # c /\ ~explicit'[c]
      /\ \A d \in Connections \ {c} :
           /\ writer' = d <=> writer = d
           /\ explicit'[d] = explicit[d] /\ (d \in torn' <=> d \in torn)
  BY <1>1 DEF JournalInv, JournalType
<1>4. JournalType'
  BY <1>1, NoRowsAreRows DEF JournalInv, JournalType
<1>5. Stages' /\ Progress'
  BY <1>1, <1>2 DEF JournalInv, Stages, Progress, RowsOf, Running, NoCall
<1>6. OwnCalls' /\ TableOfEnded' /\ LoggedIsDurable'
  BY <1>1
     DEF JournalInv, OwnCalls, TableOfEnded, LoggedIsDurable, WrittenBy, Running
<1>7. Locking'
  BY <1>1, <1>2, <1>3 DEF JournalInv, Locking
<1>8. PendingOfOwn'
  BY <1>1, <1>2 DEF JournalInv, PendingOfOwn, RowsOf, Running
<1> QED
  BY <1>4, <1>5, <1>6, <1>7, <1>8 DEF JournalInv

(* An empty batch goes straight to its COMMIT. *)
LEMMA Starts ==
  ASSUME JournalInv, NEW c \in Connections,
         (\E id \in TradeIds : log_trade(c, id)) \/ (\E ids \in Batches : log_trades(c, ids))
  PROVE  JournalInv'
<1>1. ASSUME NEW id \in TradeIds, log_trade(c, id) PROVE JournalInv'
  <2>1. <<id>> \in Seq(TradeIds) /\ Len(<<id>>) = 1 /\ <<id>> # << >>
    OBVIOUS
  <2> DEFINE ids == <<id>>
  <2>2. Started(c, ids, FALSE, IF ids = << >> THEN "commit" ELSE "insert")
    BY <1>1, <2>1 DEF log_trade
  <2>3. UNCHANGED <<table, writer, handle, pending, explicit, torn>>
    BY <1>1 DEF log_trade
  <2> HIDE DEF ids
  <2>4. ids \in Seq(TradeIds) /\ Len(ids) = 1
    BY <2>1 DEF ids
  <2> QED
    BY <2>2, <2>3, <2>4, Begins
<1>2. ASSUME NEW ids \in Batches, log_trades(c, ids) PROVE JournalInv'
  <2>1. ids \in Seq(TradeIds)
    BY BatchesAssumption
  <2> QED
    BY <1>2, <2>1, Begins DEF log_trades
<1> QED
  BY <1>1, <1>2

(* A call that gives up, or dies with its process. *)
LEMMA GivesUp ==
  ASSUME JournalInv, NEW c \in Connections, Crash(c) \/ Rollback(c)
  PROVE  JournalInv'
<1>1. CASE Crash(c)
  <2>1. /\ Running(c) /\ Return(c, "crashed") /\ EndTransaction(c) /\ UNCHANGED table
        /\ handle' \in [Connections -> {"closed", "null", "open"}]
    BY <1>1
       DEF Crash, Abandoned, EndTransaction, Return, Running, JournalInv, JournalType
  <2> QED
    BY <2>1, EndsWithoutRows
<1>2. CASE Rollback(c)
  <2>1. /\ Running(c) /\ Return(c, "refused") /\ EndTransaction(c) /\ UNCHANGED table
        /\ handle' \in [Connections -> {"closed", "null", "open"}]
    BY <1>2 DEF Rollback, JournalInv, JournalType, Stages
  <2> QED
    BY <2>1, EndsWithoutRows
<1> QED
  BY <1>1, <1>2

LEMMA StaysOpen ==
  ASSUME JournalInv, NEW c \in Connections, StaysPending(c) \/ CommitFails(c)
  PROVE  JournalInv'
<1>1. Running(c) /\ call[c].at = "commit"
  BY DEF StaysPending, CommitFails, JournalInv, Stages
<1>2. RowsOf(pending[c], call[c].number) = calls[call[c].number].ids
  <2>1. ToSet(call[c].left) = {}
    BY <1>1 DEF JournalInv, Stages, ToSet
  <2> QED
    BY <1>1, <2>1 DEF JournalInv, Progress
<1>3. CASE StaysPending(c)
  <2>1. /\ Return(c, "unsure") /\ c \in torn
        /\ UNCHANGED <<table, writer, handle, pending, explicit>> /\ torn' = torn
    BY <1>3 DEF StaysPending, Autocommits, JournalInv, Locking
  <2> QED
    BY <1>1, <1>2, <2>1, EndsInTransaction
<1>4. CASE CommitFails(c)
  <2>1. UNCHANGED <<table, handle>>
    BY <1>4 DEF CommitFails
  <2>2. CASE EndTransaction(c) /\ Return(c, IF call[c].batch THEN "unsure" ELSE "refused")
    <3>1. handle' \in [Connections -> {"closed", "null", "open"}]
      BY <2>1 DEF JournalInv, JournalType
    <3> QED
      BY <1>1, <2>1, <2>2, <3>1, EndsWithoutRows
  <2>3. CASE /\ torn' = torn \cup {c} /\ Return(c, "unsure")
             /\ UNCHANGED <<writer, pending, explicit>>
    BY <1>1, <1>2, <2>1, <2>3, EndsInTransaction
  <2> QED
    BY <1>4, <2>2, <2>3 DEF CommitFails
<1> QED
  BY <1>3, <1>4

LEMMA Opened == Init => JournalInv
<1> SUFFICES ASSUME Init PROVE JournalInv
  OBVIOUS
<1>1. /\ NoCall \in Call /\ NoCall.at = "idle" /\ ~NoCall.batch
  BY EmptySeq, MaxCallsAssumption DEF Call, NoCall
<1>2. calls \in Seq(CallEntry) /\ Len(calls) = 0
  BY EmptySeq DEF Init
<1>3. JournalType
  BY <1>1, <1>2, NoRowsAreRows, MaxCallsAssumption DEF Init, JournalType
<1>4. \A c \in Connections :
        /\ call[c] = NoCall /\ pending[c] = NoRows /\ ~explicit[c] /\ writer # c
  BY ConnectionsAssumption DEF Init, Nobody
<1>5. Stages /\ OwnCalls /\ Progress
  BY <1>1, <1>4 DEF Stages, OwnCalls, Progress, Running
<1>6. Locking /\ TableOfEnded /\ PendingOfOwn
  BY <1>4, NoRowsAreRows DEF Locking, TableOfEnded, PendingOfOwn, Init
<1>7. LoggedIsDurable
  BY <1>2, LenProperties DEF LoggedIsDurable
<1> QED
  BY <1>3, <1>5, <1>6, <1>7 DEF JournalInv

LEMMA Continuation == JournalInv /\ [Next]_vars => JournalInv'
<1> SUFFICES ASSUME JournalInv, [Next]_vars PROVE JournalInv'
  OBVIOUS
<1>1. ASSUME NEW c \in Connections,
             Open(c) \/ Close(c)
      PROVE  JournalInv'
  BY <1>1, Connects, Disconnects
<1>2. ASSUME NEW c \in Connections,
             \/ \E id \in TradeIds : log_trade(c, id)
             \/ \E ids \in Batches : log_trades(c, ids)
      PROVE  JournalInv'
  BY <1>2, Starts
<1>3. ASSUME NEW c \in Connections, Crash(c) \/ Step(c) \/ CommitFails(c)
      PROVE  JournalInv'
  BY <1>3, Inserts, Refusals, Commits, GivesUp, StaysOpen DEF Step
<1>4. CASE UNCHANGED vars
  BY <1>4
     DEF vars, JournalInv, JournalType, Stages, OwnCalls, Locking, TableOfEnded,
         PendingOfOwn, Progress, LoggedIsDurable, WrittenBy, RowsOf, Running
<1> QED
  BY <1>1, <1>2, <1>3, <1>4 DEF Next

------------------------------------------------------------------------------
(* The strengthening of the journal's invariants, for every set of         *)
(* processes, trades and batches.                                          *)
THEOREM JournalInvariant == Spec => []JournalInv
<1> QED
  BY Opened, Continuation, PTL DEF Spec

(* What was reported as logged is in the journal, written by that call.    *)
THEOREM LoggedStays == Spec => []LoggedIsDurable
<1>1. JournalInv => LoggedIsDurable
  BY DEF JournalInv
<1> QED
  BY <1>1, JournalInvariant, PTL

(* Between two calls no lock and no transaction is held, but behind a      *)
(* COMMIT that failed.                                                     *)
(* The parts of the invariant give the types the runs check. *)
LEMMA TypesHold == JournalInv => TypeOK
<1> SUFFICES ASSUME JournalInv PROVE TypeOK
  OBVIOUS
<1>1. table \in Rows /\ \A c \in Connections : pending[c] \in Rows /\ call[c] \in Call
  BY DEF JournalInv, JournalType
<1> QED
  BY <1>1, RowsHave DEF JournalInv, JournalType, TypeOK, Call, CallEntry

THEOREM NothingHeldIdle == Spec => []IdleHoldsNothing
<1>1. JournalInv => IdleHoldsNothing
  <2> SUFFICES ASSUME JournalInv PROVE IdleHoldsNothing
    OBVIOUS
  <2>1. table \in Rows /\ \A c \in Connections : pending[c] \in Rows /\ call[c] \in Call
    BY DEF JournalInv, JournalType
  <2>2. TypeOK
    BY TypesHold
  <2>3. ASSUME NEW c \in Connections, call[c] = NoCall, c \notin torn
        PROVE  writer # c /\ pending[c] = NoRows /\ ~explicit[c]
    <3>1. writer # c /\ ~explicit[c] /\ DOMAIN pending[c] = {}
      BY <2>3 DEF JournalInv, Locking, NoCall
    <3>2. pending[c] = NoRows
      BY <2>1, <3>1 DEF Rows, NoRows
    <3> QED
      BY <3>1, <3>2
  <2> QED
    BY <2>2, <2>3 DEF IdleHoldsNothing
<1> QED
  BY <1>1, JournalInvariant, PTL

------------------------------------------------------------------------------
(* The log of calls *)

Offered == [n \in DOMAIN calls |-> calls[n].ids]

GivenUp == {n \in DOMAIN calls : calls[n].outcome \in {"refused", "crashed"}}

Confirmed == {n \in DOMAIN calls : calls[n].outcome = "logged"}

LEMMA OfferedSeq ==
  ASSUME JournalType
  PROVE  /\ Offered \in Seq(SUBSET TradeIds) /\ Len(Offered) = Len(calls)
         /\ DOMAIN Offered = DOMAIN calls
         /\ \A n \in DOMAIN calls :
              Offered[n] = calls[n].ids /\ Offered[n] \in SUBSET TradeIds
<1>1. /\ DOMAIN calls = 1 .. Len(calls) /\ Len(calls) \in Nat
      /\ \A n \in DOMAIN calls : calls[n].ids \in SUBSET TradeIds
  <2>1. calls \in [1 .. Len(calls) -> CallEntry] /\ Len(calls) \in Nat
    BY LenProperties DEF JournalType
  <2> QED
    BY <2>1 DEF CallEntry
<1>2. Offered \in [1 .. Len(calls) -> SUBSET TradeIds]
  BY <1>1 DEF Offered
<1>3. Offered \in Seq(SUBSET TradeIds) /\ Len(Offered) = Len(calls)
  BY <1>1, <1>2, IsASeq, LenProperties
<1> QED
  BY <1>1, <1>3 DEF Offered

(* A call is offered when it begins, *)
LEMMA Offers ==
  ASSUME JournalInv, NEW c \in Connections, NEW ids \in Seq(TradeIds),
         NEW batch, NEW at, Started(c, ids, batch, at), UNCHANGED table
  PROVE  Log!Offer
<1> DEFINE entry == [ids |-> ToSet(ids), outcome |-> "running"]
<1>1. JournalType /\ calls' = Append(calls, entry)
  BY DEF JournalInv, Started
<1>2. ToSet(ids) \in SUBSET TradeIds /\ entry \in CallEntry
  BY ElementOfSeq, LenProperties DEF CallEntry, Outcomes, ToSet
<1>3. entry.ids = ToSet(ids) /\ entry.outcome = "running"
  OBVIOUS
<1> HIDE DEF entry
<1>4. /\ calls' \in Seq(CallEntry) /\ Len(calls') = Len(calls) + 1
      /\ Len(calls) \in Nat /\ DOMAIN calls = 1 .. Len(calls)
      /\ DOMAIN calls' = 1 .. Len(calls) + 1
      /\ \A m \in DOMAIN calls : calls'[m] = calls[m]
      /\ calls'[Len(calls) + 1] = entry
  <2>1. /\ calls' \in Seq(CallEntry) /\ Len(calls') = Len(calls) + 1
        /\ \A m \in 1 .. Len(calls) : calls'[m] = calls[m]
        /\ calls'[Len(calls) + 1] = entry
    BY <1>1, <1>2, AppendProperties DEF JournalType
  <2> QED
    BY <1>1, <2>1, LenProperties DEF JournalType
<1>5. Offered' = Append(Offered, ToSet(ids))
  <2>1. /\ Offered \in Seq(SUBSET TradeIds) /\ Len(Offered) = Len(calls)
        /\ \A n \in DOMAIN calls :
             Offered[n] = calls[n].ids /\ calls[n].ids \in SUBSET TradeIds
    BY <1>1, OfferedSeq
  <2>2. /\ Append(Offered, ToSet(ids)) \in Seq(SUBSET TradeIds)
        /\ Len(Append(Offered, ToSet(ids))) = Len(calls) + 1
        /\ \A m \in 1 .. Len(calls) : Append(Offered, ToSet(ids))[m] = calls[m].ids
        /\ Append(Offered, ToSet(ids))[Len(calls) + 1] = ToSet(ids)
    <3> DEFINE Sets == SUBSET TradeIds
               old == Offered
               set == ToSet(ids)
    <3>1. old \in Seq(Sets) /\ set \in Sets
      BY <1>2, <2>1
    <3> HIDE DEF Sets, old, set
    <3>2. /\ Append(old, set) \in Seq(Sets)
          /\ Len(Append(old, set)) = Len(old) + 1
          /\ \A m \in 1 .. Len(old) : Append(old, set)[m] = old[m]
          /\ Append(old, set)[Len(old) + 1] = set
      BY <3>1, AppendProperties
    <3> QED
      BY <1>4, <2>1, <3>2 DEF Sets, old, set
  <2>3. \A n \in 1 .. Len(calls) + 1 :
          /\ calls'[n].ids \in SUBSET TradeIds
          /\ calls'[n].ids = Append(Offered, ToSet(ids))[n]
    <3>1. \A n \in 1 .. Len(calls) + 1 : n \in 1 .. Len(calls) \/ n = Len(calls) + 1
      BY <1>4
    <3>2. \A n \in 1 .. Len(calls) : calls[n].ids \in SUBSET TradeIds
      BY <1>4, <2>1
    <3> QED
      BY <1>2, <1>3, <1>4, <2>2, <3>1, <3>2
  <2>4. Offered' \in [1 .. Len(calls) + 1 -> SUBSET TradeIds]
    BY <1>4, <2>3 DEF Offered
  <2>5. Offered' \in Seq(SUBSET TradeIds) /\ Len(Offered') = Len(calls) + 1
    BY <1>4, <2>4, IsASeq, LenProperties
  <2>6. \A n \in 1 .. Len(Offered') : Offered'[n] = Append(Offered, ToSet(ids))[n]
    BY <1>4, <2>3, <2>5 DEF Offered
  <2> QED
    BY <2>2, <2>5, <2>6, SeqEqual
<1>6. GivenUp' = GivenUp /\ Confirmed' = Confirmed
  BY <1>3, <1>4 DEF GivenUp, Confirmed
<1> QED
  BY <1>2, <1>5, <1>6 DEF Log!Offer, Offered, GivenUp, Confirmed

(* refused when it returns empty-handed, or dies; nothing of it is in the  *)
(* log,                                                                    *)
LEMMA Refuses ==
  ASSUME JournalInv, NEW c \in Connections, Running(c),
         NEW outcome \in {"refused", "crashed"}, Return(c, outcome), UNCHANGED table
  PROVE  Log!Refuse
<1> DEFINE n == call[c].number
<1>1. /\ n \in DOMAIN calls /\ calls[n].outcome = "running"
      /\ \A id \in DOMAIN table : table[id] # n
  BY DEF JournalInv, OwnCalls, TableOfEnded
<1>2. /\ DOMAIN calls' = DOMAIN calls
      /\ \A m \in DOMAIN calls :
           /\ calls'[m].ids = calls[m].ids
           /\ calls'[m].outcome = IF m = n THEN outcome ELSE calls[m].outcome
  <2> HIDE DEF n
  <2>1. outcome \in Outcomes
    BY DEF Outcomes
  <2> QED
    BY <1>1, <2>1, OutcomeKnown DEF JournalInv, Return, n
<1> HIDE DEF n
<1>3. Offered' = Offered
  BY <1>2 DEF Offered
<1>4. Confirmed' = Confirmed /\ GivenUp' = GivenUp \cup {n} /\ n \notin Confirmed
  BY <1>1, <1>2 DEF Confirmed, GivenUp
<1>5. n \in DOMAIN Offered /\ (Log!Entered(n) => Offered[n] = {})
  BY <1>1 DEF Log!Entered, Offered
<1> QED
  BY <1>3, <1>4, <1>5 DEF Log!Refuse, Log!Calls, Offered, Confirmed, GivenUp

(* left as it is when its caller cannot know,                              *)
LEMMA Withholds ==
  ASSUME JournalInv, NEW c \in Connections, Running(c), Return(c, "unsure"),
         UNCHANGED table
  PROVE  UNCHANGED Log!vars
<1> DEFINE n == call[c].number
<1>1. n \in DOMAIN calls /\ calls[n].outcome = "running"
  BY DEF JournalInv, OwnCalls
<1>2. /\ DOMAIN calls' = DOMAIN calls
      /\ \A m \in DOMAIN calls :
           /\ calls'[m].ids = calls[m].ids
           /\ calls'[m].outcome = IF m = n THEN "unsure" ELSE calls[m].outcome
  <2> HIDE DEF n
  <2>1. "unsure" \in Outcomes
    BY DEF Outcomes
  <2> QED
    BY <1>1, <2>1, OutcomeKnown DEF JournalInv, Return, n
<1> HIDE DEF n
<1> QED
  BY <1>1, <1>2 DEF Log!vars

(* and entered when its COMMIT succeeds, together with the calls whose     *)
(* transaction it ends.                                                    *)
LEMMA Grows ==
  ASSUME JournalInv, NEW c \in Connections, Commit(c)
  PROVE  Log!Grow
<1> DEFINE n == call[c].number
           rows == pending[c]
           ns == {rows[id] : id \in DOMAIN rows} \cup {n}
<1>1. /\ Running(c) /\ Return(c, "logged") /\ call[c].at = "commit"
      /\ n \in DOMAIN calls /\ calls[n].outcome = "running"
  BY DEF Commit, JournalInv, Stages, OwnCalls
<1>2. /\ DOMAIN calls' = DOMAIN calls
      /\ \A m \in DOMAIN calls :
           /\ calls'[m].ids = calls[m].ids
           /\ calls'[m].outcome = IF m = n THEN "logged" ELSE calls[m].outcome
  <2> HIDE DEF n
  <2>1. "logged" \in Outcomes
    BY DEF Outcomes
  <2> QED
    BY <1>1, <2>1, OutcomeKnown DEF JournalInv, Return, n
<1>3. RowsOf(rows, n) = calls[n].ids
  <2>1. ToSet(call[c].left) = {}
    BY <1>1 DEF JournalInv, Stages, ToSet
  <2> QED
    BY <1>1, <2>1 DEF JournalInv, Progress
<1>4. \A id \in DOMAIN rows :
        /\ id \notin DOMAIN table /\ rows[id] \in DOMAIN calls
        /\ \/ rows[id] = n
           \/ /\ calls[rows[id]].outcome = "unsure"
              /\ RowsOf(rows, rows[id]) = calls[rows[id]].ids
  BY DEF JournalInv, PendingOfOwn
<1>5. table' = Written(table, rows)
  BY DEF Commit
<1> HIDE DEF n, rows
<1>6. \A m \in ns :
        /\ m \in DOMAIN calls /\ calls[m].outcome \in {"running", "unsure"}
        /\ RowsOf(rows, m) = calls[m].ids /\ Offered[m] = calls[m].ids
  BY <1>1, <1>3, <1>4 DEF Offered
<1> DEFINE new == UNION {Offered[m] : m \in ns}
<1>7. new = DOMAIN rows
  <2>1. ASSUME NEW id \in DOMAIN rows
        PROVE  rows[id] \in ns /\ id \in Offered[rows[id]]
    BY <1>6 DEF RowsOf
  <2>2. ASSUME NEW m \in ns, NEW id \in Offered[m] PROVE id \in DOMAIN rows
    BY <1>6 DEF RowsOf
  <2> QED
    BY <2>1, <2>2
<1>8. \A id \in DOMAIN rows : \A m \in ns : id \in Offered[m] <=> m = rows[id]
  BY <1>6 DEF RowsOf
<1>9. Log!Enter(ns)
  <2> HIDE DEF new
  <2>1. \A id \in new : id \notin DOMAIN table
    BY <1>4, <1>7
  <2>2. \A k, m \in ns : k # m => Offered[k] \cap Offered[m] = {}
    <3>1. \A m \in ns : \A id \in Offered[m] : id \in DOMAIN rows
      BY <1>7 DEF new
    <3> QED
      BY <1>8, <3>1
  <2>3. \A id \in new : (CHOOSE m \in ns : id \in Offered[m]) = rows[id]
    BY <1>7, <1>8 DEF new
  <2>4. table' = [id \in DOMAIN table \cup new |->
                    IF id \in new THEN CHOOSE m \in ns : id \in Offered[m]
                    ELSE table[id]]
    BY <1>5, <1>7, <2>3 DEF Written
  <2> HIDE DEF ns
  <2> QED
    BY <2>1, <2>2, <2>4 DEF new, Log!Enter, Offered
<1>10. Offered' = Offered
  BY <1>2 DEF Offered
<1>11. GivenUp' = GivenUp /\ Confirmed' = Confirmed \cup {n}
  BY <1>1, <1>2 DEF GivenUp, Confirmed
<1>12. ns \subseteq DOMAIN Offered \ GivenUp /\ {n} \subseteq ns
  BY <1>6 DEF Offered, GivenUp
<1> HIDE DEF ns, new
<1>13. \E told \in SUBSET ns : Confirmed' = Confirmed \cup told
  BY <1>11, <1>12
<1>14. ns \in SUBSET (Log!Calls \ GivenUp)
  BY <1>12 DEF Log!Calls, Offered
<1> QED
  BY <1>9, <1>10, <1>11, <1>13, <1>14 DEF Log!Grow, Offered, GivenUp, Confirmed

LEMMA LogStarts == Init => Log!Init
<1> SUFFICES ASSUME Init PROVE Log!Init
  OBVIOUS
<1>1. DOMAIN calls = {} /\ DOMAIN table = {}
  BY DEF Init, NoRows
<1>2. Offered = << >> /\ GivenUp = {} /\ Confirmed = {}
  BY <1>1 DEF Offered, GivenUp, Confirmed
<1> QED
  BY <1>1, <1>2 DEF Log!Init, Offered, GivenUp, Confirmed

LEMMA LogContinues == JournalInv /\ [Next]_vars => [Log!Next]_(Log!vars)
<1> SUFFICES ASSUME JournalInv, [Next]_vars PROVE [Log!Next]_(Log!vars)
  OBVIOUS
<1>1. ASSUME UNCHANGED <<table, calls>> PROVE UNCHANGED Log!vars
  BY <1>1 DEF Log!vars
<1>2. ASSUME NEW c \in Connections, Open(c) \/ Close(c) PROVE UNCHANGED Log!vars
  <2>1. UNCHANGED <<table, calls>>
    BY <1>2 DEF Open, Close, Abandoned
  <2> QED
    BY <2>1, <1>1
<1>3. ASSUME NEW c \in Connections,
             \/ \E id \in TradeIds : log_trade(c, id)
             \/ \E ids \in Batches : log_trades(c, ids)
      PROVE  Log!Offer
  <2>1. \A id \in TradeIds : <<id>> \in Seq(TradeIds)
    OBVIOUS
  <2> QED
    BY <1>3, <2>1, BatchesAssumption, Offers DEF log_trade, log_trades
<1>4. ASSUME NEW c \in Connections, Crash(c) PROVE Log!Refuse
  <2>1. Running(c) /\ Return(c, "crashed") /\ UNCHANGED table
    BY <1>4 DEF Crash, Abandoned, Return, Running
  <2> QED
    BY <2>1, Refuses
<1>5. ASSUME NEW c \in Connections, Insert(c) PROVE UNCHANGED Log!vars
  <2>1. UNCHANGED <<table, calls>>
    BY <1>5 DEF Insert
  <2> QED
    BY <2>1, <1>1
<1>6. ASSUME NEW c \in Connections, InsertFails(c)
      PROVE  Log!Refuse \/ UNCHANGED Log!vars
  <2>1. Running(c) /\ UNCHANGED table
    BY <1>6 DEF InsertFails, JournalInv, Stages
  <2>2. CASE call[c].batch
    <3>1. UNCHANGED <<table, calls>>
      BY <1>6, <2>1, <2>2 DEF InsertFails
    <3> QED
      BY <3>1, <1>1
  <2>3. CASE ~call[c].batch
    BY <1>6, <2>1, <2>3, Refuses DEF InsertFails
  <2> QED
    BY <2>2, <2>3
<1>7. ASSUME NEW c \in Connections, Rollback(c) PROVE Log!Refuse
  <2>1. Running(c) /\ Return(c, "refused") /\ UNCHANGED table
    BY <1>7 DEF Rollback, JournalInv, Stages
  <2> QED
    BY <2>1, Refuses
<1>8. ASSUME NEW c \in Connections, StaysPending(c) PROVE UNCHANGED Log!vars
  <2>1. Running(c) /\ Return(c, "unsure") /\ UNCHANGED table
    BY <1>8 DEF StaysPending, JournalInv, Stages
  <2> QED
    BY <2>1, Withholds
<1>9. ASSUME NEW c \in Connections, CommitFails(c)
      PROVE  Log!Refuse \/ UNCHANGED Log!vars
  <2>1. Running(c) /\ UNCHANGED table
    BY <1>9 DEF CommitFails, JournalInv, Stages
  <2>2. Return(c, "unsure") \/ Return(c, "refused")
    BY <1>9 DEF CommitFails
  <2> QED
    BY <2>1, <2>2, Refuses, Withholds
<1>10. ASSUME NEW c \in Connections, Commit(c) PROVE Log!Grow
  BY <1>10, Grows
<1>11. CASE UNCHANGED vars
  <2>1. UNCHANGED <<table, calls>>
    BY <1>11 DEF vars
  <2> QED
    BY <2>1, <1>1
<1> QED
  BY <1>2, <1>3, <1>4, <1>5, <1>6, <1>7, <1>8, <1>9, <1>10, <1>11
     DEF Next, Step, Log!Next

(* The journal implements the append-only log of whole calls.              *)
THEOREM JournalKeepsLog == Spec => KeepsLog
<1> QED
  BY LogStarts, LogContinues, JournalInvariant, PTL DEF Spec, KeepsLog, Log!Spec

------------------------------------------------------------------------------
(* What a process is shown *)

(* Calls are finitely many and so are their trades: the rows can be        *)
(* counted, whatever the set of ids.                                       *)
Countable ==
  /\ IsFiniteSet(DOMAIN table)
  /\ \A c \in Connections : IsFiniteSet(DOMAIN pending[c])

LEMMA CountStarts == Init => Countable
<1> QED
  BY NoRowsAreRows, FS_EmptySet DEF Init, Countable

LEMMA CountContinues == JournalInv /\ Countable /\ [Next]_vars => Countable'
<1> SUFFICES ASSUME JournalInv, Countable, [Next]_vars PROVE Countable'
  OBVIOUS
<1>1. table \in Rows /\ pending \in [Connections -> Rows]
  BY DEF JournalInv, JournalType
<1>2. CASE UNCHANGED <<table, pending>>
  BY <1>2 DEF Countable
<1>3. ASSUME NEW c \in Connections, UNCHANGED table,
             pending' = [pending EXCEPT ![c] = NoRows]
      PROVE  Countable'
  BY <1>1, <1>3, NoRowsAreRows, FS_EmptySet DEF Countable
<1>4. ASSUME NEW c \in Connections, Insert(c)
      PROVE  Countable'
  <2> DEFINE id == Head(call[c].left)
             row == [k \in {id} |-> call[c].number]
             rows == Written(pending[c], row)
  <2>1. UNCHANGED table /\ pending' = [pending EXCEPT ![c] = rows]
    BY <1>4 DEF Insert
  <2>2. DOMAIN rows = DOMAIN pending[c] \cup {id}
    BY DEF Written
  <2>3. IsFiniteSet(DOMAIN rows)
    <3> HIDE DEF rows, id
    <3> QED
      BY <2>2, FS_AddElement DEF Countable
  <2> HIDE DEF rows
  <2> QED
    BY <1>1, <2>1, <2>3 DEF Countable
<1>5. ASSUME NEW c \in Connections, Commit(c)
      PROVE  Countable'
  <2>1. /\ table' = Written(table, pending[c])
        /\ pending' = [pending EXCEPT ![c] = NoRows]
    BY <1>5 DEF Commit, EndTransaction
  <2>2. DOMAIN table' = DOMAIN table \cup DOMAIN pending[c]
    BY <2>1 DEF Written
  <2>3. IsFiniteSet(DOMAIN table')
    BY <2>2, FS_Union DEF Countable
  <2> QED
    BY <1>1, <2>1, <2>3, NoRowsAreRows, FS_EmptySet DEF Countable
<1>6. ASSUME NEW c \in Connections, Close(c) \/ Crash(c) \/ Rollback(c)
      PROVE  Countable'
  BY <1>3, <1>6 DEF Close, Crash, Abandoned, Rollback, EndTransaction
<1>7. ASSUME NEW c \in Connections, CommitFails(c)
      PROVE  Countable'
  BY <1>2, <1>3, <1>7 DEF CommitFails, EndTransaction
<1>8. ASSUME NEW c \in Connections,
             \/ Open(c) \/ InsertFails(c) \/ StaysPending(c)
             \/ \E id \in TradeIds : log_trade(c, id)
             \/ \E ids \in Batches : log_trades(c, ids)
      PROVE  Countable'
  BY <1>2, <1>8 DEF Open, InsertFails, StaysPending, log_trade, log_trades
<1> QED
  BY <1>2, <1>4, <1>5, <1>6, <1>7, <1>8 DEF Next, Step, vars

(* Rows are never changed and never go. *)
LEMMA TableGrows ==
  ASSUME JournalInv, [Next]_vars
  PROVE  \A id \in DOMAIN table : id \in DOMAIN table' /\ table'[id] = table[id]
<1>1. CASE UNCHANGED table
  BY <1>1
<1>2. ASSUME NEW c \in Connections, Commit(c)
      PROVE  \A id \in DOMAIN table : id \in DOMAIN table' /\ table'[id] = table[id]
  <2>1. /\ table' = Written(table, pending[c])
        /\ \A id \in DOMAIN pending[c] : id \notin DOMAIN table
    BY <1>2 DEF Commit, JournalInv, PendingOfOwn
  <2> QED
    BY <2>1 DEF Written
<1>3. CASE ~\E c \in Connections : Commit(c)
  BY <1>1, <1>3
     DEF Next, Step, vars, Open, Close, Crash, Abandoned, log_trade, log_trades,
         Insert, InsertFails, Rollback, StaysPending, CommitFails
<1> QED
  BY <1>2, <1>3

LEMMA NothingPends ==
  ASSUME NEW rows \in Rows, NEW more \in Rows, DOMAIN more = {}
  PROVE  Written(rows, more) = rows
<1>1. rows = [id \in DOMAIN rows |-> rows[id]]
  BY DEF Rows
<1> QED
  BY <1>1 DEF Written

(* A process between two calls is shown the journal. *)
LEMMA ShowsTable ==
  JournalInv => \A c \in Connections : Settled(c) => Visible(c) = table
<1> SUFFICES ASSUME JournalInv, NEW c \in Connections, Settled(c)
             PROVE  Visible(c) = table
  OBVIOUS
<1>1. table \in Rows /\ pending[c] \in Rows
  BY DEF JournalInv, JournalType
<1>2. DOMAIN pending[c] = {}
  BY DEF JournalInv, Locking, Settled, NoCall
<1> QED
  BY <1>1, <1>2, NothingPends DEF Visible, Settled

(* The same of the state a step leads to. *)
LEMMA ShowsNextTable ==
  ASSUME JournalInv', NEW c \in Connections, Settled(c)'
  PROVE  Visible(c)' = table'
<1>1. table' \in Rows /\ pending'[c] \in Rows
  BY DEF JournalInv, JournalType
<1>2. DOMAIN pending'[c] = {}
  BY DEF JournalInv, Locking, Settled, NoCall
<1>3. Written(table', pending'[c]) = table'
  BY <1>1, <1>2, NothingPends
<1> QED
  BY <1>3 DEF Visible, Settled

(* What one process is shown, every process finds from then on. *)
THEOREM QueriesStay == Spec => QueriesAreDurable
<1>1. JournalInv /\ JournalInv' /\ Countable' /\ [Next]_vars =>
        [\A c, d \in Connections :
           Settled(c) /\ Settled(d)' =>
             /\ \A matching \in SUBSET TradeIds :
                  \A shown \in query(c, matching) :
                    /\ DOMAIN shown \subseteq DOMAIN Found(d, matching)'
                    /\ \A later \in query(d, matching)' :
                         \A id \in DOMAIN shown \cap DOMAIN later :
                           later[id] = shown[id]
             /\ \A n \in trade_count(c), m \in trade_count(d)' : m = 0 \/ n <= m
             /\ \A answer \in export_parquet(c) :
                  DOMAIN answer.rows \subseteq DOMAIN Found(d, TradeIds)']_vars
  <2> SUFFICES ASSUME JournalInv, JournalInv', Countable', [Next]_vars,
                      NEW c \in Connections, NEW d \in Connections,
                      Settled(c), Settled(d)'
               PROVE  /\ \A matching \in SUBSET TradeIds :
                           \A shown \in query(c, matching) :
                             /\ DOMAIN shown \subseteq DOMAIN Found(d, matching)'
                             /\ \A later \in query(d, matching)' :
                                  \A id \in DOMAIN shown \cap DOMAIN later :
                                    later[id] = shown[id]
                      /\ \A n \in trade_count(c), m \in trade_count(d)' :
                           m = 0 \/ n <= m
                      /\ \A answer \in export_parquet(c) :
                           DOMAIN answer.rows \subseteq DOMAIN Found(d, TradeIds)'
    OBVIOUS
  <2>1. Visible(c) = table /\ Visible(d)' = table'
    BY ShowsTable, ShowsNextTable
  <2>2. \A id \in DOMAIN table : id \in DOMAIN table' /\ table'[id] = table[id]
    BY TableGrows
  <2>3. ASSUME NEW matching \in SUBSET TradeIds, NEW shown \in query(c, matching)
        PROVE  /\ DOMAIN shown \subseteq DOMAIN table \cap matching
               /\ \A id \in DOMAIN shown : shown[id] = table[id]
    BY <2>1, <2>3 DEF query, Found, Restrict
  <2>4. ASSUME NEW matching \in SUBSET TradeIds, NEW later \in query(d, matching)'
        PROVE  \A id \in DOMAIN later : id \in DOMAIN table' /\ later[id] = table'[id]
    BY <2>1, <2>4 DEF query, Found, Restrict
  <2>5. ASSUME NEW matching \in SUBSET TradeIds
        PROVE  DOMAIN Found(d, matching)' = DOMAIN table' \cap matching
    BY <2>1 DEF Found, Restrict
  <2>6. ASSUME NEW matching \in SUBSET TradeIds, NEW shown \in query(c, matching)
        PROVE  /\ DOMAIN shown \subseteq DOMAIN Found(d, matching)'
               /\ \A later \in query(d, matching)' :
                    \A id \in DOMAIN shown \cap DOMAIN later : later[id] = shown[id]
    <3>1. /\ DOMAIN shown \subseteq DOMAIN table \cap matching
          /\ \A id \in DOMAIN shown : shown[id] = table[id]
      BY <2>3, <2>6
    <3>2. DOMAIN shown \subseteq DOMAIN table' \cap matching
      BY <2>2, <3>1
    <3>3. DOMAIN Found(d, matching)' = DOMAIN table' \cap matching
      BY <2>5
    <3>4. ASSUME NEW later \in query(d, matching)', NEW id \in DOMAIN shown \cap DOMAIN later
          PROVE  later[id] = shown[id]
      <4>1. later[id] = table'[id]
        BY <2>4, <3>4
      <4>2. shown[id] = table[id] /\ table'[id] = table[id]
        BY <2>2, <3>1, <3>4
      <4> QED
        BY <4>1, <4>2
    <3> QED
      BY <3>2, <3>3, <3>4
  <2>7. ASSUME NEW n \in trade_count(c), NEW m \in trade_count(d)'
        PROVE  m = 0 \/ n <= m
    <3>1. IsFiniteSet(DOMAIN table') /\ DOMAIN table \subseteq DOMAIN table'
      BY <2>2 DEF Countable
    <3>2. /\ Cardinality(DOMAIN table) <= Cardinality(DOMAIN table')
          /\ Cardinality(DOMAIN table') \in Nat
      BY <3>1, FS_Subset, FS_CardinalityType
    <3>3. n \in {0, Cardinality(DOMAIN table)} /\ m \in {0, Cardinality(DOMAIN table')}
      BY <2>1, <2>7 DEF trade_count
    <3> QED
      BY <3>2, <3>3
  <2>8. ASSUME NEW answer \in export_parquet(c)
        PROVE  DOMAIN answer.rows \subseteq DOMAIN Found(d, TradeIds)'
    <3>1. answer.rows = NoRows \/ answer.rows \in query(c, TradeIds)
      BY <2>8 DEF export_parquet
    <3>2. DOMAIN NoRows = {}
      BY NoRowsAreRows
    <3>3. DOMAIN Found(d, TradeIds)' = DOMAIN table' \cap TradeIds
      BY <2>5
    <3>4. CASE answer.rows = NoRows
      BY <3>2, <3>4
    <3>5. CASE answer.rows \in query(c, TradeIds)
      <4>1. DOMAIN answer.rows \subseteq DOMAIN table \cap TradeIds
        BY <2>3, <3>5
      <4> QED
        BY <2>2, <3>3, <4>1
    <3> QED
      BY <3>1, <3>4, <3>5
  <2> QED
    BY <2>6, <2>7, <2>8
<1>2. Spec => []Countable
  BY CountStarts, CountContinues, JournalInvariant, PTL DEF Spec
<1> QED
  BY <1>1, <1>2, JournalInvariant, PTL DEF Spec, QueriesAreDurable

------------------------------------------------------------------------------
(* Replays *)

Memory == [positions : [Symbols -> PositionDetail], fees : Nat,
           marks : [Symbols -> Fraction]]

ReplayType ==
  /\ file \in Files
  /\ stage \in [Connections -> LoopStages]
  /\ line \in [Connections -> 0 .. Len(file)]
  /\ memory \in [Connections -> Memory]
  /\ missed \in [Connections -> SUBSET TradeIds]
  /\ g_running \in [Connections -> BOOLEAN]
  /\ starts \in 0 .. MaxStarts

(* The lines of a symbol among the first n. *)
SymbolLines(s, n) == {i \in 1 .. n : file[i].trade.symbol = s}

QuantitiesOf(S) == [i \in S |-> SignedQuantity(file[i].trade)]

FeesOf(S) == [i \in S |-> file[i].trade.fees]

(* What the components hold after the first n lines. *)
Booked(mem, n) ==
  /\ \A s \in Symbols :
       /\ mem.positions[s].net_quantity = Total(QuantitiesOf(SymbolLines(s, n)))
       /\ mem.positions[s].trade_count = Cardinality(SymbolLines(s, n))
  /\ mem.fees = Total(FeesOf(1 .. n))

(* Every line that was read is a trade, was booked, and was journaled or   *)
(* missed, but for the one that is about to be logged.                     *)
Passing(p) ==
  /\ \A i \in 1 .. line[p] : file[i] \in Entry
  /\ stage[p] \in {"log", "logging"} => line[p] > 0
  /\ Booked(memory[p], line[p])
  /\ DoneIds(p) \subseteq DOMAIN table \cup missed[p]

(* A replay logs one trade at a time, no batches, and so never sits in a   *)
(* transaction whose COMMIT failed: the call it runs is for its last line. *)
Single(p) ==
  /\ p \notin torn /\ ~call[p].batch
  /\ call[p].at = "insert" => call[p].left = <<file[line[p]].id>>
  /\ call[p].at = "commit" => file[line[p]].id \in DOMAIN pending[p]
  /\ Running(p) => stage[p] = "logging"

ReplayInv ==
  /\ JournalInv /\ ReplayType
  /\ \A p \in Connections : Passing(p) /\ Single(p)

LEMMA FileLines ==
  ASSUME file \in Files
  PROVE  /\ Len(file) \in Nat
         /\ \A i \in 1 .. Len(file) : file[i] # Malformed => file[i] \in Entry
<1>1. file \in Seq(Entry \cup {Malformed})
  BY FilesAssumption
<1>2. Len(file) \in Nat /\ \A i \in 1 .. Len(file) : file[i] \in Entry \cup {Malformed}
  BY <1>1
<1> QED
  BY <1>2

(* A replay takes the steps of its journal, and no others touch one. *)
LEMMA StepsJournal == ReplayInv /\ [ReplayNext]_replayVars => [Next]_vars
<1> SUFFICES ASSUME ReplayInv, ReplayNext PROVE [Next]_vars
  BY DEF replayVars, vars
<1>1. PICK p \in Connections :
        \/ Start(p)
        \/ Proceed(p)
        \/ LoggingFails(p)
        \/ Kill(p)
        \/ signal_handler(p)
  BY DEF ReplayNext
<1>2. CASE LogTrade(p)
  <2>1. /\ stage[p] = "log" /\ line[p] > 0 /\ line[p] \in 0 .. Len(file)
        /\ \A i \in 1 .. line[p] : file[i] \in Entry
        /\ Len(file) \in Nat
    BY <1>2, FileLines DEF LogTrade, ReplayInv, ReplayType, Passing
  <2>2. file[line[p]].id \in TradeIds
    BY <2>1 DEF Entry
  <2> QED
    BY <1>2, <2>2 DEF LogTrade, Next
<1>3. CASE Start(p)
  BY <1>3 DEF Start, Next
<1>4. CASE Apply(p) \/ signal_handler(p)
  BY <1>4 DEF Apply, signal_handler
<1>5. CASE Logging(p)
  BY <1>5 DEF Logging, Next
<1>6. CASE LoggingFails(p)
  BY <1>6 DEF LoggingFails, Next
<1>7. CASE Finish(p) \/ Throw(p) \/ Kill(p)
  BY <1>7 DEF Finish, Throw, Kill, Next
<1> QED
  BY <1>1, <1>2, <1>3, <1>4, <1>5, <1>6, <1>7 DEF Proceed

(* A process that a step leaves alone. *)
LEMMA LeftAlone ==
  ASSUME NEW q \in Connections, Passing(q), file' = file,
         line'[q] = line[q], memory'[q] = memory[q],
         missed[q] \subseteq missed'[q],
         DOMAIN table \subseteq DOMAIN table',
         stage'[q] = stage[q]
           \/ (stage[q] \notin {"log", "logging"} /\ stage'[q] \notin {"log", "logging"})
           \/ (stage[q] = "log" /\ stage'[q] = "logging")
  PROVE  Passing(q)'
<1>1. DoneLines(q)' = DoneLines(q)
  BY DEF DoneLines
<1>2. DoneIds(q)' = DoneIds(q)
  BY <1>1 DEF DoneIds
<1>3. Booked(memory[q], line[q])'
  BY DEF Passing, Booked, SymbolLines, QuantitiesOf, FeesOf
<1> QED
  BY <1>2, <1>3 DEF Passing

(* What a step of one connection does to the others, and their replays.    *)
JournalStep(p) ==
  \/ Open(p) \/ Close(p) \/ Crash(p)
  \/ \E id \in TradeIds : log_trade(p, id)
  \/ Step(p) \/ CommitFails(p)
  \/ UNCHANGED vars

LEMMA OthersKeep ==
  ASSUME JournalInv, NEW p \in Connections, JournalStep(p),
         NEW q \in Connections, q # p
  PROVE  /\ call'[q] = call[q] /\ pending'[q] = pending[q]
         /\ q \in torn' <=> q \in torn
<1>1. /\ call \in [Connections -> Call] /\ pending \in [Connections -> Rows]
      /\ torn \subseteq Connections
  BY DEF JournalInv, JournalType
<1>2. CASE Open(p) \/ UNCHANGED vars
  BY <1>2 DEF Open, vars
<1>3. CASE Close(p) \/ Crash(p)
  BY <1>1, <1>3 DEF Close, Crash, Abandoned
<1>4. CASE \E id \in TradeIds : log_trade(p, id)
  BY <1>1, <1>4 DEF log_trade, Started
<1>5. CASE Insert(p)
  BY <1>1, <1>5 DEF Insert
<1>6. CASE InsertFails(p) \/ StaysPending(p)
  BY <1>1, <1>6 DEF InsertFails, StaysPending, Return
<1>7. CASE Rollback(p) \/ Commit(p) \/ CommitFails(p)
  BY <1>1, <1>7 DEF Rollback, Commit, CommitFails, EndTransaction, Return
<1> QED
  BY <1>2, <1>3, <1>4, <1>5, <1>6, <1>7 DEF JournalStep, Step

LEMMA SingleKept ==
  ASSUME NEW q \in Connections, Single(q), file' = file, line'[q] = line[q],
         stage'[q] = stage[q], call'[q] = call[q], pending'[q] = pending[q],
         q \in torn' <=> q \in torn
  PROVE  Single(q)'
<1> QED
  BY DEF Single, Running

(* Between two calls, and in a replay that is down or starts anew.         *)
LEMMA SingleIdle ==
  ASSUME NEW q \in Connections, q \notin torn', call'[q] = NoCall
  PROVE  Single(q)'
<1> QED
  BY DEF Single, Running, NoCall

LEMMA SumBecomes ==
  ASSUME NEW S, IsFiniteSet(S), NEW x, x \notin S,
         NEW f, NEW g, DOMAIN f = S, DOMAIN g = S \cup {x},
         \A y \in S : f[y] \in Int /\ g[y] = f[y], g[x] \in Int
  PROVE  Total(g) = Total(f) + g[x]
<1> DEFINE T == S \cup {x}
<1>1. IsFiniteSet(T) /\ x \in T /\ T \ {x} = S
  BY FS_AddElement
<1>2. \A y \in T : g[y] \in Int
  OBVIOUS
<1>3. SumOver(g, T) = g[x] + SumOver(g, S)
  <2> HIDE DEF T
  <2>1. \A y \in T : SumOver(g, T) = g[y] + SumOver(g, T \ {y})
    BY <1>1, <1>2, SumWithout
  <2> QED
    BY <1>1, <2>1
<1>4. SumOver(g, S) = SumOver(f, S) /\ SumOver(f, S) \in Int
  BY SumOfSame, SumIsInteger
<1> QED
  BY <1>3, <1>4, TotalIsSum

LEMMA LinesFinite ==
  \A n \in Nat : /\ IsFiniteSet(1 .. n)
                 /\ \A s : IsFiniteSet(SymbolLines(s, n)) /\ SymbolLines(s, n) \subseteq 1 .. n
<1> SUFFICES ASSUME NEW n \in Nat, NEW s
             PROVE  IsFiniteSet(1 .. n) /\ IsFiniteSet(SymbolLines(s, n))
                      /\ SymbolLines(s, n) \subseteq 1 .. n
  OBVIOUS
<1>1. IsFiniteSet(1 .. n)
  BY FS_Interval
<1> QED
  BY <1>1, FS_Subset DEF SymbolLines

LEMMA AppliedOf ==
  ASSUME NEW mem \in Memory, NEW trade \in Trade, NEW pos \in PositionDetail
  PROVE  /\ Applied(mem, trade, pos) \in Memory
         /\ Applied(mem, trade, pos).positions = [mem.positions EXCEPT ![trade.symbol] = pos]
         /\ Applied(mem, trade, pos).fees = mem.fees + trade.fees
<1> DEFINE mark == Times(pos.net_quantity, Minus(Whole(trade.price), pos.avg_entry_price))
<1>1. mark \in Fraction
  <2>1. /\ pos.net_quantity \in Int /\ pos.avg_entry_price \in Fraction
        /\ trade.price \in Int
    BY SignedQuantityType DEF PositionDetail
  <2> QED
    BY <2>1, WholeType, MinusType, TimesType
<1> HIDE DEF mark
<1>2. Applied(mem, trade, pos)
        = [positions |-> [mem.positions EXCEPT ![trade.symbol] = pos],
           fees |-> mem.fees + trade.fees,
           marks |-> [mem.marks EXCEPT ![trade.symbol] = mark]]
  BY DEF Applied, mark
<1>3. trade.symbol \in Symbols /\ trade.fees \in Nat
  BY SignedQuantityType
<1>4. /\ mem.positions \in [Symbols -> PositionDetail] /\ mem.fees \in Nat
      /\ mem.marks \in [Symbols -> Fraction]
  BY DEF Memory
<1>5. /\ [mem.positions EXCEPT ![trade.symbol] = pos] \in [Symbols -> PositionDetail]
      /\ [mem.marks EXCEPT ![trade.symbol] = mark] \in [Symbols -> Fraction]
      /\ mem.fees + trade.fees \in Nat
  BY <1>1, <1>3, <1>4
<1> QED
  BY <1>2, <1>5 DEF Memory

(* A trade is booked next to those before it. *)
LEMMA BooksLine ==
  ASSUME NEW mem \in Memory, NEW n \in Nat,
         \A i \in 1 .. n + 1 : file[i] \in Entry, Booked(mem, n)
  PROVE  LET trade == file[n + 1].trade
             after == Applied(mem, trade,
                              PositionAfter(mem.positions[trade.symbol], trade))
         IN after \in Memory /\ Booked(after, n + 1)
<1> DEFINE trade == file[n + 1].trade
           s == trade.symbol
           pos == mem.positions[s]
           next == PositionAfter(pos, trade)
           after == Applied(mem, trade, next)
<1>1. /\ trade \in Trade
      /\ \A i \in 1 .. n + 1 : file[i].trade \in Trade
      /\ n + 1 \in 1 .. n + 1 /\ n + 1 \notin 1 .. n
      /\ 1 .. n + 1 = 1 .. n \cup {n + 1}
  BY DEF Entry
<1>2. /\ s \in Symbols /\ trade.fees \in Nat /\ trade.price \in Int
      /\ SignedQuantity(trade) \in Int
      /\ \A i \in 1 .. n + 1 : /\ SignedQuantity(file[i].trade) \in Int
                               /\ file[i].trade.fees \in Nat
  BY <1>1, SignedQuantityType
<1>3. /\ mem.positions \in [Symbols -> PositionDetail] /\ mem.fees \in Nat
      /\ mem.marks \in [Symbols -> Fraction]
  BY DEF Memory
<1>4. pos \in PositionDetail /\ next \in PositionDetail
  <2>1. pos \in PositionDetail
    BY <1>2, <1>3
  <2> HIDE DEF pos, trade
  <2> QED
    BY <1>1, <2>1, PositionAfterType
<1>5. /\ next.net_quantity = pos.net_quantity + SignedQuantity(trade)
      /\ next.trade_count = pos.trade_count + 1
  <2> HIDE DEF trade
  <2> QED
    BY <1>4 DEF PositionAfter, PositionDetail
<1>6. /\ after \in Memory
      /\ after.positions = [mem.positions EXCEPT ![s] = next]
      /\ after.fees = mem.fees + trade.fees
  <2> HIDE DEF next, trade, pos, after
  <2> QED
    BY <1>1, <1>4, AppliedOf DEF after, s
<1>7. IsFiniteSet(1 .. n) /\ \A t : IsFiniteSet(SymbolLines(t, n))
                               /\ SymbolLines(t, n) \subseteq 1 .. n
  BY LinesFinite
<1>8. \A t \in Symbols \ {s} : SymbolLines(t, n + 1) = SymbolLines(t, n)
  BY <1>1 DEF SymbolLines
<1>9. SymbolLines(s, n + 1) = SymbolLines(s, n) \cup {n + 1}
  BY <1>1 DEF SymbolLines
<1> HIDE DEF after, next, pos, s, trade
<1>10. Total(QuantitiesOf(SymbolLines(s, n + 1)))
         = Total(QuantitiesOf(SymbolLines(s, n))) + SignedQuantity(trade)
  <2> DEFINE S == SymbolLines(s, n)
             f == QuantitiesOf(S)
             g == QuantitiesOf(S \cup {n + 1})
  <2>1. /\ DOMAIN f = S /\ DOMAIN g = S \cup {n + 1}
        /\ \A y \in S : f[y] \in Int /\ g[y] = f[y]
        /\ g[n + 1] = SignedQuantity(trade)
    BY <1>1, <1>2, <1>7 DEF QuantitiesOf, trade
  <2>2. IsFiniteSet(S) /\ n + 1 \notin S
    BY <1>1, <1>7
  <2> HIDE DEF S, f, g
  <2>3. Total(g) = Total(f) + g[n + 1]
    <3> DEFINE x == n + 1
    <3>1. g[x] \in Int /\ x \notin S /\ DOMAIN g = S \cup {x}
      BY <1>2, <2>1, <2>2
    <3> HIDE DEF x
    <3>2. Total(g) = Total(f) + g[x]
      BY <2>1, <2>2, <3>1, SumBecomes
    <3> QED
      BY <3>2 DEF x
  <2> QED
    BY <1>9, <2>1, <2>3 DEF S, f, g
<1>11. Cardinality(SymbolLines(s, n + 1)) = Cardinality(SymbolLines(s, n)) + 1
  BY <1>1, <1>7, <1>9, FS_AddElement
<1>12. Total(FeesOf(1 .. n + 1)) = Total(FeesOf(1 .. n)) + trade.fees
  <2> DEFINE S == 1 .. n
             f == FeesOf(S)
             g == FeesOf(S \cup {n + 1})
  <2>1. /\ DOMAIN f = S /\ DOMAIN g = S \cup {n + 1}
        /\ \A y \in S : f[y] \in Int /\ g[y] = f[y]
    BY <1>1, <1>2 DEF FeesOf
  <2>4. g[n + 1] = trade.fees
    BY <1>1 DEF FeesOf, trade
  <2>2. IsFiniteSet(S) /\ n + 1 \notin S
    BY <1>1, <1>7
  <2> HIDE DEF S, f, g
  <2>3. Total(g) = Total(f) + g[n + 1]
    <3> DEFINE x == n + 1
    <3>1. g[x] \in Int /\ x \notin S /\ DOMAIN g = S \cup {x}
      BY <1>2, <2>1, <2>2, <2>4
    <3> HIDE DEF x
    <3>2. Total(g) = Total(f) + g[x]
      BY <2>1, <2>2, <3>1, SumBecomes
    <3> QED
      BY <3>2 DEF x
  <2> QED
    BY <1>1, <2>3, <2>4 DEF S, f, g
<1>13. Booked(after, n + 1)
  <2>1. ASSUME NEW t \in Symbols
        PROVE  /\ after.positions[t].net_quantity
                     = Total(QuantitiesOf(SymbolLines(t, n + 1)))
               /\ after.positions[t].trade_count = Cardinality(SymbolLines(t, n + 1))
    <3>1. CASE t = s
      BY <1>2, <1>3, <1>5, <1>6, <1>10, <1>11, <3>1 DEF Booked, pos
    <3>2. CASE t # s
      BY <1>3, <1>6, <1>8, <3>2 DEF Booked
    <3> QED
      BY <3>1, <3>2
  <2>2. after.fees = Total(FeesOf(1 .. n + 1))
    BY <1>6, <1>12 DEF Booked
  <2> QED
    BY <2>1, <2>2 DEF Booked
<1> QED
  BY <1>6, <1>13 DEF after, next, pos, s, trade

LEMMA NothingBooked == NoMemory \in Memory /\ Booked(NoMemory, 0)
<1>1. EmptyPosition \in PositionDetail
  BY ZeroType DEF EmptyPosition, PositionDetail
<1>2. NoPositions \in [Symbols -> PositionDetail] /\ [s \in Symbols |-> Zero] \in [Symbols -> Fraction]
  BY <1>1, ZeroType DEF NoPositions
<1>3. NoMemory \in Memory
  BY <1>2 DEF NoMemory, Memory
<1>4. 1 .. 0 = {} /\ \A s : SymbolLines(s, 0) = {}
  BY DEF SymbolLines
<1>5. \A f : DOMAIN f = {} => Total(f) = 0
  BY TotalIsSum, SumOfNothing
<1>6. Total(QuantitiesOf({})) = 0 /\ Total(FeesOf({})) = 0
  BY <1>5 DEF QuantitiesOf, FeesOf
<1>7. \A s \in Symbols : NoMemory.positions[s].net_quantity = 0
                       /\ NoMemory.positions[s].trade_count = 0
  BY DEF NoMemory, NoPositions, EmptyPosition
<1>8. NoMemory.fees = 0
  BY DEF NoMemory
<1>9. Booked(NoMemory, 0)
  BY <1>4, <1>6, <1>7, <1>8, FS_EmptySet DEF Booked
<1> QED
  BY <1>3, <1>9

LEMMA NothingDone ==
  ASSUME NEW p \in Connections, line[p] = 0, stage[p] = "down", memory[p] = NoMemory
  PROVE  Passing(p)
<1>1. DoneIds(p) = {} /\ 1 .. line[p] = {}
  BY DEF DoneIds, DoneLines
<1> QED
  BY <1>1, NothingBooked DEF Passing

LEMMA ReplayStarts == ReplayInit => ReplayInv
<1> SUFFICES ASSUME ReplayInit PROVE ReplayInv
  OBVIOUS
<1>1. JournalInv
  BY Opened DEF ReplayInit
<1>2. ReplayType
  <2>1. 0 \in 0 .. Len(file) /\ 0 \in 0 .. MaxStarts /\ "down" \in LoopStages
    BY FileLines, MaxStartsAssumption DEF ReplayInit, LoopStages
  <2> QED
    BY <2>1, NothingBooked DEF ReplayInit, ReplayType
<1>3. \A p \in Connections : Passing(p) /\ Single(p)
  BY NothingDone DEF ReplayInit, Init, Single, Running, NoCall
<1> QED
  BY <1>1, <1>2, <1>3 DEF ReplayInv

(* A step of one process. *)
LEMMA OneProcess ==
  ASSUME ReplayInv, [ReplayNext]_replayVars, NEW p \in Connections,
         JournalStep(p), UNCHANGED file,
         \A q \in Connections \ {p} :
           /\ stage'[q] = stage[q] /\ line'[q] = line[q]
           /\ memory'[q] = memory[q] /\ missed'[q] = missed[q],
         Passing(p)', Single(p)', ReplayType'
  PROVE  ReplayInv'
<1>1. [Next]_vars
  BY StepsJournal
<1>2. JournalInv' /\ DOMAIN table \subseteq DOMAIN table'
  BY <1>1, Continuation, TableGrows DEF ReplayInv
<1>3. ASSUME NEW q \in Connections, q # p PROVE Passing(q)' /\ Single(q)'
  <2>1. Passing(q)'
    BY <1>2, <1>3, LeftAlone DEF ReplayInv
  <2>2. /\ call'[q] = call[q] /\ pending'[q] = pending[q]
        /\ q \in torn' <=> q \in torn
    BY <1>3, OthersKeep DEF ReplayInv
  <2> QED
    BY <1>3, <2>1, <2>2, SingleKept DEF ReplayInv
<1> QED
  BY <1>2, <1>3 DEF ReplayInv

LEMMA Applies ==
  ASSUME ReplayInv, [ReplayNext]_replayVars, NEW p \in Connections, Apply(p)
  PROVE  ReplayInv'
<1> DEFINE n == line[p]
           trade == file[n + 1].trade
           after == Applied(memory[p], trade,
                            PositionAfter(memory[p].positions[trade.symbol], trade))
<1>1. /\ file \in Files /\ Len(file) \in Nat /\ n \in Nat /\ n < Len(file)
      /\ memory[p] \in Memory /\ stage[p] = "loop"
      /\ file[n + 1] # Malformed
      /\ \A i \in 1 .. n : file[i] \in Entry
      /\ Booked(memory[p], n) /\ DoneIds(p) \subseteq DOMAIN table \cup missed[p]
  BY FileLines DEF ReplayInv, ReplayType, Passing, Apply, Reads
<1>2. n + 1 \in 1 .. Len(file) /\ \A i \in 1 .. n + 1 : i = n + 1 \/ i \in 1 .. n
  BY <1>1
<1>3. \A i \in 1 .. n + 1 : file[i] \in Entry
  BY <1>1, <1>2, FileLines
<1>4. after \in Memory /\ Booked(after, n + 1)
  <2> HIDE DEF n
  <2> QED
    BY <1>1, <1>3, BooksLine
<1>5. /\ memory' = [memory EXCEPT ![p] = after]
      /\ line' = [line EXCEPT ![p] = n + 1]
      /\ stage' = [stage EXCEPT ![p] = "log"]
      /\ UNCHANGED <<file, missed, g_running, starts, table>>
  BY DEF Apply, GoesTo, vars
<1> HIDE DEF after, trade
<1>6. ReplayType'
  BY <1>1, <1>2, <1>4, <1>5 DEF ReplayInv, ReplayType, LoopStages
<1>7. memory'[p] = after /\ line'[p] = n + 1 /\ stage'[p] = "log"
  BY <1>5 DEF ReplayInv, ReplayType
<1>8. DoneIds(p)' = DoneIds(p)
  <2>1. 1 .. n + 1 - 1 = 1 .. n
    BY <1>1
  <2> QED
    BY <1>1, <1>5, <1>7, <2>1 DEF DoneIds, DoneLines
<1>9. Booked(memory[p], line[p])'
  BY <1>4, <1>5, <1>7 DEF Booked, SymbolLines, QuantitiesOf, FeesOf
<1>10. Passing(p)'
  BY <1>1, <1>3, <1>5, <1>7, <1>8, <1>9 DEF Passing
<1>11. UNCHANGED vars /\ JournalStep(p)
  BY DEF Apply, JournalStep
<1>12. Single(p)'
  <2>1. call[p] = NoCall /\ p \notin torn
    BY <1>1 DEF ReplayInv, Single, Running
  <2> QED
    BY <1>11, <2>1, SingleIdle DEF vars
<1> QED
  BY <1>5, <1>6, <1>10, <1>11, <1>12, OneProcess DEF ReplayInv, ReplayType

LEMMA StartsReplay ==
  ASSUME ReplayInv, [ReplayNext]_replayVars, NEW p \in Connections,
         Start(p) \/ LogTrade(p) \/ signal_handler(p)
  PROVE  ReplayInv'
<1>1. /\ stage'[p] = stage[p]
           \/ (stage[p] \notin {"log", "logging"} /\ stage'[p] \notin {"log", "logging"})
           \/ (stage[p] = "log" /\ stage'[p] = "logging")
      /\ \A q \in Connections \ {p} : stage'[q] = stage[q]
      /\ stage' \in [Connections -> LoopStages]
      /\ UNCHANGED <<file, line, memory, missed>>
      /\ g_running' \in [Connections -> BOOLEAN]
      /\ starts' \in 0 .. MaxStarts
  <2>1. CASE Start(p)
    BY <2>1, MaxStartsAssumption DEF Start, GoesTo, ReplayInv, ReplayType, LoopStages
  <2>2. CASE LogTrade(p)
    BY <2>2 DEF LogTrade, GoesTo, ReplayInv, ReplayType, LoopStages
  <2>3. CASE signal_handler(p)
    BY <2>3 DEF signal_handler, ReplayInv, ReplayType
  <2> QED
    BY <2>1, <2>2, <2>3
<1>2. DOMAIN table \subseteq DOMAIN table'
  BY StepsJournal, TableGrows DEF ReplayInv
<1>3. ReplayType'
  BY <1>1 DEF ReplayInv, ReplayType
<1>4. Passing(p)'
  BY <1>1, <1>2, LeftAlone DEF ReplayInv
<1>5. JournalStep(p) /\ Single(p)'
  <2>1. Single(p) /\ call \in [Connections -> Call] /\ stage \in [Connections -> LoopStages]
    BY DEF ReplayInv, ReplayType, JournalInv, JournalType
  <2>2. CASE Start(p)
    <3>1. stage[p] = "down" /\ Open(p)
      BY <2>2 DEF Start
    <3>2. call[p] = NoCall /\ p \notin torn
      BY <2>1, <3>1 DEF Single, Running
    <3>3. UNCHANGED <<call, torn>>
      BY <3>1 DEF Open
    <3> QED
      BY <3>1, <3>2, <3>3, SingleIdle DEF JournalStep
  <2>3. CASE LogTrade(p)
    <3> DEFINE id == file[line[p]].id
    <3>1. /\ Started(p, <<id>>, FALSE, "insert") /\ UNCHANGED <<file, line, torn>>
          /\ stage' = [stage EXCEPT ![p] = "logging"] /\ log_trade(p, id)
          /\ stage[p] = "log"
      BY <2>3 DEF LogTrade, log_trade, GoesTo
    <3>2. id \in TradeIds
      <4>1. /\ line[p] > 0 /\ line[p] \in 0 .. Len(file) /\ Len(file) \in Nat
            /\ \A i \in 1 .. line[p] : file[i] \in Entry
        BY <3>1, FileLines DEF ReplayInv, ReplayType, Passing
      <4> QED
        BY <4>1 DEF Entry
    <3>3. /\ call'[p].batch = FALSE /\ call'[p].at = "insert" /\ call'[p].left = <<id>>
          /\ stage'[p] = "logging"
      BY <2>1, <3>1 DEF Started
    <3>4. Single(p)'
      <4> HIDE DEF id
      <4>1. file'[line'[p]].id = id
        BY <3>1 DEF id
      <4> QED
        BY <2>1, <3>1, <3>3, <4>1 DEF Single, Running
    <3> QED
      BY <3>1, <3>2, <3>4 DEF JournalStep
  <2>4. CASE signal_handler(p)
    <3>1. UNCHANGED <<vars, file, stage, line>>
      BY <2>4 DEF signal_handler
    <3> QED
      BY <2>1, <3>1, SingleKept DEF JournalStep, vars
  <2> QED
    BY <2>2, <2>3, <2>4
<1> QED
  BY <1>1, <1>3, <1>4, <1>5, OneProcess

(* The one call of a replay inserts, commits and returns; if the trade is  *)
(* then not in the journal there is an excuse.                             *)
LEMMA LogsOne ==
  ASSUME ReplayInv, NEW p \in Connections, Logging(p) \/ LoggingFails(p)
  PROVE  /\ Single(p)'
         /\ \E excused \in BOOLEAN :
              /\ Resumes(p, excused)
              /\ call'[p] = NoCall => excused \/ file[line[p]].id \in DOMAIN table'
<1> DEFINE id == file[line[p]].id
<1>1. /\ Single(p) /\ stage[p] = "logging" /\ JournalInv
      /\ call \in [Connections -> Call] /\ pending \in [Connections -> Rows]
      /\ p \in Connections
  BY DEF ReplayInv, JournalInv, JournalType, Logging, LoggingFails
<1>2. /\ p \notin torn /\ ~call[p].batch
      /\ call[p].at = "insert" => call[p].left = <<id>>
      /\ call[p].at = "commit" => id \in DOMAIN pending[p]
  BY <1>1 DEF Single
<1>3. ~explicit[p] /\ call[p].at # "rollback"
  BY <1>1, <1>2 DEF JournalInv, Locking, Stages
<1>4. call[p].at = "insert" => DOMAIN pending[p] = {}
  BY <1>1, <1>2 DEF JournalInv, Locking
<1>5. \A excused \in BOOLEAN : Resumes(p, excused) => UNCHANGED <<file, line>>
  BY DEF Resumes
<1> HIDE DEF id
<1>6. CASE Logging(p) /\ Insert(p)
  <2>1. /\ call' = [call EXCEPT ![p].left = Tail(@),
                               ![p].at = IF Len(call[p].left) = 1
                                           THEN "commit" ELSE "insert"]
        /\ pending' = [pending EXCEPT
                         ![p] = Written(@, [k \in {Head(call[p].left)} |-> call[p].number])]
        /\ call[p].at = "insert" /\ torn' = torn
    BY <1>6 DEF Insert
  <2>2. Head(call[p].left) = id /\ Len(call[p].left) = 1
    <3>1. call[p].left = <<id>>
      BY <1>2, <2>1
    <3>2. Head(<<id>>) = id /\ Len(<<id>>) = 1
      OBVIOUS
    <3> QED
      BY <3>1, <3>2
  <2>3. call'[p].at = "commit" /\ call'[p].batch = call[p].batch /\ call'[p] # NoCall
    BY <1>1, <2>1, <2>2 DEF Call, NoCall
  <2>4. id \in DOMAIN pending'[p]
    BY <1>1, <2>1, <2>2 DEF Written
  <2>5. Resumes(p, Locked(p)) /\ Locked(p) \in BOOLEAN
    BY <1>6 DEF Logging, Locked
  <2>6. /\ file'[line'[p]].id = id /\ stage'[p] = "logging"
    <3>1. UNCHANGED <<file, line, stage>>
      BY <2>3, <2>5 DEF Resumes
    <3> QED
      BY <1>1, <3>1 DEF id
  <2>7. Single(p)'
    BY <1>2, <2>1, <2>3, <2>4, <2>6 DEF Single
  <2> QED
    BY <2>3, <2>5, <2>7
<1>7. CASE Logging(p) /\ InsertFails(p)
  <2>1. /\ call[p].at = "insert" /\ Refused(p) /\ Return(p, "refused")
        /\ UNCHANGED <<table, torn>>
    BY <1>2, <1>7 DEF InsertFails
  <2>2. Head(call[p].left) = id
    BY <1>2, <2>1
  <2>3. Locked(p) \/ id \in DOMAIN table'
    BY <1>4, <2>1, <2>2 DEF Refused, MayInsert, Locked
  <2>4. call'[p] = NoCall
    BY <1>1, <2>1 DEF Return
  <2>5. Resumes(p, Locked(p)) /\ Locked(p) \in BOOLEAN
    BY <1>7 DEF Logging, Locked
  <2>6. Single(p)'
    BY <1>2, <2>1, <2>4, SingleIdle
  <2> QED
    BY <2>3, <2>5, <2>6 DEF id
<1>8. CASE Logging(p) /\ Commit(p)
  <2>1. /\ call[p].at = "commit" /\ table' = Written(table, pending[p])
        /\ EndTransaction(p) /\ Return(p, "logged")
    BY <1>8 DEF Commit
  <2>2. id \in DOMAIN table'
    BY <1>2, <2>1 DEF Written
  <2>3. call'[p] = NoCall /\ p \notin torn'
    BY <1>1, <2>1 DEF Return, EndTransaction
  <2>4. Resumes(p, Locked(p)) /\ Locked(p) \in BOOLEAN
    BY <1>8 DEF Logging, Locked
  <2>5. Single(p)'
    BY <2>3, SingleIdle
  <2> QED
    BY <2>2, <2>4, <2>5 DEF id
<1>9. CASE LoggingFails(p)
  <2>1. Resumes(p, TRUE) /\ CommitFails(p)
    BY <1>9 DEF LoggingFails
  <2>2. call'[p] = NoCall /\ p \notin torn'
    BY <1>1, <1>2, <2>1 DEF CommitFails, EndTransaction, Return
  <2>3. Single(p)'
    BY <2>2, SingleIdle
  <2> QED
    BY <2>1, <2>3
<1>10. ~Rollback(p) /\ ~StaysPending(p)
  BY <1>2, <1>3 DEF Rollback, StaysPending, Autocommits
<1> QED
  BY <1>6, <1>7, <1>8, <1>9, <1>10 DEF Logging, Step

(* A call that runs on, or returns: the line is then done with.            *)
LEMMA ResumesReplay ==
  ASSUME ReplayInv, [ReplayNext]_replayVars, NEW p \in Connections,
         Logging(p) \/ LoggingFails(p)
  PROVE  ReplayInv'
<1>a. stage[p] = "logging" /\ JournalStep(p)
  BY DEF Logging, LoggingFails, JournalStep
<1>b. PICK excused \in BOOLEAN :
        /\ Resumes(p, excused)
        /\ call'[p] = NoCall => excused \/ file[line[p]].id \in DOMAIN table'
  BY LogsOne
<1>c. Single(p)'
  BY LogsOne
<1> DEFINE n == line[p]
           id == file[n].id
<1>1. /\ file \in Files /\ Len(file) \in Nat /\ n \in 0 .. Len(file) /\ n > 0
      /\ \A i \in 1 .. n : file[i] \in Entry
      /\ Passing(p)
  BY <1>a, FileLines DEF ReplayInv, ReplayType, Passing
<1>2. id \in TradeIds
  BY <1>1 DEF Entry
<1>3. DOMAIN table \subseteq DOMAIN table'
  BY StepsJournal, TableGrows DEF ReplayInv
<1>4. UNCHANGED <<file, line, memory, g_running, starts>>
  BY <1>b DEF Resumes
<1>5. CASE call'[p] # NoCall
  <2>1. UNCHANGED <<stage, missed>>
    BY <1>b, <1>5 DEF Resumes
  <2>2. ReplayType'
    BY <1>4, <2>1 DEF ReplayInv, ReplayType
  <2>3. Passing(p)'
    BY <1>a, <1>1, <1>3, <1>4, <2>1, LeftAlone
  <2> QED
    BY <1>a, <1>c, <1>4, <2>1, <2>2, <2>3, OneProcess
<1>6. CASE call'[p] = NoCall
  <2> DEFINE vain == IF excused /\ id \notin DOMAIN table'
                       THEN missed[p] \cup {id} ELSE missed[p]
  <2>1. /\ stage' = [stage EXCEPT ![p] = "loop"]
        /\ missed' = [missed EXCEPT ![p] = vain]
    BY <1>b, <1>6 DEF Resumes, GoesTo
  <2>2. vain \in SUBSET TradeIds /\ missed[p] \subseteq vain
        /\ id \in DOMAIN table' \cup vain
    BY <1>b, <1>2, <1>6 DEF ReplayInv, ReplayType
  <2> HIDE DEF vain, id
  <2>3. ReplayType'
    BY <1>4, <2>1, <2>2 DEF ReplayInv, ReplayType, LoopStages
  <2>4. stage'[p] = "loop" /\ missed'[p] = vain
    BY <2>1 DEF ReplayInv, ReplayType
  <2>5. DoneIds(p)' = DoneIds(p) \cup {id}
    <3>1. DoneLines(p) = 1 .. n - 1
      BY <1>a DEF DoneLines
    <3>2. DoneLines(p)' = 1 .. n
      BY <1>4, <2>4 DEF DoneLines
    <3>3. 1 .. n = (1 .. n - 1) \cup {n}
      BY <1>1
    <3> QED
      BY <1>4, <3>1, <3>2, <3>3 DEF DoneIds, id
  <2>6. DoneIds(p)' \subseteq DOMAIN table' \cup missed'[p]
    BY <1>1, <1>3, <2>2, <2>4, <2>5 DEF Passing
  <2>7. Booked(memory[p], line[p])'
    BY <1>1, <1>4 DEF Passing, Booked, SymbolLines, QuantitiesOf, FeesOf
  <2>8. Passing(p)'
    BY <1>1, <1>4, <2>4, <2>6, <2>7 DEF Passing
  <2>9. \A q \in Connections \ {p} : stage'[q] = stage[q] /\ missed'[q] = missed[q]
    BY <2>1 DEF ReplayInv, ReplayType
  <2> QED
    BY <1>a, <1>c, <1>4, <2>3, <2>8, <2>9, OneProcess
<1> QED
  BY <1>5, <1>6

LEMMA ForgetsReplay ==
  ASSUME ReplayInv, [ReplayNext]_replayVars, NEW p \in Connections,
         Forgotten(p), Close(p) \/ Crash(p)
  PROVE  ReplayInv'
<1>1. /\ stage' = [stage EXCEPT ![p] = "down"]
      /\ line' = [line EXCEPT ![p] = 0]
      /\ memory' = [memory EXCEPT ![p] = NoMemory]
      /\ missed' = [missed EXCEPT ![p] = {}]
      /\ g_running' = [g_running EXCEPT ![p] = TRUE]
      /\ UNCHANGED <<file, starts>>
  BY DEF Forgotten, GoesTo
<1>2. 0 \in 0 .. Len(file)
  BY FileLines DEF ReplayInv, ReplayType
<1>3. ReplayType'
  BY <1>1, <1>2, NothingBooked DEF ReplayInv, ReplayType, LoopStages
<1>4. /\ line'[p] = 0 /\ stage'[p] = "down" /\ memory'[p] = NoMemory
      /\ \A q \in Connections \ {p} :
           /\ stage'[q] = stage[q] /\ line'[q] = line[q]
           /\ memory'[q] = memory[q] /\ missed'[q] = missed[q]
  BY <1>1 DEF ReplayInv, ReplayType
<1>5. Passing(p)'
  <2>1. /\ 1 .. line'[p] = {}
        /\ DoneIds(p)' = {}
    BY <1>4 DEF DoneIds, DoneLines
  <2>2. Booked(NoMemory, 0)
    BY NothingBooked
  <2>3. file' = file /\ memory'[p] = NoMemory /\ line'[p] = 0
    BY <1>1, <1>4
  <2>4. Booked(memory[p], line[p])'
    BY <2>2, <2>3 DEF Booked, SymbolLines, QuantitiesOf, FeesOf
  <2> QED
    BY <1>4, <2>1, <2>4 DEF Passing
<1>6. Single(p)'
  <2>1. call \in [Connections -> Call] /\ Abandoned(p)
    BY DEF ReplayInv, JournalInv, JournalType, Close, Crash
  <2>2. call'[p] = NoCall /\ p \notin torn'
    BY <2>1 DEF Abandoned
  <2> QED
    BY <2>2, SingleIdle
<1> QED
  BY <1>1, <1>3, <1>4, <1>5, <1>6, OneProcess DEF JournalStep

LEMMA ReplayContinues == ReplayInv /\ [ReplayNext]_replayVars => ReplayInv'
<1> SUFFICES ASSUME ReplayInv, [ReplayNext]_replayVars PROVE ReplayInv'
  OBVIOUS
<1>1. CASE UNCHANGED replayVars
  <2>1. UNCHANGED <<file, stage, line, memory, missed, g_running, starts, vars>>
    BY <1>1 DEF replayVars, processVars
  <2>2. JournalInv' /\ DOMAIN table \subseteq DOMAIN table'
    BY StepsJournal, Continuation, TableGrows DEF ReplayInv
  <2>3. ReplayType'
    BY <2>1 DEF ReplayInv, ReplayType
  <2>4. \A p \in Connections : Passing(p)' /\ Single(p)'
    BY <2>1, <2>2, LeftAlone, SingleKept DEF ReplayInv, vars
  <2> QED
    BY <2>2, <2>3, <2>4 DEF ReplayInv
<1>2. CASE ReplayNext
  <2>1. PICK p \in Connections :
          \/ Start(p)
          \/ Proceed(p)
          \/ LoggingFails(p)
          \/ Kill(p)
          \/ signal_handler(p)
    BY <1>2 DEF ReplayNext
  <2>2. CASE Start(p) \/ LogTrade(p) \/ signal_handler(p)
    BY <2>2, StartsReplay
  <2>3. CASE Apply(p)
    BY <2>3, Applies
  <2>4. CASE Logging(p) \/ LoggingFails(p)
    BY <2>4, ResumesReplay
  <2>5. CASE Finish(p) \/ Throw(p) \/ Kill(p)
    BY <2>5, ForgetsReplay DEF Finish, Throw, Kill
  <2> QED
    BY <2>1, <2>2, <2>3, <2>4, <2>5 DEF Proceed
<1> QED
  BY <1>1, <1>2

(* The inductive invariant of the replays.  What a memory holds is said of *)
(* the lines its process has read, not of the journal, which grows under   *)
(* it; the journal comes in through the lines that were passed.            *)
THEOREM ReplayInvariant == Replaying => []ReplayInv
<1>1. ReplayInit => ReplayInv
  BY ReplayStarts
<1>2. ReplayInv /\ [ReplayNext]_replayVars => ReplayInv'
  BY ReplayContinues
<1> QED
  BY <1>1, <1>2, PTL DEF Replaying

(* Whatever replays run side by side, crash and start again, a trade that  *)
(* one of them has passed is in the journal, unless its own insert met     *)
(* another's lock, a failed commit or a journal that is not open           *)
(* (run_replay, log_trade).                                                *)
THEOREM PassedStays == Replaying => []PassedIsJournaled
<1>1. ReplayInv => PassedIsJournaled
  <2> SUFFICES ASSUME ReplayInv PROVE PassedIsJournaled
    OBVIOUS
  <2>1. ReplayTypeOK
    BY TypesHold DEF ReplayInv, ReplayType, Memory, ReplayTypeOK
  <2> QED
    BY <2>1 DEF ReplayInv, Passing, PassedIsJournaled
<1> QED
  BY <1>1, ReplayInvariant, PTL

(* The lines a waiting replay has passed, when it missed none of them, are *)
(* all in the journal.                                                     *)
LEMMA AllJournaled ==
  ASSUME ReplayInv, NEW p \in Connections, stage[p] = "loop", missed[p] = {}
  PROVE  /\ \A s \in Symbols : Journaled(p, s) = SymbolLines(s, line[p])
         /\ UNION {Journaled(p, s) : s \in Symbols} = 1 .. line[p]
<1>1. /\ DoneLines(p) = 1 .. line[p]
      /\ \A i \in 1 .. line[p] : file[i] \in Entry /\ file[i].id \in DOMAIN table
  BY DEF ReplayInv, Passing, DoneIds, DoneLines
<1>2. \A i \in 1 .. line[p] : file[i].trade.symbol \in Symbols
  <2>1. \A i \in 1 .. line[p] : file[i].trade \in Trade
    BY <1>1 DEF Entry
  <2> QED
    BY <2>1, SignedQuantityType
<1>3. \A s : Journaled(p, s) = SymbolLines(s, line[p])
  BY <1>1 DEF Journaled, SymbolLines
<1>4. UNION {SymbolLines(s, line[p]) : s \in Symbols} = 1 .. line[p]
  BY <1>2 DEF SymbolLines
<1> QED
  BY <1>3, <1>4

(* A replay that missed nothing holds in memory, for every symbol, the     *)
(* quantity, the number of trades and the fees of the lines it passed, all *)
(* of which are in the journal (run_replay, update_position, record_trade).*)
THEOREM MemoryKept == Replaying => []MemoryMatchesJournal
<1>1. ReplayInv => MemoryMatchesJournal
  <2> SUFFICES ASSUME ReplayInv, NEW p \in Connections, stage[p] = "loop", missed[p] = {}
               PROVE  /\ \A s \in Symbols :
                           /\ memory[p].positions[s].net_quantity =
                                Total([i \in Journaled(p, s) |-> SignedQuantity(file[i].trade)])
                           /\ memory[p].positions[s].trade_count = Cardinality(Journaled(p, s))
                      /\ memory[p].fees =
                           Total([i \in UNION {Journaled(p, s) : s \in Symbols} |->
                                    file[i].trade.fees])
    BY DEF MemoryMatchesJournal
  <2>1. Booked(memory[p], line[p])
    BY DEF ReplayInv, Passing
  <2>2. /\ \A s \in Symbols : Journaled(p, s) = SymbolLines(s, line[p])
        /\ UNION {Journaled(p, s) : s \in Symbols} = 1 .. line[p]
    BY AllJournaled
  <2> HIDE DEF Journaled
  <2> QED
    BY <2>1, <2>2 DEF Booked, QuantitiesOf, FeesOf
<1> QED
  BY <1>1, ReplayInvariant, PTL

(* To its journal a replay is one more connection: what is proved of the   *)
(* journal, that nothing logged is lost and that it implements the log of  *)
(* whole calls, holds while replays run into it, crash and start again.    *)
THEOREM ReplaysKeepJournal == Replaying => Spec /\ KeepsLog
<1>1. ReplayInit => Init
  BY DEF ReplayInit
<1>2. Replaying => [][Next]_vars
  <2>1. ReplayInv /\ [ReplayNext]_replayVars => [Next]_vars
    BY StepsJournal
  <2> QED
    BY <2>1, ReplayInvariant, PTL DEF Replaying
<1>3. Replaying => Spec
  BY <1>1, <1>2, PTL DEF Replaying, Spec
<1> QED
  BY <1>3, JournalKeepsLog, PTL
===============================================================================
