----------------------------- MODULE TradeJournal -----------------------------
(***************************************************************************)
(* The trade journal (src/trade_journal.cpp): connections of several       *)
(* processes to one SQLite database.  A journal object holds its mutex for *)
(* a whole call, so a connection runs one call at a time; but a call is    *)
(* several SQLite calls, between which other connections run and the       *)
(* process may crash.  No busy timeout is set: a connection that finds the *)
(* database locked for writing is refused at once.                         *)
(*                                                                         *)
(* SQLite is modelled by what the journal uses of it: a table keyed by     *)
(* trade_id, one writer at a time, transactions that become visible whole, *)
(* and a COMMIT that may fail and then leaves its transaction open.        *)
(***************************************************************************)
EXTENDS Naturals, FiniteSets, SequencesExt

CONSTANTS
  Connections,   \* one TradeJournal object in one process each
  TradeIds,
  Batches,       \* sequences of trade ids handed to log_trades
  MaxCalls       \* bound: logging calls of all connections

ASSUME BatchesAssumption == Batches \subseteq Seq(TradeIds)

ASSUME MaxCallsAssumption == MaxCalls \in Nat

ASSUME ConnectionsAssumption == "nobody" \notin Connections

VARIABLES
  table,      \* SQLite: the committed rows, each by the call that wrote it
  writer,     \* SQLite: the connection that holds the write lock, if any
  handle,     \* db_ of every connection: "closed", "null" or "open"
  pending,    \* SQLite: rows written in the open transaction of a connection
  explicit,   \* SQLite: whether a connection is inside a BEGIN
  call,       \* the call a connection is executing, if any
  calls,      \* audit: every logging call made, with its outcome so far
  torn        \* audit: connections whose last COMMIT failed unnoticed

vars == <<table, writer, handle, pending, explicit, call, calls, torn>>

Nobody == "nobody"

CallNumbers == 1 .. MaxCalls

NoCall == [number |-> 0, left |-> << >>, batch |-> FALSE, at |-> "idle"]

Outcomes == {"running", "logged", "unsure", "refused", "crashed"}

NoRows == [id \in {} |-> 0]

(* Rows of a transaction written over those of the table; the key check of *)
(* MayInsert leaves no id in both.                                         *)
Written(rows, more) ==
  [id \in DOMAIN rows \cup DOMAIN more |->
     IF id \in DOMAIN more THEN more[id] ELSE rows[id]]

Init ==
  /\ table = NoRows
  /\ writer = Nobody
  /\ handle = [c \in Connections |-> "closed"]
  /\ pending = [c \in Connections |-> NoRows]
  /\ explicit = [c \in Connections |-> FALSE]
  /\ call = [c \in Connections |-> NoCall]
  /\ calls = << >>
  /\ torn = {}

------------------------------------------------------------------------------
(* The constructor: sqlite3_open_v2 may fail, and the object then keeps a  *)
(* null handle.                                                            *)
Open(c) ==
  /\ handle[c] = "closed"
  /\ \E opened \in {"open", "null"} : handle' = [handle EXCEPT ![c] = opened]
  /\ UNCHANGED <<table, writer, pending, explicit, call, calls, torn>>

(* What closing a connection or losing its process does to its transaction.*)
Abandoned(c) ==
  /\ writer' = IF writer = c THEN Nobody ELSE writer
  /\ handle' = [handle EXCEPT ![c] = "closed"]
  /\ pending' = [pending EXCEPT ![c] = NoRows]
  /\ explicit' = [explicit EXCEPT ![c] = FALSE]
  /\ call' = [call EXCEPT ![c] = NoCall]
  /\ torn' = torn \ {c}
  /\ UNCHANGED table

Close(c) ==
  /\ handle[c] # "closed"
  /\ call[c] = NoCall
  /\ Abandoned(c)
  /\ UNCHANGED calls

Crash(c) ==
  /\ call[c] # NoCall
  /\ Abandoned(c)
  /\ calls' = [calls EXCEPT ![call[c].number].outcome = "crashed"]

------------------------------------------------------------------------------
Started(c, ids, batch, at) ==
  /\ handle[c] # "closed"
  /\ call[c] = NoCall
  /\ Len(calls) < MaxCalls
  /\ call' = [call EXCEPT ![c] = [number |-> Len(calls) + 1, left |-> ids,
                                  batch |-> batch, at |-> at]]
  /\ calls' = Append(calls, [ids |-> ToSet(ids), outcome |-> "running"])

log_trade(c, id) ==
  /\ Started(c, <<id>>, FALSE, "insert")
  /\ UNCHANGED <<table, writer, handle, pending, explicit, torn>>

(* BEGIN: its result is ignored.  It fails on a null handle and inside the *)
(* transaction that a failed COMMIT left open, and takes no lock.          *)
log_trades(c, ids) ==
  /\ Started(c, ids, TRUE, IF ids = << >> THEN "commit" ELSE "insert")
  /\ explicit' = [explicit EXCEPT ![c] = handle[c] = "open"]
  /\ UNCHANGED <<table, writer, handle, pending, torn>>

Return(c, outcome) ==
  /\ call' = [call EXCEPT ![c] = NoCall]
  /\ calls' = [calls EXCEPT ![call[c].number].outcome = outcome]

(* Mutant: INSERT OR REPLACE: a committed row is no obstacle. *)
MayInsert_OrReplace(c, id) ==
  /\ handle[c] = "open"
  /\ writer \in {Nobody, c}
  /\ id \notin DOMAIN pending[c]

MayInsert(c, id) ==
  /\ handle[c] = "open"
  /\ writer \in {Nobody, c}
  /\ id \notin DOMAIN table
  /\ id \notin DOMAIN pending[c]

(* insert_trade, up to the commit that ends it outside of a BEGIN. *)
Insert(c) ==
  LET id == Head(call[c].left)
  IN /\ call[c].at = "insert"
     /\ MayInsert(c, id)
     /\ writer' = c
     /\ pending' = [pending EXCEPT ![c] = Written(@, [k \in {id} |-> call[c].number])]
     /\ call' = [call EXCEPT ![c].left = Tail(@),
                             ![c].at = IF Len(call[c].left) = 1
                                         THEN "commit" ELSE "insert"]
     /\ UNCHANGED <<table, handle, explicit, calls, torn>>

(* Mutant: a locked database is waited for. *)
Refused_Waits(c) ==
  /\ ~MayInsert(c, Head(call[c].left))
  /\ writer \in {Nobody, c}

Refused(c) == ~MayInsert(c, Head(call[c].left))

(* Mutant: a batch with a refused trade is committed without it. *)
WhenRefused_CommitsRest == "commit"

(* Where a batch goes on. *)
WhenRefused == "rollback"

(* A duplicate trade_id, a locked database or a null handle. *)
InsertFails(c) ==
  /\ call[c].at = "insert"
  /\ Refused(c)
  /\ IF call[c].batch
       THEN /\ call' = [call EXCEPT ![c].at = WhenRefused]
            /\ UNCHANGED calls
       ELSE Return(c, "refused")
  /\ UNCHANGED <<table, writer, handle, pending, explicit, torn>>

EndTransaction(c) ==
  /\ writer' = IF writer = c THEN Nobody ELSE writer
  /\ pending' = [pending EXCEPT ![c] = NoRows]
  /\ explicit' = [explicit EXCEPT ![c] = FALSE]
  /\ torn' = torn \ {c}

(* Mutant: a refused batch returns without its ROLLBACK. *)
Rollback_Forgotten(c) ==
  /\ call[c].at = "rollback"
  /\ Return(c, "refused")
  /\ UNCHANGED <<table, writer, handle, pending, explicit, torn>>

(* ROLLBACK undoes everything since the transaction was begun. *)
Rollback(c) ==
  /\ call[c].at = "rollback"
  /\ EndTransaction(c)
  /\ Return(c, "refused")
  /\ UNCHANGED <<table, handle>>

(* A single insert inside the transaction that an earlier failed COMMIT    *)
(* left open is not committed by itself.                                   *)
Autocommits(c) == call[c].batch \/ ~explicit[c]

Commit(c) ==
  /\ call[c].at = "commit"
  /\ Autocommits(c)
  /\ table' = Written(table, pending[c])
  /\ EndTransaction(c)
  /\ Return(c, "logged")
  /\ UNCHANGED handle

StaysPending(c) ==
  /\ call[c].at = "commit"
  /\ ~Autocommits(c)
  /\ Return(c, "unsure")
  /\ UNCHANGED <<table, writer, handle, pending, explicit, torn>>

(* COMMIT fails: log_trades ignores its result and returns true, with the  *)
(* transaction undone or, worse, still open.  The commit of a single       *)
(* insert fails its step, which undoes it and is reported.                 *)
CommitFails(c) ==
  /\ call[c].at = "commit"
  /\ Autocommits(c)
  /\ pending[c] # NoRows
  /\ \/ /\ EndTransaction(c)
        /\ Return(c, IF call[c].batch THEN "unsure" ELSE "refused")
     \/ /\ call[c].batch
        /\ torn' = torn \cup {c}
        /\ Return(c, "unsure")
        /\ UNCHANGED <<writer, pending, explicit>>
  /\ UNCHANGED <<table, handle>>

(* A connection reads the committed rows and its own pending ones. *)
Visible(c) == IF handle[c] = "open" THEN Written(table, pending[c]) ELSE NoRows

(* What a read that meets no error returns. *)
Found(c, matching) == Restrict(Visible(c), DOMAIN Visible(c) \cap matching)

(* Every answer a query may give: an error of SQLite ends the rows where   *)
(* it occurs, at the first of them or later, and the caller is not told.   *)
query(c, matching) ==
  {Restrict(Found(c, matching), ids) : ids \in SUBSET DOMAIN Found(c, matching)}

(* An error makes the count zero. *)
trade_count(c) == {0, Cardinality(DOMAIN Visible(c))}

(* A failed prepare or file is reported; a failed step ends the rows.      *)
export_parquet(c) ==
  {[ok |-> FALSE, rows |-> NoRows]}
    \cup {[ok |-> TRUE, rows |-> rows] : rows \in query(c, TradeIds)}

Step(c) == Insert(c) \/ InsertFails(c) \/ Rollback(c) \/ Commit(c) \/ StaysPending(c)

Next ==
  \E c \in Connections :
    \/ Open(c)
    \/ Close(c)
    \/ Crash(c)
    \/ \E id \in TradeIds : log_trade(c, id)
    \/ \E ids \in Batches : log_trades(c, ids)
    \/ Step(c)
    \/ CommitFails(c)

Spec == Init /\ [][Next]_vars

(* A thread inside a call keeps running; nothing in the call waits for     *)
(* another connection.                                                     *)
FairSpec == Spec /\ \A c \in Connections : WF_vars(Step(c))

------------------------------------------------------------------------------
TypeOK ==
  /\ DOMAIN table \subseteq TradeIds
  /\ \A id \in DOMAIN table : table[id] \in CallNumbers
  /\ writer \in Connections \cup {Nobody}
  /\ handle \in [Connections -> {"closed", "null", "open"}]
  /\ \A c \in Connections :
       /\ DOMAIN pending[c] \subseteq TradeIds
       /\ \A id \in DOMAIN pending[c] : pending[c][id] \in CallNumbers
       /\ call[c].number \in 0 .. MaxCalls
       /\ call[c].left \in Seq(TradeIds)
       /\ call[c].batch \in BOOLEAN
       /\ call[c].at \in {"idle", "insert", "rollback", "commit"}
  /\ explicit \in [Connections -> BOOLEAN]
  /\ calls \in Seq([ids : SUBSET TradeIds, outcome : Outcomes])
  /\ torn \subseteq Connections

WrittenBy(n) == {id \in DOMAIN table : table[id] = n}

(* A trade reported as logged is in the journal for good, written by that  *)
(* very call, whatever other processes logged, crashed or rolled back.     *)
(* Where a COMMIT fails, log_trades returns true all the same, and so does *)
(* every log_trade while that transaction stays open: the trades of such a *)
(* call may be lost, and then all of them are.                             *)
LoggedIsDurable ==
  \A n \in DOMAIN calls :
    /\ calls[n].outcome = "logged" => WrittenBy(n) = calls[n].ids
    /\ calls[n].outcome = "unsure" => WrittenBy(n) \in {{}, calls[n].ids}

(* A connection between two calls holds neither the write lock nor an open *)
(* transaction, through every early return of the call before; unless that *)
(* call's COMMIT failed.                                                   *)
IdleHoldsNothing ==
  /\ TypeOK
  /\ \A c \in Connections :
       call[c] = NoCall /\ c \notin torn =>
         writer # c /\ pending[c] = NoRows /\ ~explicit[c]

Log == INSTANCE TradeLog
  WITH log <- table,
       offered <- [n \in DOMAIN calls |-> calls[n].ids],
       refused <- {n \in DOMAIN calls : calls[n].outcome \in {"refused", "crashed"}},
       confirmed <- {n \in DOMAIN calls : calls[n].outcome = "logged"}

(* The journal implements the append-only log of whole calls: no call is   *)
(* half in it, not when it is refused at a duplicate in the middle, not    *)
(* when its process crashes, and not when its rows wait in a transaction   *)
(* that a later call ends; a refused call leaves nothing, and the first    *)
(* trade with an id is the one that stays (README.md:122,125).             *)
KeepsLog == Log!Spec

Settled(c) == call[c] = NoCall /\ handle[c] = "open" /\ c \notin torn

(* What one process is shown, by a query, a count or an export, every      *)
(* process finds from then on, through crashes and rollbacks: nothing is   *)
(* shown that is taken back, and two answers never differ in a trade.  An  *)
(* error cuts an answer short or makes a count zero, so what is bounded by *)
(* an earlier answer is the answer of a read that meets none; and one of   *)
(* the two connections may not sit in a transaction whose COMMIT failed.   *)
QueriesAreDurable ==
  [][\A c, d \in Connections :
       Settled(c) /\ Settled(d)' =>
         /\ \A matching \in SUBSET TradeIds :
              \A shown \in query(c, matching) :
                /\ DOMAIN shown \subseteq DOMAIN Found(d, matching)'
                /\ \A later \in query(d, matching)' :
                     \A id \in DOMAIN shown \cap DOMAIN later : later[id] = shown[id]
         /\ \A n \in trade_count(c), m \in trade_count(d)' : m = 0 \/ n <= m
         /\ \A answer \in export_parquet(c) :
              DOMAIN answer.rows \subseteq DOMAIN Found(d, TradeIds)']_vars

(* Every call returns or dies with its process, although connections       *)
(* compete for the write lock: a refused connection gives up, none waits.  *)
CallsEnd ==
  \A c \in Connections : call[c] # NoCall ~> call[c] = NoCall
=============================================================================
