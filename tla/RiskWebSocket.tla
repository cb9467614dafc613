----------------------------- MODULE RiskWebSocket -----------------------------
(***************************************************************************)
(* The dashboard's WebSocket client (python/risk/dashboard/websocket.py):  *)
(* connect() is a coroutine that opens a connection, waits for messages,   *)
(* each for at most five seconds, and hands every update to the callbacks; *)
(* disconnect() clears one flag, _running, which the loop looks at between *)
(* two messages.  start() runs one connect() in an event loop of its own,  *)
(* and its caller goes on when that has returned.  Every call of connect() *)
(* is a task here, whether start() made it, each in a thread of its own,   *)
(* or an application's event loop; all of them share the flag and the      *)
(* callbacks, and what a task does between two awaits is one step.  A      *)
(* message that does not parse, a callback that raises and a lost          *)
(* connection end the loop and leave the flag set.                         *)
(*                                                                         *)
(* The server, the connection and the event loop are the environment.      *)
(***************************************************************************)
EXTENDS Integers, SequencesExt

CONSTANTS
  Tasks,         \* calls of connect()
  Subscribers,   \* functions that on_update registers, once each
  Malformed,     \* messages that are no JSON object
  MaxMessages    \* bound: messages of the server

ASSUME MessagesAssumption ==
  MaxMessages \in Nat /\ Malformed \subseteq 1 .. MaxMessages

VARIABLES
  running,     \* self._running
  callbacks,   \* self._callbacks
  phase,        \* where a task is in connect()
  read,         \* the last message a task has read off its connection
  published,    \* environment: messages the server has sent to everyone
  heard,        \* audit: the updates a subscriber was called with
  late,         \* audit: updates a task handed over with the flag cleared
  overlapped    \* audit: a task began while another one was in its loop

socketVars == <<running, callbacks, phase, read, published, heard, late, overlapped>>

SocketInit ==
  /\ running = FALSE
  /\ callbacks = << >>
  /\ phase = [c \in Tasks |-> "none"]
  /\ read = [c \in Tasks |-> 0]
  /\ published = 0
  /\ heard = [s \in Subscribers |-> << >>]
  /\ late = [c \in Tasks |-> 0]
  /\ overlapped = FALSE

-----------------------------------------------------------------------------
Goes(c, next) == phase' = [phase EXCEPT ![c] = next]

Open(c) == phase[c] \in {"opening", "checking", "waiting"}

on_update(s) ==
  /\ s \notin ToSet(callbacks)
  /\ callbacks' = Append(callbacks, s)
  /\ UNCHANGED <<running, phase, read, published, heard, late, overlapped>>

\* A thread calls start(), or an application schedules connect(): the event
\* loop gets to the coroutine later.  The caller of start() waits until the
\* task has ended; a disconnect() comes from another thread or a callback.
start(c) ==
  /\ phase[c] = "none"
  /\ Goes(c, "scheduled")
  /\ UNCHANGED <<running, callbacks, read, published, heard, late, overlapped>>

connect(c) ==
  /\ phase[c] = "scheduled"
  /\ Goes(c, "opening")
  /\ running' = TRUE
  /\ late' = [d \in Tasks |-> 0]
  /\ overlapped' = (overlapped \/ \E d \in Tasks : Open(d))
  /\ UNCHANGED <<callbacks, read, published, heard>>

\* The websockets package is not installed.
ImportFails(c) ==
  /\ phase[c] = "scheduled"
  /\ Goes(c, "ended")
  /\ UNCHANGED <<running, callbacks, read, published, heard, late, overlapped>>

\* A connection gets what the server sends from then on.
Connected(c) ==
  /\ phase[c] = "opening"
  /\ Goes(c, "checking")
  /\ read' = [read EXCEPT ![c] = published]
  /\ UNCHANGED <<running, callbacks, published, heard, late, overlapped>>

Refused(c) ==
  /\ phase[c] = "opening"
  /\ Goes(c, "ended")
  /\ UNCHANGED <<running, callbacks, read, published, heard, late, overlapped>>

\* Mutant: the loop is never left.
Continues_Always == TRUE

\* The condition of the loop.
Continues == running

Check(c) ==
  /\ phase[c] = "checking"
  /\ Goes(c, IF Continues THEN "waiting" ELSE "ended")
  /\ UNCHANGED <<running, callbacks, read, published, heard, late, overlapped>>

Readable(c) == phase[c] = "waiting" /\ read[c] < published

\* Mutant: the message stays on the connection.
Taken_Peeks(c) == read

\* recv() takes one message off the connection.
Taken(c) == [read EXCEPT ![c] = @ + 1]

\* Mutant: the callbacks are called from the last to the first.
Called_Backwards(n) ==
  {callbacks[i] : i \in Len(callbacks) - n + 1 .. Len(callbacks)}

\* The callbacks that are called when n are.
Called(n) == {callbacks[i] : i \in 1 .. n}

\* One call after the other: all of them return, or one raises.
Deliver(c) ==
  LET message == read[c] + 1
      Hear(n) == heard' = [s \in Subscribers |->
                   IF s \in Called(n) THEN Append(heard[s], message) ELSE heard[s]]
  IN /\ Readable(c) /\ message \notin Malformed
     /\ \/ Hear(Len(callbacks)) /\ Goes(c, "checking")
        \/ \E n \in 1 .. Len(callbacks) : Hear(n) /\ Goes(c, "ended")
     /\ read' = Taken(c)
     /\ late' = IF running THEN late ELSE [late EXCEPT ![c] = @ + 1]
     /\ UNCHANGED <<running, callbacks, published, overlapped>>

Unreadable(c) ==
  /\ Readable(c) /\ read[c] + 1 \in Malformed
  /\ read' = Taken(c)
  /\ Goes(c, "ended")
  /\ UNCHANGED <<running, callbacks, published, heard, late, overlapped>>

\* Mutant: recv() is waited for without a timeout.
Timeout_Never(c) == FALSE /\ UNCHANGED socketVars

\* Five seconds without a message.
Timeout(c) ==
  /\ phase[c] = "waiting" /\ read[c] = published
  /\ Goes(c, "checking")
  /\ UNCHANGED <<running, callbacks, read, published, heard, late, overlapped>>

Lost(c) ==
  /\ phase[c] = "waiting"
  /\ Goes(c, "ended")
  /\ UNCHANGED <<running, callbacks, read, published, heard, late, overlapped>>

disconnect ==
  /\ running' = FALSE
  /\ UNCHANGED <<callbacks, phase, read, published, heard, late, overlapped>>

Publish ==
  /\ published < MaxMessages
  /\ published' = published + 1
  /\ UNCHANGED <<running, callbacks, phase, read, heard, late, overlapped>>

SocketStep(c) ==
  \/ connect(c) \/ ImportFails(c)
  \/ Connected(c) \/ Refused(c)
  \/ Check(c) \/ Deliver(c) \/ Unreadable(c) \/ Timeout(c)

SocketNext ==
  \/ \E s \in Subscribers : on_update(s)
  \/ \E c \in Tasks : start(c) \/ SocketStep(c) \/ Lost(c)
  \/ disconnect
  \/ Publish

SocketSpec == SocketInit /\ [][SocketNext]_socketVars

\* The event loop runs every task that can go on: a connection is opened or
\* refused, a message that is there is read, and wait_for gives up in time.
FairSocket == SocketSpec /\ \A c \in Tasks : WF_socketVars(SocketStep(c))

-----------------------------------------------------------------------------
(* Properties *)

\* Every variable has its type, and the flag is clear until a task begins.
SocketTypeOK ==
  /\ running \in BOOLEAN /\ overlapped \in BOOLEAN
  /\ callbacks \in Seq(Subscribers) /\ IsInjective(callbacks)
  /\ phase \in [Tasks -> {"none", "scheduled", "opening", "checking", "waiting",
                          "ended"}]
  /\ published \in 0 .. MaxMessages
  /\ read \in [Tasks -> 0 .. published]
  /\ heard \in [Subscribers -> Seq(1 .. MaxMessages)]
  /\ late \in [Tasks -> Nat]

Increases(messages) ==
  \A i, j \in DOMAIN messages : i < j => messages[i] < messages[j]

\* As long as no task begins before the last one has left its loop, every
\* subscriber gets an update at most once and in the order of the server,
\* through timeouts, broken connections and new ones.  Two tasks at once each
\* hand over every update: disconnect() followed by connect() sets the flag
\* again before the old task has looked at it (connect).
HeardOnceInOrder ==
  ~overlapped => \A s \in Subscribers : Increases(heard[s])

\* A subscriber that registered earlier has been given all that a later one
\* has: a callback that raises keeps an update from those behind it only
\* (connect, on_update).
EarlierHearsMore ==
  \A i, j \in DOMAIN callbacks :
    i < j => ToSet(heard[callbacks[j]]) \subseteq ToSet(heard[callbacks[i]])

\* After disconnect() a task hands over one more update at most, the one it
\* was waiting for, until someone connects again (connect, disconnect).
OneMoreUpdate ==
  /\ SocketTypeOK
  /\ \A c \in Tasks : late[c] <= 1

\* A task that is in its loop, or about to be, when the flag is cleared leaves
\* it, even if the server falls silent, unless a connect() sets the flag again
\* (connect, disconnect).
DisconnectEnds ==
  \A c \in Tasks : (~running /\ Open(c)) ~> (phase[c] = "ended" \/ running)
=============================================================================
