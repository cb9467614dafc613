------------------------------- MODULE Account -------------------------------
(***************************************************************************)
(* What a profit-and-loss calculator promises, without how it keeps its    *)
(* figures: an account books profits and fees, marks its positions, and    *)
(* remembers where it stood when the day began.  Starting a day changes    *)
(* nothing but where the day began.                                        *)
(***************************************************************************)
EXTENDS Integers

CONSTANT Symbols

VARIABLES
  booked, paid, marks,             \* since inception
  openBooked, openPaid, openMarks  \* as they were when the day began

accountVars == <<booked, paid, marks, openBooked, openPaid, openMarks>>

Fresh ==
  /\ booked = 0
  /\ paid = 0
  /\ marks = [s \in Symbols |-> 0]
  /\ openBooked = 0
  /\ openPaid = 0
  /\ openMarks = [s \in Symbols |-> 0]

Book ==
  /\ booked' \in Int
  /\ paid' \in Int
  /\ paid' >= paid
  /\ UNCHANGED <<marks, openBooked, openPaid, openMarks>>

Mark ==
  /\ \E s \in Symbols : \A r \in Symbols \ {s} : marks'[r] = marks[r]
  /\ UNCHANGED <<booked, paid, openBooked, openPaid, openMarks>>

StartDay ==
  /\ openBooked' = booked
  /\ openPaid' = paid
  /\ openMarks' = marks
  /\ UNCHANGED <<booked, paid, marks>>

StartOver ==
  /\ booked' = 0
  /\ paid' = 0
  /\ marks' = [s \in Symbols |-> 0]
  /\ openBooked' = 0
  /\ openPaid' = 0
  /\ openMarks' = [s \in Symbols |-> 0]

Next == Book \/ Mark \/ StartDay \/ StartOver

Spec == Fresh /\ [][Next]_accountVars
=============================================================================
