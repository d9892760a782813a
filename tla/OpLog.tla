------------------------------- MODULE OpLog -------------------------------
(***************************************************************************)
(* What the outlet promises about an op, whoever sends it and however      *)
(* often: it is booked once, all of it or none of it, it is never undone   *)
(* by delivery, and a device is told "applied" only of an op that is.      *)
(* SyncPush (the /sync/push handler) is shown to implement this module and *)
(* Outbox (the till's queue) is built on it.                               *)
(***************************************************************************)
EXTENDS Naturals

CONSTANT Op                     \* the op ids devices make up before sending

VARIABLES log,                  \* op ids in op_log, committed
          books,                \* how many times each op's effects are in the books
          acked                 \* ops some device has been told are applied

vars == <<log, books, acked>>

Init == log = {} /\ books = [o \in Op |-> 0] /\ acked = {}

\* One transaction: a set of ops the outlet has never seen, each once.
Book(S) ==
  /\ S \cap log = {}
  /\ log' = log \cup S
  /\ books' = [o \in Op |-> IF o \in S THEN books[o] + 1 ELSE books[o]]
  /\ UNCHANGED acked

\* A device may be told only of what is in the log.
Ack(S) ==
  /\ S \subseteq log
  /\ acked' = acked \cup S
  /\ UNCHANGED <<log, books>>

Next == \E S \in SUBSET Op : Book(S) \/ Ack(S)

Spec == Init /\ [][Next]_vars
============================================================================
