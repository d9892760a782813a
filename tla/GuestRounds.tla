---------------------------- MODULE GuestRounds ----------------------------
(***************************************************************************)
(* A guest's rounds, from the phone to the bill and back (guest.html,      *)
(* guest-bridge.js, routes/guest.js, qr_order).                            *)
(*                                                                         *)
(* The phone posts a round under an op id it keeps, and posts again any    *)
(* round it has no answer for.  The counter takes it or declines it, and   *)
(* the phone learns which only from the outlet's snapshot: four lists,     *)
(* read by four statements one after the other.  Each list has its cut:    *)
(* open bills at the guest's table and their lines that are not void, and  *)
(* the last two hours, or sixty rows, of the other three.                  *)
(***************************************************************************)
EXTENDS Integers, Sequences, FiniteSets

CONSTANTS
  MaxRounds, MaxOrders,
  Budget,      \* posts and answers lost, voids, moves, bills parked, and rows that leave a
               \* list's window, together
  MaxAsks,     \* snapshots the phone asks for: the one it shows is the last
  Nobody       \* the member of an order that has none

ASSUME RoundsAssumption == MaxRounds \in Nat

VARIABLES
  orders,      \* guest_order: [round, st, by]
  logged,      \* op_log: the order of each round's op id, 0 for none
  made,        \* rounds the guest has sent
  oid,         \* the outlet's name of each round, stamped from its answer
  post,        \* requests under way: one first post a round, one flush (slot 0)
  poll,        \* the snapshot under way
  asked,       \* snapshots asked for
  view,        \* the snapshot the phone shows
  till,        \* the counter: [seen, acked, box]
  bill,        \* the table's bill: [lines, member, parked, settled, cut], and the orders whose
               \* lines are off it, void, paid for or moved to another table: off
  aged,        \* orders past the window of their list: two hours, or sixty later ones
  spent

roundVars == <<orders, logged, made, oid, post, poll, asked, view, till, bill, aged, spent>>

Rounds == 1..MaxRounds
Flusher == 0                       \* this._flushing
Slots == Rounds \cup {Flusher}
Ids == 1..Len(orders)

NoPost == [phase |-> "idle", round |-> 0, id |-> 0]
\* knows: the rounds stamped before the request began; moved: history, the orders whose
\* lines or decision were committed, or which left a list, while the lists were being read
\* or before
NoView == [phase |-> "idle", knows |-> {}, lines |-> {}, settled |-> FALSE, cut |-> {},
           declined |-> {}, pending |-> {}, moved |-> {}]
NoBill == [lines |-> {}, member |-> Nobody, parked |-> FALSE, settled |-> FALSE, cut |-> {},
           off |-> {}]

RoundsInit ==
  /\ orders = <<>> /\ logged = [r \in Rounds |-> 0]
  /\ made = 0 /\ oid = [r \in Rounds |-> 0]
  /\ post = [s \in Slots |-> NoPost]
  /\ poll = NoView /\ view = NoView /\ asked = 0
  /\ till = [seen |-> {}, acked |-> {}, box |-> <<>>]
  /\ bill = NoBill /\ aged = {} /\ spent = 0

-----------------------------------------------------------------------------
(* The phone's posts. *)

\* sendOrder: posted at once, or held where there is no table token.
Make ==
  /\ made < MaxRounds /\ made' = made + 1
  /\ \E phase \in {"way", "idle"} :
       post' = [post EXCEPT ![made + 1] = [NoPost EXCEPT !.phase = phase, !.round = made + 1]]
  /\ UNCHANGED <<orders, logged, oid, poll, asked, view, till, bill, aged, spent>>

\* heldHere: no answer yet, and no settlement the phone knows of has ended its sitting.
Held == {r \in 1..made : oid[r] = 0 /\ ~(view.settled /\ r \in view.cut)}

\* flushHeld does not ask whether the first post of the round is still under way.
Flush ==
  /\ post[Flusher].phase = "idle"
  /\ \E r \in Held :
       post' = [post EXCEPT ![Flusher] = [NoPost EXCEPT !.phase = "way", !.round = r]]
  /\ UNCHANGED <<orders, logged, made, oid, poll, asked, view, till, bill, aged, spent>>

\* POST order, as far as the look into op_log: a round it has is answered as it was.
Check(s) ==
  /\ post[s].phase = "way"
  /\ LET was == logged[post[s].round] IN
     post' = [post EXCEPT ![s].phase = IF was = 0 THEN "new" ELSE "answer", ![s].id = was]
  /\ UNCHANGED <<orders, logged, made, oid, poll, asked, view, till, bill, aged, spent>>

\* The row, and the op's answer unless another request has logged one meanwhile.
Insert(s, by) ==
  /\ post[s].phase = "new" /\ Len(orders) < MaxOrders
  /\ LET r == post[s].round
         o == Len(orders) + 1 IN
     /\ orders' = Append(orders, [round |-> r, st |-> "open", by |-> by])
     /\ logged' = [logged EXCEPT ![r] = IF @ = 0 THEN o ELSE @]
     /\ post' = [post EXCEPT ![s].phase = "answer", ![s].id = o]
  /\ UNCHANGED <<made, oid, poll, asked, view, till, bill, aged, spent>>

\* push, flushHeld: the answer gives the round its name, once.
Stamp(s) ==
  /\ post[s].phase = "answer"
  /\ oid' = [oid EXCEPT ![post[s].round] = IF @ = 0 THEN post[s].id ELSE @]
  /\ post' = [post EXCEPT ![s] = NoPost]
  /\ UNCHANGED <<orders, logged, made, poll, asked, view, till, bill, aged, spent>>

\* Mutant: a post that failed leaves the flush marked as under way.
FailedStuck(s) == IF s = Flusher THEN [NoPost EXCEPT !.phase = "stuck"] ELSE NoPost

\* A post that failed is told to the guest and tried again by the flush.
Failed(s) == NoPost

LosePost(s) ==
  /\ post[s].phase \in {"way", "new", "answer"}
  /\ spent < Budget /\ spent' = spent + 1
  /\ post' = [post EXCEPT ![s] = Failed(s)]
  /\ UNCHANGED <<orders, logged, made, oid, poll, asked, view, till, bill, aged>>

-----------------------------------------------------------------------------
(* The counter.  Its ops go out of its outbox in order, one or two a commit. *)

Open == {o \in Ids : orders[o].st = "open"}

ReadTill ==
  /\ till' = [till EXCEPT !.seen = Open \ till.acked] /\ till' # till
  /\ UNCHANGED <<orders, logged, made, oid, post, poll, asked, view, bill, aged, spent>>

\* Mutant: the round is closed first, and its lines follow.
AcceptOpsReversed(o, how) == <<<<"close", o, how>>, <<"lines", o, how>>>>
\* acceptQr: the lines, then the op that closes the round.
AcceptOps(o, how) == <<<<"lines", o, how>>, <<"close", o, how>>>>

\* decideQr: every line taken, some of them, or none.
Decide(o) ==
  /\ o \in till.seen
  /\ \E how \in {"taken", "part", "declined"} :
       till' = [seen |-> till.seen \ {o}, acked |-> till.acked \cup {o},
                box |-> till.box \o (IF how = "declined" THEN <<<<"close", o, how>>>>
                                     ELSE AcceptOps(o, how))]
  /\ UNCHANGED <<orders, logged, made, oid, post, poll, asked, view, bill, aged, spent>>

\* H.qr_order: a round is decided once, and one taken whole names the bill's member.
AfterOp(op, os, b) ==
  LET o == op[2]
      closes == op[1] = "close" /\ os[o].st = "open" IN
  [os |-> IF closes THEN [os EXCEPT ![o].st = op[3]] ELSE os,
   b |-> CASE op[1] = "lines" -> [b EXCEPT !.lines = @ \cup {o}]
           [] closes /\ op[3] = "taken" /\ b.lines # {} /\ b.member = Nobody ->
                [b EXCEPT !.member = os[o].by]
           [] OTHER -> b]

Noting(S) ==
  IF poll.phase \in {"settled", "declined", "pending"}
  THEN [poll EXCEPT !.moved = @ \cup S] ELSE poll

Deliver ==
  /\ \E n \in {1, 2} :
       LET one == AfterOp(till.box[1], orders, bill)
           two == IF n = 1 THEN one ELSE AfterOp(till.box[2], one.os, one.b) IN
       /\ Len(till.box) >= n
       /\ orders' = two.os /\ bill' = two.b
       /\ till' = [till EXCEPT !.box = SubSeq(@, n + 1, Len(@))]
       /\ poll' = Noting({till.box[i][2] : i \in 1..n})
       /\ aged' = {o \in aged : two.os[o].st = orders[o].st}  \* a decision has a window of its own
  /\ UNCHANGED <<logged, made, oid, post, asked, view, spent>>

\* The bill is paid: what was sent and what the outlet held belong to a sitting now over.
Settle ==
  /\ bill.lines # {} /\ ~bill.parked /\ ~bill.settled
  /\ bill' = [lines |-> {}, member |-> Nobody, parked |-> FALSE, settled |-> TRUE, cut |-> 1..made,
              off |-> bill.off \cup bill.lines]
  /\ poll' = Noting(bill.lines)
  /\ UNCHANGED <<orders, logged, made, oid, post, asked, view, till, aged, spent>>

\* Steps by which the outlet goes on having an order and its lists no longer do.
Cut(S) ==
  /\ spent < Budget /\ spent' = spent + 1
  /\ poll' = Noting(S)
  /\ UNCHANGED <<orders, logged, made, oid, post, asked, view, till>>

\* void_line, of all an order put on the bill; move_table, of the whole bill.
Strike(S) == /\ bill' = [bill EXCEPT !.lines = @ \ S, !.off = @ \cup S]
             /\ Cut(S) /\ UNCHANGED aged
Void == \E o \in bill.lines : Strike({o})
MoveTable == bill.lines # {} /\ ~bill.parked /\ Strike(bill.lines)

\* park_bill: a held bill still takes lines, and no list of the guest's has it.
Park == /\ bill.lines # {} /\ ~bill.parked /\ bill' = [bill EXCEPT !.parked = TRUE]
        /\ Cut(bill.lines) /\ UNCHANGED aged
\* resume_bill
Resume == /\ bill.parked /\ bill' = [bill EXCEPT !.parked = FALSE]
          /\ UNCHANGED <<orders, logged, made, oid, post, poll, asked, view, till, aged, spent>>

\* Two hours pass since an order was sent or decided, or sixty others are.
Age(o) == /\ o \notin aged /\ orders[o].st # "taken" /\ aged' = aged \cup {o}
          /\ Cut({o}) /\ UNCHANGED bill

\* They pass since the bill was paid, or its sale is voided.
SettlementGoes == /\ bill.settled /\ bill' = [bill EXCEPT !.settled = FALSE]
                  /\ Cut(bill.lines \cup bill.off) /\ UNCHANGED aged

-----------------------------------------------------------------------------
(* The snapshot, every eight seconds and after what the guest does. *)

\* refresh
Ask ==
  /\ poll.phase = "idle" /\ asked < MaxAsks /\ asked' = asked + 1
  /\ poll' = [NoView EXCEPT !.phase = "lines", !.knows = {r \in 1..made : oid[r] # 0}]
  /\ UNCHANGED <<orders, logged, made, oid, post, view, till, bill, aged, spent>>

\* What the lists leave out: GET menu keeps the open bills of the guest's own table.
OnTable == IF bill.parked THEN {} ELSE bill.lines
Refused == {o \in Ids \ aged : orders[o].st \in {"declined", "part"}}
Waiting == Open \ aged
Paid == IF bill.settled THEN {o \in Ids : orders[o].round \in bill.cut} ELSE {}
Gone == aged \cup {o \in (bill.lines \cup bill.off) \ (OnTable \cup Paid) : orders[o].st = "taken"}

\* snapshot: tickets, then settled, declined and pending, each as of its own statement.
Read ==
  /\ poll' =
       CASE poll.phase = "lines" ->
              [poll EXCEPT !.phase = "settled", !.lines = OnTable, !.moved = Gone]
         [] poll.phase = "settled" ->
              [poll EXCEPT !.phase = "declined", !.settled = bill.settled, !.cut = bill.cut]
         [] poll.phase = "declined" -> [poll EXCEPT !.phase = "pending", !.declined = Refused]
         [] poll.phase = "pending" -> [poll EXCEPT !.phase = "landing", !.pending = Waiting]
         [] OTHER -> poll
  /\ poll' # poll
  /\ UNCHANGED <<orders, logged, made, oid, post, asked, view, till, bill, aged, spent>>

\* hydrate, and polledFrom: when the ask began, not when it landed.
Landed == [poll EXCEPT !.phase = "idle"]

Land ==
  /\ poll.phase = "landing"
  /\ view' = Landed /\ poll' = NoView
  /\ UNCHANGED <<orders, logged, made, oid, post, asked, till, bill, aged, spent>>

RoundsNext(by) ==
  \/ Make \/ Flush \/ ReadTill \/ Deliver \/ Settle \/ Ask \/ Read \/ Land
  \/ Void \/ MoveTable \/ Park \/ Resume \/ SettlementGoes
  \/ \E s \in Slots : Check(s) \/ Insert(s, by) \/ Stamp(s) \/ LosePost(s)
  \/ \E o \in Ids : Decide(o) \/ Age(o)

-----------------------------------------------------------------------------
\* openOrder: on the bill, with the counter, not coming, or this phone's own copy.
Drawn(r) ==
  \/ oid[r] \in view.lines \cup view.pending \cup view.declined
  \/ r \notin view.knows
  \/ view.settled /\ r \in view.cut

\* A round the outlet has answered for is always somewhere on the guest's order, except one
\* decided while the very lists that are shown were being read, and one the outlet itself had
\* taken off them by then: its lines void, its bill parked or on another table, or two hours
\* and sixty orders past (guest.html:1352, guest-bridge.js:303).
RoundIsShown == \A r \in 1..made : oid[r] # 0 => Drawn(r) \/ oid[r] \in view.moved

=============================================================================
