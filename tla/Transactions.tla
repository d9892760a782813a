---------------------------- MODULE Transactions ----------------------------
(***************************************************************************)
(* What every handler of src/apply.js that moves money or stock leans on:  *)
(* one transaction per op under READ COMMITTED.  A step of a transaction   *)
(* is a statement that takes a row lock or reads what no lock protects;    *)
(* other transactions run in between.  What a transaction writes is its    *)
(* own until it commits, and the rows it has written are locked till then. *)
(***************************************************************************)
EXTENDS Integers, Sequences, FiniteSets, Functions

CONSTANTS
  Ops, P,        \* the ops that may arrive; P[o] is the payload of op o
  Txs,    \* transactions that may be under way at one time
  LastMonth,     \* months are 1 .. LastMonth
  None           \* no op

VARIABLES
  row,           \* the rows handlers update, by name
  journal,       \* committed entries
  moves,         \* committed stock_move rows
  tx,            \* what each delivery's transaction has done so far
  applied,          \* ops applied and committed
  adrift         \* history: rows whose balance rests on a stale read or a floor

bookVars == <<row, journal, moves, tx, applied, adrift>>

\* TLC's, by their definitions: one pair, and f before g.
a :> b == [x \in {a} |-> b]
f @@ g == [x \in DOMAIN f \cup DOMAIN g |-> IF x \in DOMAIN f THEN f[x] ELSE g[x]]

Months == 1 .. LastMonth
MonthRow(m) == <<"month", m>>
SeriesRow(k) == <<"series", k>>
Series == {"SALE", "CN", "JV"}

\* Legs of an entry: account :> amount, debit positive and credit negative, and no
\* leg of nothing.
NoLegs == <<>>
Lines(f) == [a \in {x \in DOMAIN f : f[x] # 0} |-> f[a]]
Leg(legs, a) == IF a \in DOMAIN legs THEN legs[a] ELSE 0

Kinds(k) == {o \in Ops : P[o].kind \in k}

\* Finitely many ops ever arrive, each of some month.
ASSUME OpsAssumption ==
  /\ IsFiniteSet(Ops) /\ None \notin Ops /\ LastMonth \in Nat
  /\ \A o \in Ops : P[o].month \in Months
Most(a, b) == IF a > b THEN a ELSE b
Least(a, b) == IF a < b THEN a ELSE b

Idle == [op |-> None, todo |-> <<>>, w |-> <<>>, entries |-> {}, moved |-> {},
         legs |-> NoLegs, month |-> 1, no |-> 0, seen |-> 0, fresh |-> FALSE,
         session |-> 0, wasOpen |-> {}, wasShut |-> {}, drift |-> {}]

\* months and series as the outlet is provisioned with them
FirstRows == [r \in {SeriesRow(k) : k \in Series} |-> 1]
               @@ [r \in {MonthRow(m) : m \in Months} |-> "none"]

-----------------------------------------------------------------------------
Payload(d) == P[tx[d].op]
Is(d, kind) == Payload(d).kind = kind
At(d, s) == tx[d].op # None /\ tx[d].todo # <<>> /\ Head(tx[d].todo) = s

Free(d, r) == \A e \in Txs \ {d} : r \notin DOMAIN tx[e].w
Val(d, r) == IF r \in DOMAIN tx[d].w THEN tx[d].w[r] ELSE row[r]
Put(w, r, v) == (r :> v) @@ w

Stays == UNCHANGED <<row, journal, moves, applied, adrift>>
Goes(d, t) == tx' = [tx EXCEPT ![d] = [t EXCEPT !.todo = Tail(@)]] /\ Stays
Writes(d, r, v, t) == Free(d, r) /\ Goes(d, [t EXCEPT !.w = Put(@, r, v)])

\* The handler returns early: the op is applied, and nothing happened.
Skip(d) == /\ tx' = [tx EXCEPT ![d] = Idle]
           /\ applied' = applied \cup {tx[d].op}
           /\ UNCHANGED <<row, journal, moves, adrift>>

Closed == {m \in Months : row[MonthRow(m)] = "closed"}

Begin(d, o, steps, legs) ==
  /\ tx[d].op = None /\ o \notin applied
  /\ \A e \in Txs : tx[e].op # o
  /\ tx' = [tx EXCEPT ![d] = [Idle EXCEPT
              !.op = o, !.todo = steps, !.legs = legs, !.month = P[o].month,
              !.session = row[<<"drawer", "d">>].session,
              !.wasOpen = Months \ Closed, !.wasShut = Closed]]
  /\ Stays

\* history: which months a transaction has seen open, and seen closed, while it ran
Watch(t) ==
  LET shut == {m \in Months : row'[MonthRow(m)] = "closed"} IN
  [t EXCEPT !.wasOpen = @ \cup (Months \ shut), !.wasShut = @ \cup shut]

CommitTx(d) ==
  LET t == tx[d] IN
  /\ t.op # None /\ t.todo = <<>>
  /\ row' = t.w @@ row
  /\ journal' = journal \cup {[j EXCEPT !.open = t.wasOpen, !.shut = t.wasShut] :
                                j \in t.entries}
  /\ moves' = moves \cup t.moved
  /\ applied' = applied \cup {t.op}
  /\ adrift' = adrift \cup t.drift
  /\ tx' = [e \in Txs |->
              IF e = d \/ tx[e].op = None THEN Idle ELSE Watch(tx[e])]

\* The handler threw, a deadlock chose this one, or the connection went: nothing
\* is left, and the op may come again.
Abort(d) == tx[d].op # None /\ tx' = [tx EXCEPT ![d] = Idle] /\ Stays

-----------------------------------------------------------------------------
(* postJournal, for every handler that books. *)

Books(d) == tx[d].legs # NoLegs
Total(legs) == SumFunction(legs)

\* A gap goes to 4900.  (Of a sale it may be of any size; another source may
\* absorb five laari and refuses more.)
Squared(legs) == Lines(("4900" :> Leg(legs, "4900") - Total(legs)) @@ legs)

\* the month itself when it is not closed, else the next that is not
FirstOpen(m) == CHOOSE n \in m .. (LastMonth + 1) :
                  n \notin Closed /\ m .. (n - 1) \subseteq Closed

\* firstOpenOnOrAfter reads the closed months, and locks nothing
Land(d) ==
  /\ At(d, "land") /\ FirstOpen(tx[d].month) \in Months
  /\ Goes(d, [tx[d] EXCEPT !.month = FirstOpen(tx[d].month)])

\* ensurePeriodOpen, where it does not throw: it reads the month ..
Ensure(d) ==
  LET state == Val(d, MonthRow(tx[d].month)) IN
  /\ At(d, "ensure")
  /\ Books(d) => state # "closed"
  /\ Goes(d, [tx[d] EXCEPT !.fresh = Books(d) /\ state = "none"])

\* .. and inserts its row when there was none; a row inserted meanwhile stays
InsertMonth(d) ==
  LET r == MonthRow(tx[d].month) IN
  /\ At(d, "insert")
  /\ IF ~tx[d].fresh THEN Goes(d, tx[d])
     ELSE /\ Free(d, r)
          /\ IF Val(d, r) = "none" THEN Writes(d, r, "open", tx[d])
                                   ELSE Goes(d, tx[d])

Post(d) ==
  LET r == SeriesRow("JV") t == tx[d] IN
  /\ At(d, "post")
  /\ IF ~Books(d) THEN Goes(d, t)
     ELSE Writes(d, r, Val(d, r) + 1,
            [t EXCEPT !.entries = @ \cup
              {[jv |-> Val(d, r), src |-> Payload(d).kind, op |-> t.op,
                ref |-> IF "of" \in DOMAIN Payload(d) THEN Payload(d).of ELSE t.op,
                no |-> t.no, legs |-> Squared(t.legs), month |-> t.month,
                session |-> t.session, open |-> {}, shut |-> {}]}])

Period(d) ==
  LET r == MonthRow(Payload(d).month) IN
  /\ At(d, "period") /\ Free(d, r)
  /\ IF Is(d, "shut") THEN Writes(d, r, "closed", tx[d])
     ELSE IF Val(d, r) = "none" THEN Goes(d, tx[d])
     ELSE Writes(d, r, "open", tx[d])

Entry(d) == Land(d) \/ Ensure(d) \/ InsertMonth(d) \/ Post(d) \/ Period(d)

BookedOn(a, S) == SumFunction([j \in S |-> Leg(j.legs, a)])
Bal(a) == BookedOn(a, journal)

=============================================================================
