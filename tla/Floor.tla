------------------------------- MODULE Floor -------------------------------
(***************************************************************************)
(* What a terminal shows of its outlet, and how it is kept up to date: the *)
(* poll (GET /sync/pull and the live slice), the bootstrap, and the merge  *)
(* in the terminal's page.                                                 *)
(*                                                                         *)
(* A row is stamped with the start of its transaction and is seen once the *)
(* transaction commits.  A pull is answered with what was stamped after    *)
(* `since' less the overlap, and the device comes back with the stamp of   *)
(* that answer.  Time is counted in ticks; the last tick comes long after  *)
(* the others, when everything has left the window.                        *)
(***************************************************************************)
EXTENDS Integers, FiniteSets, FiniteSetsExt

CONSTANTS
  Ops, P,      \* P[o] is [kind, table, here, after]; here: made at this terminal
  Tables,
  MaxOps,      \* ops made at all
  Ticks,       \* a transaction begins at tick 1 .. Ticks
  Overlap,     \* PULL_OVERLAP_MS: longer than any transaction takes
  Limit,       \* LIMIT 500
  Budget       \* answers lost, slices lost, reloads and wake-ups, together

ASSUME FloorAssumption ==
  /\ Overlap \in Nat \ {0} /\ Ticks \in Nat
  /\ \A o \in Ops : P[o].table \in Tables

VARIABLES
  op,          \* where each op is: [at, state]
  clock,
  bill,        \* the outlet's ticket of each table: [status, lines]
  req,         \* requests under way
  screen,      \* the terminal's page: [floor, takings, menu]
  since,       \* the terminal's window
  gap,         \* READ_GAP_MS since the last bootstrap has not passed
  spent,       \* of the budget
  missed       \* history: sales a lost slice or an older bootstrap left out

floorVars == <<op, clock, bill, req, screen, since, gap, spent, missed>>

Later == Ticks + Overlap + 2       \* the last tick
Poll == "poll"                     \* the five-second loop
Woken == "woken"                   \* the stream's wake-up: the same pull, off-cycle
BootRead == "boot"
Pulls == {Poll, Woken}

Here == {o \in Ops : P[o].here}
Done(o) == op[o].state = "done"
Log == {o \in Ops : Done(o)}
Sales(S) == {o \in S : P[o].kind = "sale"}
Menu(S) == {o \in S : P[o].kind = "menu"}

Unlisted == [open |-> FALSE, lines |-> {}]
More == Cardinality({o \in Ops : op[o].state # "new"}) < MaxOps
NoBill == [src |-> "none", lines |-> {}, named |-> {}, fresh |-> FALSE]
NoReq == [phase |-> "idle", since |-> 0, now |-> 0, menu |-> {},
          floor |-> [t \in Tables |-> Unlisted], sales |-> {}]

FloorInit ==
  /\ op = [o \in Ops |-> [at |-> 0, state |-> "new"]]
  /\ clock = 1
  /\ bill = [t \in Tables |-> [status |-> "none", lines |-> {}]]
  /\ req = [s \in Pulls \cup {BootRead} |-> NoReq]
  /\ screen = [floor |-> [t \in Tables |-> NoBill], takings |-> {}, menu |-> {}]
  /\ since = 0  /\ gap = FALSE /\ spent = 0 /\ missed = {}

-----------------------------------------------------------------------------
(* The outlet: ops are pushed by this terminal and by others. *)

\* No transaction outlives the overlap.
Tick == /\ clock < Later
        /\ LET next == IF clock < Ticks THEN clock + 1 ELSE Later IN
           /\ \A o \in Ops : op[o].state = "begun" => next - op[o].at < Overlap
           /\ clock' = next
        /\ UNCHANGED <<op, bill, req, screen, since, gap, spent, missed>>

\* Another terminal's op, or one of this outbox, begins its transaction.
Begin(o) ==
  /\ clock <= Ticks \/ P[o].here
  /\ op[o].state = IF P[o].here THEN "queued" ELSE "new"
  /\ P[o].here \/ More
  /\ P[o].after \subseteq Log
  /\ op' = [op EXCEPT ![o] = [at |-> clock, state |-> "begun"]]
  /\ UNCHANGED <<clock, bill, req, screen, since, gap, spent, missed>>

\* A line opens a bill where none is open.
After(o, b) ==
  CASE P[o].kind = "line" -> [status |-> "open",
                              lines |-> {o} \cup IF b.status = "open" THEN b.lines ELSE {}]
    [] P[o].kind = "sale" -> [b EXCEPT !.status = "closed"]
    [] OTHER -> b

Commit(o) ==
  /\ op[o].state = "begun"
  /\ op' = [op EXCEPT ![o].state = "done"]
  /\ bill' = [bill EXCEPT ![P[o].table] = After(o, @)]
  /\ UNCHANGED <<clock, req, screen, since, gap, spent, missed>>

-----------------------------------------------------------------------------
(* A request's reads, each with its own snapshot. *)

Reads(s, phase) == req[s].phase = phase
Spend == spent < Budget /\ spent' = spent + 1

\* mutant: the window does not reach back
WindowBare(from) == {o \in Log : op[o].at > from}
Window(from) == {o \in Log : op[o].at > from - Overlap}

\* TICK_COVERS: what the slice carries whole is not re-read
Covered(o) == P[o].kind \in {"line", "sale"}

\* A pull: the stamp the device will come back with, and the ops of the window,
\* ORDER BY applied_at LIMIT: the oldest.  Of these the device looks at the kinds its
\* slice does not carry.
Ask(s) ==
  LET W == Window(since) IN
  /\ s \in Pulls /\ Reads(s, "idle")
  /\ \E S \in kSubset(Min({Limit, Cardinality(W)}), W) :
       /\ \A o \in S, n \in W \ S : op[o].at <= op[n].at
       /\ req' = [req EXCEPT ![s] = [NoReq EXCEPT !.phase = "read", !.since = since,
                                      !.now = clock, !.menu = {o \in S : ~Covered(o)}]]
  /\ IF s = Woken THEN Spend ELSE UNCHANGED spent
  /\ UNCHANGED <<op, clock, bill, screen, since, gap, missed>>

Answers(s, menu, sales) ==
  /\ req' = [req EXCEPT ![s] = [NoReq EXCEPT !.phase = "ready", !.now = req[s].now, !.menu = menu,
       !.floor = [t \in Tables |-> IF bill[t].status = "open"
                                  THEN [open |-> TRUE, lines |-> bill[t].lines] ELSE Unlisted],
       !.sales = sales]]
  /\ UNCHANGED <<op, clock, bill, screen, since, gap, spent, missed>>

\* The live slice: the floor whole, so that absence is an answer, and the window's
\* sales.  The bootstrap: the masters too, which only it carries, and every sale.
ReadSlice(s) == /\ s \in Pulls /\ Reads(s, "read")
                /\ Answers(s, req[s].menu, Sales(Window(req[s].since)))
ReadState == Reads(BootRead, "asked") /\ Answers(BootRead, Menu(Log), Sales(Log))

\* no answer: the device keeps its stamp, and asks again
Lose(s) == /\ ~Reads(s, "idle") /\ Spend
           /\ req' = [req EXCEPT ![s] = NoReq]
           /\ UNCHANGED <<op, clock, bill, screen, since, gap, missed>>

-----------------------------------------------------------------------------
(* The terminal: seed() and applyLive() merge what an answer carries. *)

\* mutant: a bill the outlet does not list is closed, whoever opened it
MergeAll(here, theirs) ==
  IF ~theirs.open THEN NoBill
  ELSE [src |-> "outlet", lines |-> here.lines \cup theirs.lines,
        named |-> theirs.lines, fresh |-> here.fresh]
\* Local work wins: a bill opened here is kept until the outlet lists it, a line
\* written here until the outlet has named it, and a bill just edited as it is.
Merge(here, theirs) ==
  IF ~theirs.open THEN (IF here.src = "outlet" THEN NoBill ELSE here)
  ELSE LET kept == {l \in here.lines :
                      l \in theirs.lines \/ l \notin here.named \/ here.fresh}
       IN [src |-> "outlet", lines |-> kept \cup theirs.lines, fresh |-> here.fresh,
           named |-> IF here.fresh
                     THEN (here.named \cap kept) \cup (theirs.lines \ here.lines)
                     ELSE theirs.lines]
Floors(r) == [t \in Tables |-> Merge(screen.floor[t], r.floor[t])]

StartBoot(rs) == IF rs[BootRead].phase = "idle"
                 THEN [rs EXCEPT ![BootRead] = [NoReq EXCEPT !.phase = "asked"]] ELSE rs

\* A pull's answer with its slice: absorb(), then tellMe(), which rereads unless a
\* bootstrap is under way or was within the gap.
Land(s) ==
  LET r == req[s]
      rest == [req EXCEPT ![s] = NoReq]
      asks == r.menu # {} /\ ~gap /\ Reads(BootRead, "idle")
  IN /\ s \in Pulls /\ Reads(s, "ready")
     /\ since' = r.now
     /\ screen' = [screen EXCEPT !.floor = Floors(r), !.takings = @ \cup r.sales]
     /\ req' = IF asks THEN StartBoot(rest) ELSE rest
     /\ gap' = (gap \/ asks)
     /\ UNCHANGED <<op, clock, bill, spent, missed>>

\* The slice could not be read: the stamp moves on, nothing is absorbed and
\* nothing asks for a reread.
LandBare(s) ==
  /\ s \in Pulls /\ Reads(s, "read") /\ Spend
  /\ since' = req[s].now
  /\ req' = [req EXCEPT ![s] = NoReq]
  /\ missed' = missed \cup Sales(Window(req[s].since))
  /\ UNCHANGED <<op, clock, bill, screen, gap>>

\* hydrate(): the masters and the takings are replaced, the floor is merged
Hydrate ==
  LET r == req[BootRead] IN
  /\ Reads(BootRead, "ready")
  /\ screen' = [floor |-> Floors(r), takings |-> r.sales, menu |-> r.menu]
  /\ req' = [req EXCEPT ![BootRead] = NoReq]
  /\ missed' = missed \cup (screen.takings \ r.sales)
  /\ UNCHANGED <<op, clock, bill, since, gap, spent>>

\* mutant: the masters are read once, before the first pull
SlowReadOnce == /\ ~gap /\ Reads(BootRead, "idle") /\ since = 0
                /\ gap' = TRUE /\ req' = StartBoot(req)
                /\ UNCHANGED <<op, clock, bill, screen, since, spent, missed>>
\* the five-minute read
SlowRead == /\ ~gap /\ Reads(BootRead, "idle")
            /\ gap' = TRUE /\ req' = StartBoot(req)
            /\ UNCHANGED <<op, clock, bill, screen, since, spent, missed>>
GapPasses == /\ gap /\ gap' = FALSE
             /\ UNCHANGED <<op, clock, bill, req, screen, since, spent, missed>>

\* A line is rung up at this terminal: on the screen at once, and queued.
Ring(o) ==
  LET t == P[o].table here == screen.floor[t] IN
  /\ o \in Here /\ op[o].state = "new" /\ More
  /\ op' = [op EXCEPT ![o].state = "queued"]
  /\ screen' = [screen EXCEPT !.floor[t] =
       [here EXCEPT !.src = IF @ = "none" THEN "here" ELSE @,
                    !.lines = @ \cup {o}, !.fresh = TRUE]]
  /\ UNCHANGED <<clock, bill, req, since, gap, spent, missed>>

\* twenty seconds after the edit
Calm(t) == /\ screen.floor[t].fresh
           /\ screen' = [screen EXCEPT !.floor[t].fresh = FALSE]
           /\ UNCHANGED <<op, clock, bill, req, since, gap, spent, missed>>

\* The page is reloaded: its stamp is gone, its bills are not; it
\* boots, and what was asked is not answered to it.
ReloadPage ==
  /\ since > 0 /\ Spend
  /\ since' = 0 /\ gap' = FALSE
  /\ req' = StartBoot([s \in DOMAIN req |-> NoReq])
  /\ UNCHANGED <<op, clock, bill, screen, missed>>

-----------------------------------------------------------------------------
FloorNext ==
  \/ Tick \/ ReadState \/ Hydrate \/ SlowRead \/ GapPasses \/ ReloadPage
  \/ \E o \in Ops : Begin(o) \/ Commit(o) \/ Ring(o)
  \/ \E s \in Pulls : Ask(s) \/ ReadSlice(s) \/ Land(s) \/ LandBare(s)
  \/ \E s \in Pulls \cup {BootRead} : Lose(s)
  \/ \E t \in Tables : Calm(t)

\* Transactions end, the outbox is delivered, and the poll and the slow reads go
\* round and are answered once the budget is spent.
FloorFairness ==
  /\ WF_floorVars(Tick) /\ WF_floorVars(GapPasses)
  /\ \A o \in Ops : WF_floorVars(Commit(o))
  /\ \A o \in Here : WF_floorVars(Begin(o))
  /\ \A t \in Tables : WF_floorVars(Calm(t))
  /\ WF_floorVars(Ask(Poll)) /\ WF_floorVars(ReadSlice(Poll)) /\ WF_floorVars(Land(Poll))
  /\ WF_floorVars(SlowRead) /\ WF_floorVars(ReadState) /\ WF_floorVars(Hydrate)

FloorSpec == FloorInit /\ [][FloorNext]_floorVars
FairFloor == FloorSpec /\ FloorFairness

-----------------------------------------------------------------------------
(* What the terminal may count on. *)

\* No sale falls behind the window unseen: one stamped before it is in the takings,
\* unless its slice was lost or a bootstrap that read before it landed after it.
WindowHolds ==
  \A o \in Sales(Log) \ missed : op[o].at <= since - Overlap => o \in screen.takings

\* No answer takes unsent work off the screen: a line that is not delivered leaves
\* it only with the outlet's whole bill, when the outlet no longer lists that.
OwnWorkStays ==
  [][\A o \in Here : LET t == P[o].table IN
       o \in screen.floor[t].lines \ screen'.floor[t].lines /\ ~Done(o) =>
         screen.floor[t].src = "outlet" /\ screen'.floor[t].src = "none"]_floorVars

\* The terminal shows what the outlet holds.
Same ==
  /\ \A t \in Tables : IF bill[t].status = "open"
                       THEN screen.floor[t].lines = bill[t].lines
                       ELSE screen.floor[t].src # "outlet"
  /\ screen.takings = Sales(Log) /\ screen.menu = Menu(Log)
\* When the others are done, this terminal comes to show the outlet's open bills with
\* their lines, its takings and its menu, whatever was lost, late, overtaken or
\* throttled before; a bill opened here and closed before it was listed stays.
ScreenCatchesUp == <>[]Same

=============================================================================
