---------------------------- MODULE KitchenPass ----------------------------
(***************************************************************************)
(* Where an order is: the lines of one ticket at the pass and the rung     *)
(* (ticket.stage) the guest's tracker and the floor read, as fire_course,  *)
(* kds_bump, kds_bump_all, kds_recall, fulfil_stage and void_line of       *)
(* src/apply.js keep them.  Each is several statements of one transaction  *)
(* at READ COMMITTED: it changes the lines, then counts them, then writes  *)
(* the rung.  It sees its own changes and what was committed when the      *)
(* statement began, and holds the rows it changed until it commits.        *)
(***************************************************************************)
EXTENDS Naturals, FiniteSets

CONSTANTS Session,      \* deliveries at work on the ticket at the same time
          Line,         \* the ticket's lines
          Ops,          \* the ops that can arrive
          MaxOps        \* bound: how many arrive

ASSUME BoundAssumption == MaxOps \in Nat

VARIABLES sent, ready, void,    \* committed: sent_at, ready_at, void_at are set
          stage,                \* committed: the rung
          session,              \* per delivery: its op, how far it is, the lines it changed,
                                \* and (history) whether another was at work meanwhile
          begun,                \* ops begun
          told,                 \* order_ready notices composed
          counted               \* history: the pass was last counted, or fired, with no other
                                \* delivery at work, and nothing voided or set by hand since

lineVars == <<sent, ready, void>>
vars == <<sent, ready, void, stage, session, begun, told, counted>>

TAKING == 0
KITCHEN == 1
READY == 2
SERVED == 3

Kind == {"fire_course", "kds_bump", "kds_bump_all", "kds_recall", "fulfil_stage", "void_line"}
ASSUME OpAssumption == \A op \in Ops : op.kind \in Kind
Idle == [phase |-> "idle"]
Quiet == \A s \in Session : session[s] = Idle

Init ==
  /\ sent = {} /\ ready = {} /\ void = {}
  /\ stage = TAKING
  /\ session = [s \in Session |-> Idle]
  /\ begun = 0 /\ told = 0 /\ counted = FALSE

\* What the op makes of a line: fired, up, back on the pass, or void.
Effect(op) ==
  CASE op.kind = "fire_course" -> "sent"
    [] op.kind = "void_line" -> "void"
    [] op.kind \in {"kds_bump", "kds_bump_all"} -> "ready"
    [] op.kind = "kds_recall" -> "back"
    [] op.kind = "fulfil_stage" -> IF op.rung >= READY THEN "ready" ELSE "back"

\* Math.max(0, Math.min(3, stage))
Clamp(rung) == IF rung > SERVED THEN SERVED ELSE rung

\* The WHERE clause of its UPDATE. kds_bump_all and fulfil_stage name no lines.
Hits(op) ==
  {l \in IF op.kind \in {"kds_bump_all", "fulfil_stage"} THEN Line ELSE op.lines :
     CASE Effect(op) = "sent" -> l \notin sent
       [] Effect(op) = "void" -> l \notin void
       [] Effect(op) = "ready" -> l \in sent \ ready
       [] Effect(op) = "back" -> l \in ready}

\* The UPDATE begins: the rows its snapshot matches.  The screens offer to fire
\* what is not fired, and to bump or recall what is.
Begin(s, op) ==
  /\ session[s] = Idle
  /\ begun < MaxOps
  /\ op.kind \in {"kds_bump", "kds_recall"} => op.lines \subseteq sent
  /\ op.kind = "fire_course" => op.lines \cap sent = {}
  /\ begun' = begun + 1
  /\ session' = [u \in Session |->
       CASE u = s -> [phase |-> "marking", op |-> op, hit |-> Hits(op), rung |-> stage, alone |-> Quiet]
         [] session[u] = Idle /\ u # s -> Idle
         [] OTHER -> [session[u] EXCEPT !.alone = FALSE]]
  /\ UNCHANGED <<lineVars, stage, told, counted>>

Holds(s) == IF session[s].phase \in {"marked", "counted"} THEN session[s].hit ELSE {}

\* It waits for rows another delivery holds, and then looks at each again.
Mark(s) ==
  /\ session[s].phase = "marking"
  /\ \A u \in Session \ {s} : Holds(u) \cap session[s].hit = {}
  /\ session' = [session EXCEPT ![s].phase = "marked",
                                ![s].hit = @ \cap Hits(session[s].op)]
  /\ UNCHANGED <<lineVars, stage, begun, told, counted>>

\* The lines as the delivery itself sees them, and as they are once it commits.
SentAfter(s) == IF Effect(session[s].op) = "sent" THEN sent \cup session[s].hit ELSE sent
VoidAfter(s) == IF Effect(session[s].op) = "void" THEN void \cup session[s].hit ELSE void
ReadyAfter(s) == CASE Effect(session[s].op) = "ready" -> ready \cup session[s].hit
                   [] Effect(session[s].op) = "back" -> ready \ session[s].hit
                   [] OTHER -> ready

\* rungFromPass: nothing fired, something still cooking, or all of it up.
RungFromPass(s) ==
  LET fired == SentAfter(s) \ VoidAfter(s)
  IN  IF fired = {} THEN TAKING ELSE IF fired \subseteq ReadyAfter(s) THEN READY ELSE KITCHEN

\* Mutant: a later course leaves the rung where it was.
RungWrittenButByFiring(s) ==
  CASE session[s].op.kind \in {"fire_course", "void_line"} -> session[s].rung
    [] session[s].op.kind = "fulfil_stage" -> Clamp(session[s].op.rung)
    [] OTHER -> RungFromPass(s)

\* The rung the op is about to write: firing and the floor say which, the pass is counted.
RungWritten(s) ==
  CASE session[s].op.kind = "fire_course" -> KITCHEN
    [] session[s].op.kind = "fulfil_stage" -> Clamp(session[s].op.rung)
    [] session[s].op.kind = "void_line" -> session[s].rung
    [] OTHER -> RungFromPass(s)

Count(s) ==
  /\ session[s].phase = "marked"
  /\ session' = [session EXCEPT ![s].phase = "counted", ![s].rung = RungWritten(s)]
  /\ UNCHANGED <<lineVars, stage, begun, told, counted>>

\* Mutant: any bump that finished a line announces.
AnnouncesAnyBump(s) ==
  session[s].op.kind \in {"kds_bump", "kds_bump_all"} /\ session[s].hit # {}

\* readyNotice: the rung is Ready and this op is what finished a line.
Announces(s) ==
  /\ session[s].op.kind \in {"kds_bump", "kds_bump_all"}
  /\ session[s].rung = READY /\ session[s].hit # {}

\* setRung and the commit.  void_line writes no rung.
SetRung(s) ==
  /\ session[s].phase = "counted"
  /\ sent' = SentAfter(s) /\ ready' = ReadyAfter(s) /\ void' = VoidAfter(s)
  /\ stage' = IF session[s].op.kind = "void_line" THEN stage ELSE session[s].rung
  /\ counted' = /\ session[s].alone
                /\ session[s].op.kind \notin {"void_line", "fulfil_stage"}
                /\ session[s].op.kind = "fire_course" => session[s].hit \ void # {}
  /\ told' = IF Announces(s) THEN told + 1 ELSE told
  /\ session' = [session EXCEPT ![s] = Idle]
  /\ UNCHANGED begun

Next == \E s \in Session : \/ \E op \in Ops : Begin(s, op)
                           \/ Mark(s) \/ Count(s) \/ SetRung(s)

Spec == Init /\ [][Next]_vars

----------------------------------------------------------------------------
(* Properties *)

TypeOK ==
  /\ sent \subseteq Line /\ ready \subseteq Line /\ void \subseteq Line
  /\ stage \in TAKING..SERVED
  /\ \A s \in Session : session[s].phase \in {"idle", "marking", "marked", "counted"}
  /\ begun \in 0..MaxOps /\ told \in 0..MaxOps /\ counted \in BOOLEAN

Cooking == (sent \ void) \ ready

\* setRung: "a kitchen that has finished a table cannot leave the orders list saying "Open"":
\* between deliveries the rung says Kitchen just when a line is cooking.
StageFollowsPass == (Quiet /\ sent \ void # {}) => (stage = KITCHEN <=> Cooking # {})

\* It does, as soon as the pass was counted by a delivery that overlapped no other, whatever
\* overlaps, voids and hands left it at before, and until the next of them.
RungIsExact == counted => StageFollowsPass

\* A waiter is called only to a table whose food is all up, unless another delivery was at
\* work on the ticket meanwhile.
NoEarlyCall ==
  [][told' # told => \/ Cooking' = {}
                     \/ \E s \in Session : session[s] # Idle /\ session'[s] = Idle /\ ~session[s].alone]_vars
============================================================================
