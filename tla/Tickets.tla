------------------------------ MODULE Tickets ------------------------------
(***************************************************************************)
(* The outlet's open bills, as the ticket handlers of src/apply.js keep    *)
(* them.  A till seldom holds a ticket's id: it names a TABLE, and every   *)
(* op first looks the ticket up and then writes to it.  Deliveries run at  *)
(* READ COMMITTED and the lookup takes no lock, so other deliveries may    *)
(* commit between the two: Begin is the lookup, Write everything after it, *)
(* with each UPDATE's WHERE clause evaluated again on the row it finds.    *)
(***************************************************************************)
EXTENDS Naturals, FiniteSets, FiniteSetsExt

CONSTANTS Session,      \* deliveries being applied at the same time
          Ticket,       \* ids the outlet can give a ticket
          Lid,          \* ids tills give their lines
          Label,        \* spellings of table names: "6", "T06"
          Key,          \* [Label -> table]: the spelling without its leading T and zeros
          Ops,          \* the ops that can arrive
          MaxOps,       \* bound: how many ops arrive
          Nil,          \* a field the payload leaves out; a row not found
          New           \* openTicket found no row: an INSERT will follow

ASSUME SpellingAssumption == DOMAIN Key = Label /\ Nil # New
                             /\ {Nil, New} \cap (Ticket \cup Lid \cup Label) = {}
\* There are tickets enough for every op to open one.
ASSUME BoundAssumption == MaxOps \in Nat /\ IsFiniteSet(Ticket) /\ Cardinality(Ticket) >= MaxOps

VARIABLES ticket,       \* the rows of table ticket
          lines,        \* ticket_line: per ticket, what became of each line id
          session,      \* per delivery, the op in hand and what its lookup found
          clock,        \* ops begun: now() of their transactions, in order
          moved,        \* history: the moves that reached each ticket
          counted,      \* history: the covers edits that reached each ticket
          since         \* history: the clock when each ticket came to be open at its table

vars == <<ticket, lines, session, clock, moved, counted, since>>

Kind == {"seat_walkin", "add_line", "void_line", "move_table", "park_bill", "resume_bill",
         "close_ticket", "sale", "covers_update"}
Idle == [kind |-> "idle"]

ASSUME OpAssumption ==
  /\ Ops \subseteq [kind : Kind, ticket : Ticket \cup {Nil}, table : Label \cup {Nil},
                   to : Label \cup {Nil}, lid : Lid \cup {Nil}, party : Nat, lamport : Nat]
  /\ \A o \in Ops : /\ o.kind \in {"add_line", "void_line"} => o.lid \in Lid
                    /\ o.kind = "move_table" => o.to \in Label

Row(status, table, party, at) ==
  [status |-> status, table |-> table, party |-> party, at |-> at,
   tableStamp |-> 0, partyStamp |-> 0, closedAt |-> 0]

Init ==
  /\ ticket = [t \in Ticket |-> Row("none", Nil, 0, 0)]
  /\ lines = [t \in Ticket |-> [l \in Lid |-> "no"]]
  /\ session = [s \in Session |-> Idle]
  /\ clock = 0
  /\ moved = [t \in Ticket |-> {}] /\ counted = [t \in Ticket |-> {}]
  /\ since = [t \in Ticket |-> 0]

----------------------------------------------------------------------------
(* Lookups *)

Live == {t \in Ticket : ticket[t].status \in {"open", "held"}}
OpenTickets == {t \in Ticket : ticket[t].status = "open"}

\* Mutant: the spelling must match, as it once had to.
NamedExactly(S, label) ==
  LET hits == {t \in S : ticket[t].table = label}
  IN  IF hits = {} THEN Nil ELSE CHOOSE t \in hits : \A u \in hits : ticket[u].at <= ticket[t].at

\* ORDER BY (table_no = $1) DESC, opened_at DESC LIMIT 1
Named(S, label) ==
  LET hits == {t \in S : ticket[t].table # Nil /\ Key[ticket[t].table] = Key[label]}
      exact == {t \in hits : ticket[t].table = label}
      best == IF exact # {} THEN exact ELSE hits
  IN  IF hits = {} THEN Nil
      ELSE CHOOSE t \in best : \A u \in best : ticket[u].at <= ticket[t].at

TicketRef(op) ==
  IF op.ticket # Nil THEN op.ticket
  ELSE IF op.table = Nil THEN Nil ELSE Named(Live, op.table)

\* The lookup half of openTicket.
OpenTicket(op) ==
  LET has == IF op.table = Nil THEN Nil ELSE Named(OpenTickets, op.table)
  IN  IF has = Nil THEN New ELSE has

TicketFor(op) ==
  IF op.ticket = Nil THEN OpenTicket(op)
  ELSE IF op.ticket \in Live THEN op.ticket ELSE Nil

\* The tickets whose line of that id lineOf may return: it takes the latest line.
LineOf(op) == {t \in Live : lines[t][op.lid] # "no"}

Lookups(op) ==
  CASE op.kind = "seat_walkin" -> {OpenTicket(op)}
    [] op.kind \in {"add_line", "park_bill"} -> {TicketFor(op)}
    [] op.kind = "void_line" -> IF LineOf(op) = {} THEN {Nil} ELSE LineOf(op)
    [] OTHER -> {TicketRef(op)}

\* A delivery takes an op up: BEGIN, and the handler's first SELECT.
Begin(s, op) ==
  /\ session[s] = Idle
  /\ clock < MaxOps
  /\ clock' = clock + 1
  /\ \E found \in Lookups(op) :
       session' = [session EXCEPT ![s] = [kind |-> op.kind, op |-> op, ref |-> found, at |-> clock']]
  /\ UNCHANGED <<ticket, lines, moved, counted, since>>

----------------------------------------------------------------------------
(* Writes.  The row is changed and the delivery commits; an exception (the
   unique index on open tables) rolls the op back and changes nothing. *)

\* ticket_open_table: UNIQUE (table_no, split) WHERE status = 'open'.  A NULL clashes with nothing.
Taken(label, but) == label # Nil /\ \E u \in OpenTickets \ {but} : ticket[u].table = label

Fresh == CHOOSE t \in Ticket : ticket[t].status = "none"

\* openTicket: the ticket found, its party raised, or a new one.
Opened(s, status) ==
  LET m == session[s] IN
  IF m.ref # New
  THEN [ticket EXCEPT ![m.ref].party = IF m.op.ticket = Nil THEN Max({@, m.op.party}) ELSE @,
                      ![m.ref].status = IF status = "held" THEN "held" ELSE @]
  ELSE [ticket EXCEPT ![Fresh] = Row(status, m.op.table, m.op.party, m.at)]

Target(s) == IF session[s].ref = New THEN Fresh ELSE session[s].ref

\* The INSERT clashes when another delivery opened the table first.
Clashes(s) == session[s].ref = New /\ Taken(session[s].op.table, Nil)

SeatWalkin(s) ==
  /\ session[s].kind = "seat_walkin"
  /\ ticket' = IF Clashes(s) THEN ticket ELSE Opened(s, "open")
  /\ UNCHANGED <<lines, moved, counted>>

\* ON CONFLICT (ticket_id, client_id) DO UPDATE: the quantity; void_at stays.
AddLine(s) ==
  /\ session[s].kind = "add_line"
  /\ IF session[s].ref = Nil \/ Clashes(s) THEN UNCHANGED <<ticket, lines>>
     ELSE /\ ticket' = Opened(s, "open")
          /\ lines' = [lines EXCEPT ![Target(s)][session[s].op.lid] = IF @ = "no" THEN "live" ELSE @]
  /\ UNCHANGED <<moved, counted>>

VoidLine(s) ==
  /\ session[s].kind = "void_line"
  /\ lines' = IF session[s].ref = Nil THEN lines
              ELSE [lines EXCEPT ![session[s].ref][session[s].op.lid] = "void"]
  /\ UNCHANGED <<ticket, moved, counted>>

\* UPDATE ticket SET status = 'held' WHERE id = $1
ParkBill(s) ==
  /\ session[s].kind = "park_bill"
  /\ ticket' = IF session[s].ref = Nil \/ Clashes(s) THEN ticket ELSE Opened(s, "held")
  /\ UNCHANGED <<lines, moved, counted>>

ResumeBill(s) ==
  LET t == session[s].ref IN
  /\ session[s].kind = "resume_bill"
  /\ ticket' = IF t # Nil /\ ticket[t].status = "held" /\ ~ Taken(ticket[t].table, t)
               THEN [ticket EXCEPT ![t].status = "open"] ELSE ticket
  /\ UNCHANGED <<lines, moved, counted>>

\* close_ticket, and the sale's own closing of the bill it settled.
CloseTicket(s) ==
  LET t == session[s].ref IN
  /\ session[s].kind \in {"close_ticket", "sale"}
  /\ ticket' = IF t # Nil /\ ticket[t].status \in {"open", "held"}
               THEN [ticket EXCEPT ![t].status = "closed", ![t].closedAt = clock] ELSE ticket
  /\ UNCHANGED <<lines, moved, counted>>

\* Mutant: last write wins by arrival.
BeatsAlways(lamport, stamp) == TRUE

\* An op without a lamport, from a till older than the stamps, always wins and stamps nothing.
Beats(lamport, stamp) == lamport = 0 \/ stamp < lamport

MoveTable(s) ==
  LET t == session[s].ref
      op == session[s].op
      reached == t # Nil /\ ticket[t].status = "open" /\ ~ Taken(op.to, t)
  IN
  /\ session[s].kind = "move_table"
  /\ ticket' = IF reached /\ Beats(op.lamport, ticket[t].tableStamp)
               THEN [ticket EXCEPT ![t].table = op.to,
                                   ![t].tableStamp = IF op.lamport = 0 THEN @ ELSE op.lamport]
               ELSE ticket
  /\ moved' = IF reached THEN [moved EXCEPT ![t] = @ \cup {<<op.lamport, op.to>>}] ELSE moved
  /\ UNCHANGED <<lines, counted>>

CoversUpdate(s) ==
  LET t == session[s].ref
      op == session[s].op
      reached == t # Nil /\ ticket[t].status # "none"
  IN
  /\ session[s].kind = "covers_update"
  /\ ticket' = IF reached /\ Beats(op.lamport, ticket[t].partyStamp)
               THEN [ticket EXCEPT ![t].party = op.party,
                                   ![t].partyStamp = IF op.lamport = 0 THEN @ ELSE op.lamport]
               ELSE ticket
  /\ counted' = IF reached THEN [counted EXCEPT ![t] = @ \cup {<<op.lamport, op.party>>}] ELSE counted
  /\ UNCHANGED <<lines, moved>>

Write(s) ==
  /\ session[s] # Idle
  /\ \/ SeatWalkin(s) \/ AddLine(s) \/ VoidLine(s) \/ ParkBill(s) \/ ResumeBill(s)
     \/ CloseTicket(s) \/ MoveTable(s) \/ CoversUpdate(s)
  /\ session' = [session EXCEPT ![s] = Idle]
  /\ since' = [t \in Ticket |-> IF /\ ticket'[t].status = "open"
                                   /\ \/ ticket[t].status # "open"
                                      \/ ticket[t].table # ticket'[t].table
                                THEN clock ELSE since[t]]
  /\ UNCHANGED clock

Next == \E s \in Session : (\E op \in Ops : Begin(s, op)) \/ Write(s)

Spec == Init /\ [][Next]_vars

----------------------------------------------------------------------------
(* Properties *)

RowType == [status : {"none", "open", "held", "closed"}, table : Label \cup {Nil}, party : Nat,
            at : 0..MaxOps, tableStamp : Nat, partyStamp : Nat, closedAt : 0..MaxOps]

\* Every variable has its type, and a closed ticket has its time (constraint closed_has_time).
TypeOK ==
  /\ ticket \in [Ticket -> RowType]
  /\ \A t \in Ticket : ticket[t].status = "closed" => ticket[t].closedAt # 0
  /\ lines \in [Ticket -> [Lid -> {"no", "live", "void"}]]
  /\ \A s \in Session :
       session[s] # Idle => session[s].kind \in Kind /\ session[s].ref \in Ticket \cup {Nil, New}
  /\ clock \in 0..MaxOps /\ since \in [Ticket -> 0..MaxOps]

\* The value of the latest of a set of edits, unless a till without a clock made one of them.
IsLatest(edits, value) ==
  (edits # {} /\ \A e \in edits : e[1] # 0)
    => \E e \in edits : e[2] = value /\ \A f \in edits : f[1] <= e[1]

\* A ticket is at the table the causally latest of its moves named, in whatever order, and by
\* however many deliveries at once, the moves reached the outlet (move_table's own stamp).
TableIsLatest == \A t \in Ticket : IsLatest(moved[t], ticket[t].table)

\* The same of the covers, "an edit applies only when its own lamport beats its field's", but
\* for the larger party a line, a seating or a parking may carry: openTicket takes the greater
\* and stamps nothing.
Carried ==
  {op.party : op \in {o \in Ops : o.kind \in {"seat_walkin", "add_line", "park_bill"}}}

CoversAreLatest ==
  \A t \in Ticket :
    \/ IsLatest(counted[t], ticket[t].party)
    \/ ticket[t].party \in Carried /\ \E e \in counted[t] : /\ e[2] < ticket[t].party
                                                         /\ IsLatest(counted[t], e[2])

Wrote(s) == session[s] # Idle /\ session'[s] = Idle

\* However a till spells a table, a delivery opens a second bill at it only if the first was
\* opened, moved or resumed there while the delivery was under way.
NoSecondBill ==
  \A s \in Session :
    Wrote(s) /\ session[s].ref = New /\ session[s].op.table # Nil /\ ticket' # ticket
      => \A t \in OpenTickets :
           ticket[t].table # Nil /\ Key[ticket[t].table] = Key[session[s].op.table]
             => since[t] >= session[s].at

\* A delivery that begins after a ticket was closed changes neither its state, nor its table,
\* nor its lines: the late replay is superseded, by id or by table.
LateReplaySuperseded ==
  \A t \in Ticket :
    /\ ticket[t].status = "closed"
    /\ \/ ticket'[t].status # "closed"
       \/ ticket'[t].table # ticket[t].table
       \/ lines'[t] # lines[t]
    => \E s \in Session : Wrote(s) /\ session[s].at <= ticket[t].closedAt

\* A voided line stays voided, also when an earlier edit of it arrives late.
VoidIsFinal ==
  \A t \in Ticket, l \in Lid : lines[t][l] = "void" => lines'[t][l] = "void"

\* Where a bill is and how many sit at it is what was last said of it, as devices count time,
\* not as their deliveries arrive.
LastWriterWins == TableIsLatest /\ CoversAreLatest

\* No delivery doubles a bill it could see, changes one that was closed before it began, or
\* brings back a line that was voided.
BillsAreKept == [][NoSecondBill /\ LateReplaySuperseded /\ VoidIsFinal]_vars
=============================================================================
