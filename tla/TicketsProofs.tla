--------------------------- MODULE TicketsProofs ---------------------------
(***************************************************************************)
(* What the ticket handlers keep, for any deliveries between lookup and    *)
(* write, any ops, tickets, lines and spellings: last write wins by the    *)
(* lamport, a second bill only in a race, what begins after a closing is   *)
(* superseded, and a void is final.                                        *)
(***************************************************************************)
EXTENDS Tickets, FiniteSetTheorems, WellFoundedInduction, TLAPS

-----------------------------------------------------------------------------
(* The invariant.                                                          *)

Busy == [kind : Kind, op : Ops, ref : Ticket \cup {Nil, New}, at : Nat]

\* The kinds that may open a ticket, and those that change a ticket by the lookup's word alone.
Opening == {"seat_walkin", "add_line", "park_bill"}
Trusting == Opening \cup {"void_line"}

Shape ==
  /\ TypeOK
  /\ session \in [Session -> {Idle} \cup Busy]
  /\ moved \in [Ticket -> SUBSET (Nat \X Label)]
  /\ counted \in [Ticket -> SUBSET (Nat \X Nat)]

\* An op in hand is of its kind, and came when no other did.
InHand(s) ==
  /\ session[s].kind = session[s].op.kind /\ session[s].at \in 1..clock
  /\ session[s].ref = New => session[s].kind \in Opening
  /\ session[s].ref = Nil => session[s].kind # "seat_walkin"
  /\ \A u \in Session \ {s} : session[u] = Idle \/ session[u].at # session[s].at
  /\ \A t \in Ticket : ticket[t].status = "none" \/ ticket[t].at # session[s].at

\* Each ticket was opened by an op of its own.
OpenedApart ==
  /\ \A t \in Ticket : ticket[t].status # "none" => ticket[t].at \in 1..clock
  /\ \A t, u \in Ticket : t # u => \/ ticket[t].status = "none" \/ ticket[u].status = "none"
                                   \/ ticket[t].at # ticket[u].at

\* A ticket nobody opened has no history.
Blank(t) ==
  ticket[t].status = "none" => /\ moved[t] = {} /\ counted[t] = {}
                               /\ ticket[t].tableStamp = 0 /\ ticket[t].partyStamp = 0

AllStamped(edits) == \A e \in edits : e[1] # 0
Latest(edits, e) == \A f \in edits : f[1] <= e[1]

\* The stamp is that of the latest edit, and the field says what that edit said.
TableSaid(t) ==
  AllStamped(moved[t]) =>
    \/ moved[t] = {} /\ ticket[t].tableStamp = 0
    \/ \E e \in moved[t] : /\ e[1] = ticket[t].tableStamp /\ e[2] = ticket[t].table
                           /\ Latest(moved[t], e)

CoversSaid(t) ==
  AllStamped(counted[t]) =>
    \/ counted[t] = {} /\ ticket[t].partyStamp = 0
    \/ \E e \in counted[t] :
         /\ e[1] = ticket[t].partyStamp /\ Latest(counted[t], e)
         /\ \/ e[2] = ticket[t].party
            \/ ticket[t].party \in Carried /\ e[2] < ticket[t].party

\* A bill that is open where a delivery found none came there after it looked.
Watched(s) ==
  session[s].ref = New /\ session[s].op.table # Nil =>
    \A t \in OpenTickets :
      ticket[t].table # Nil /\ Key[ticket[t].table] = Key[session[s].op.table]
        => since[t] >= session[s].at

\* What a delivery found and means to change was live when it looked.
Found(s) ==
  session[s].kind \in Trusting /\ session[s].ref \in Ticket =>
    /\ ticket[session[s].ref].status # "none"
    /\ ticket[session[s].ref].status = "closed" =>
         session[s].at <= ticket[session[s].ref].closedAt

Inv ==
  /\ Shape /\ OpenedApart
  /\ \A s \in Session : session[s] # Idle => InHand(s) /\ Watched(s) /\ Found(s)
  /\ \A t \in Ticket : Blank(t) /\ TableSaid(t) /\ CoversSaid(t)

-----------------------------------------------------------------------------
(* The lookups.                                                            *)

LEMMA InitInv == Init => Inv
  <1> SUFFICES ASSUME Init PROVE Inv
    OBVIOUS
  <1>1. Shape
    BY SpellingAssumption, BoundAssumption DEF Init, Shape, TypeOK, RowType, Row, Busy
  <1>2. OpenedApart /\ \A s \in Session : session[s] = Idle
    BY DEF Init, OpenedApart, Row
  <1>3. \A t \in Ticket : Blank(t) /\ TableSaid(t) /\ CoversSaid(t)
    BY DEF Init, Blank, TableSaid, CoversSaid, Row
  <1> QED BY <1>1, <1>2, <1>3 DEF Inv

\* Of some tickets one was opened last.
LEMMA Newest ==
  ASSUME Shape, NEW S \in SUBSET Ticket, S # {}
  PROVE  \E t \in S : \A u \in S : ticket[u].at <= ticket[t].at
  <1> DEFINE R == OpToRel(<, Nat)
             Age(t) == MaxOps - ticket[t].at
             T == {Age(t) : t \in S}
  <1>1. \A t \in S : ticket[t].at \in Nat /\ ticket[t].at <= MaxOps
    BY BoundAssumption DEF Shape, TypeOK, RowType
  <1>2. T \subseteq Nat /\ T # {}
    BY <1>1, BoundAssumption
  <1>3. IsWellFoundedOn(R, Nat)
    BY NatLessThanWellFounded, Zenon
  <1>4. PICK x \in T : \A y \in T : ~(<<y, x>> \in R)
    <2> HIDE DEF R, T
    <2> QED BY <1>2, <1>3, WFMin
  <1>5. \A y \in T : ~(y < x)
    BY <1>2, <1>4 DEF OpToRel
  <1>6. PICK t \in S : x = Age(t)
    BY <1>4
  <1>7. \A u \in S : ~(Age(u) < Age(t))
    BY <1>5, <1>6
  <1> QED BY <1>1, <1>7, BoundAssumption

LEMMA NamedFinds ==
  ASSUME Shape, NEW S \in SUBSET Ticket, NEW label
  PROVE  LET hits == {t \in S : ticket[t].table # Nil /\ Key[ticket[t].table] = Key[label]}
         IN  /\ Named(S, label) \in hits \cup {Nil}
             /\ Named(S, label) = Nil => hits = {}
  <1> DEFINE hits == {t \in S : ticket[t].table # Nil /\ Key[ticket[t].table] = Key[label]}
             exact == {t \in hits : ticket[t].table = label}
             best == IF exact # {} THEN exact ELSE hits
  <1>1. CASE hits = {}
    BY <1>1 DEF Named
  <1>2. CASE hits # {}
    <2>1. best \in SUBSET Ticket /\ best # {} /\ best \subseteq hits
      BY <1>2
    <2>2. \E t \in best : \A u \in best : ticket[u].at <= ticket[t].at
      <3> HIDE DEF best
      <3> QED BY <2>1, Newest
    <2>3. Named(S, label) \in best
      <3>1. Named(S, label) = CHOOSE t \in best : \A u \in best : ticket[u].at <= ticket[t].at
        BY <1>2 DEF Named
      <3> HIDE DEF best
      <3> QED BY <2>2, <3>1
    <2>4. Nil \notin Ticket
      BY SpellingAssumption
    <2> QED BY <2>1, <2>3, <2>4
  <1> QED BY <1>1, <1>2

LEMMA LookupsFind ==
  ASSUME Inv, NEW o \in Ops, NEW found \in Lookups(o)
  PROVE  /\ found \in Ticket \cup {Nil, New}
         /\ found = New => o.kind \in Opening
         /\ found = Nil => o.kind # "seat_walkin"
         /\ o.kind \in Trusting /\ found \in Ticket => found \in Live
         /\ found = New /\ o.table # Nil =>
              \A t \in OpenTickets : ~(ticket[t].table # Nil /\ Key[ticket[t].table] = Key[o.table])
  <1>1. /\ Live \in SUBSET Ticket /\ OpenTickets \in SUBSET Ticket /\ OpenTickets \subseteq Live
        /\ Shape /\ Nil # New /\ Nil \notin Ticket /\ New \notin Ticket
        /\ o.kind \in Kind /\ o.ticket \in Ticket \cup {Nil}
    BY SpellingAssumption, OpAssumption DEF Live, OpenTickets, Inv
  <1>2. Named(Live, o.table) \in Live \cup {Nil} /\ Named(OpenTickets, o.table) \in OpenTickets \cup {Nil}
    BY <1>1, NamedFinds, Zenon
  <1>3. Named(OpenTickets, o.table) = Nil =>
          \A t \in OpenTickets : ~(ticket[t].table # Nil /\ Key[ticket[t].table] = Key[o.table])
    BY <1>1, NamedFinds
  <1>4. OpenTicket(o) \in OpenTickets \cup {New}
        /\ (OpenTicket(o) = New /\ o.table # Nil => Named(OpenTickets, o.table) = Nil)
    BY <1>1, <1>2 DEF OpenTicket
  <1>5. TicketRef(o) \in Ticket \cup {Nil}
    BY <1>1, <1>2 DEF TicketRef
  <1>6. CASE o.kind = "seat_walkin"
    BY <1>1, <1>3, <1>4, <1>6 DEF Lookups, Opening, Trusting
  <1>7. CASE o.kind \in {"add_line", "park_bill"}
    <2>1. found = TicketFor(o)
      BY <1>7 DEF Lookups
    <2> QED BY <1>1, <1>3, <1>4, <1>7, <2>1 DEF TicketFor, Opening, Trusting
  <1>8. CASE o.kind = "void_line"
    <2>1. found \in Live \cup {Nil}
      BY <1>1, <1>8 DEF Lookups, LineOf
    <2> QED BY <1>1, <1>8, <2>1 DEF Opening, Trusting
  <1>9. CASE o.kind \notin Trusting
    <2>1. found = TicketRef(o)
      BY <1>1, <1>9 DEF Lookups, Trusting, Opening, Kind
    <2> QED BY <1>1, <1>5, <1>9, <2>1 DEF Opening, Trusting
  <1> QED BY <1>6, <1>7, <1>8, <1>9 DEF Opening, Trusting

LEMMA BeginInv == ASSUME Inv, NEW s \in Session, NEW o \in Ops, Begin(s, o) PROVE Inv'
  <1>1. PICK found \in Lookups(o) :
          session' = [session EXCEPT ![s] = [kind |-> o.kind, op |-> o, ref |-> found, at |-> clock']]
    BY DEF Begin
  <1> DEFINE m == [kind |-> o.kind, op |-> o, ref |-> found, at |-> clock']
  <1>2. /\ session[s] = Idle /\ clock < MaxOps /\ clock' = clock + 1
        /\ UNCHANGED <<ticket, lines, moved, counted, since>>
    BY DEF Begin
  <1>3. /\ found \in Ticket \cup {Nil, New}
        /\ found = New => o.kind \in Opening
        /\ found = Nil => o.kind # "seat_walkin"
        /\ o.kind \in Trusting /\ found \in Ticket => found \in Live
        /\ found = New /\ o.table # Nil =>
              \A t \in OpenTickets : ~(ticket[t].table # Nil /\ Key[ticket[t].table] = Key[o.table])
    BY LookupsFind
  <1>4. Shape /\ clock \in 0..MaxOps /\ clock \in Nat /\ clock' \in 0..MaxOps /\ clock' \in Nat
    BY <1>2, BoundAssumption DEF Inv, Shape, TypeOK
  <1>5. m \in Busy /\ m # Idle /\ m.kind \in Kind /\ m.at = clock + 1
        /\ m.kind = o.kind /\ m.op = o /\ m.ref = found
    <2>1. o.kind \in Kind
      BY OpAssumption
    <2>2. m.kind = o.kind /\ m.op = o /\ m.ref = found /\ m.at = clock + 1
      BY <1>2
    <2>3. m \in Busy
      BY <1>3, <1>4, <2>1 DEF Busy
    <2>4. m.kind # Idle.kind
      BY <2>1, <2>2 DEF Idle, Kind
    <2> HIDE DEF m
    <2> QED BY <2>1, <2>2, <2>3, <2>4
  <1> HIDE DEF m
  <1>6. session' = [session EXCEPT ![s] = m]
    BY <1>1 DEF m
  <1>7. session'[s] = m /\ \A u \in Session \ {s} : session'[u] = session[u]
    BY <1>4, <1>6 DEF Shape
  <1>8. Shape'
    <2>1. session' \in [Session -> {Idle} \cup Busy]
      BY <1>4, <1>5, <1>6 DEF Shape
    <2>2. TypeOK'
      <3>1. ASSUME NEW u \in Session, session'[u] # Idle
            PROVE  session'[u].kind \in Kind /\ session'[u].ref \in Ticket \cup {Nil, New}
        <4>1. CASE u = s
          BY <1>3, <1>5, <1>7, <4>1
        <4>2. CASE u # s
          BY <1>4, <1>7, <3>1, <4>2 DEF Shape, TypeOK
        <4> QED BY <4>1, <4>2
      <3> QED BY <1>2, <1>4, <3>1 DEF Shape, TypeOK, RowType
    <2> QED BY <1>2, <1>4, <2>1, <2>2 DEF Shape
  <1>9. OpenedApart' /\ \A t \in Ticket : Blank(t)' /\ TableSaid(t)' /\ CoversSaid(t)'
    <2>1. \A t \in Ticket : Blank(t)' /\ TableSaid(t)' /\ CoversSaid(t)'
      BY <1>2 DEF Inv, Blank, TableSaid, CoversSaid
    <2>2. OpenedApart'
      BY <1>2, <1>4 DEF Inv, OpenedApart
    <2> QED BY <2>1, <2>2
  <1>10. InHand(s)' /\ Watched(s)' /\ Found(s)'
    <2>1. \A u \in Session \ {s} : session[u] = Idle \/ session[u].at \in 1..clock
      BY DEF Inv, InHand
    <2>2. \A t \in Ticket : ticket[t].status = "none" \/ ticket[t].at \in 1..clock
      BY DEF Inv, OpenedApart
    <2>3. InHand(s)'
      BY <1>2, <1>3, <1>4, <1>5, <1>7, <2>1, <2>2 DEF InHand
    <2>4. Watched(s)'
      BY <1>2, <1>3, <1>5, <1>7 DEF Watched, OpenTickets
    <2>5. Found(s)'
      BY <1>2, <1>3, <1>5, <1>7 DEF Found, Live
    <2> QED BY <2>3, <2>4, <2>5
  <1>11. ASSUME NEW u \in Session \ {s}, session[u] # Idle PROVE InHand(u)' /\ Watched(u)' /\ Found(u)'
    <2>1. InHand(u) /\ Watched(u) /\ Found(u) /\ session'[u] = session[u]
      BY <1>7, <1>11 DEF Inv
    <2>2. InHand(u)'
      BY <1>2, <1>4, <1>5, <1>7, <2>1 DEF InHand
    <2> QED BY <1>2, <2>1, <2>2 DEF Watched, Found, OpenTickets
  <1> QED BY <1>7, <1>8, <1>9, <1>10, <1>11 DEF Inv

-----------------------------------------------------------------------------
(* The rows a write changes.                                               *)

\* The ticket an INSERT opens is one nobody opened.
LEMMA FreshIsNew ==
  ASSUME Inv, NEW s \in Session, session[s] # Idle
  PROVE  Fresh \in Ticket /\ ticket[Fresh].status = "none"
  <1>1. SUFFICES ASSUME \A t \in Ticket : ticket[t].status # "none" PROVE FALSE
    BY DEF Fresh
  <1> DEFINE T == (1..clock) \ {session[s].at}
             f == [t \in Ticket |-> ticket[t].at]
  <1>2. clock \in Nat /\ clock <= MaxOps /\ session[s].at \in 1..clock
    BY BoundAssumption DEF Inv, InHand, Shape, TypeOK
  <1>3. f \in [Ticket -> T]
    BY <1>1 DEF Inv, InHand, OpenedApart
  <1>4. IsFiniteSet(1..clock) /\ Cardinality(1..clock) = clock
    BY <1>2, FS_Interval
  <1>5. IsFiniteSet(T) /\ Cardinality(T) = clock - 1
    BY <1>2, <1>4, FS_RemoveElement
  <1>6. IsFiniteSet(Ticket) /\ Cardinality(T) < Cardinality(Ticket)
    BY <1>2, <1>5, BoundAssumption, FS_CardinalityType
  <1>7. \E t, u \in Ticket : t # u /\ f[t] = f[u]
    <2> HIDE DEF f, T
    <2> QED BY <1>3, <1>5, <1>6, FS_PigeonHole
  <1> QED BY <1>1, <1>7 DEF Inv, OpenedApart

Born(s, t) ==
  /\ session[s].ref = New /\ t = Fresh /\ ticket[t].status = "none"
  /\ \E status \in {"open", "held"} :
       ticket'[t] = Row(status, session[s].op.table, session[s].op.party, session[s].at)

Steady(t) ==
  /\ ticket'[t].at = ticket[t].at
  /\ ticket[t].status = "none" <=> ticket'[t].status = "none"
  /\ ticket'[t].status = "closed" =>
       /\ ticket'[t].closedAt # 0
       /\ \/ ticket'[t].closedAt = clock
          \/ ticket[t].status = "closed" /\ ticket'[t].closedAt = ticket[t].closedAt

\* What became of ticket t when s wrote.
Kept(s, t) ==
  /\ Born(s, t) \/ Steady(t)
  /\ Blank(t)' /\ TableSaid(t)' /\ CoversSaid(t)'
  /\ /\ ticket[t].status = "closed"
     /\ ticket'[t].status # "closed" \/ ticket'[t].table # ticket[t].table
     => session[s].at <= ticket[t].closedAt

Typed == /\ ticket' \in [Ticket -> RowType]
         /\ moved' \in [Ticket -> SUBSET (Nat \X Label)]
         /\ counted' \in [Ticket -> SUBSET (Nat \X Nat)]

RowsKept(s) == Typed /\ \A t \in Ticket : Kept(s, t)

LEMMA SameRow ==
  ASSUME Inv, NEW s \in Session, NEW t \in Ticket, ticket'[t] = ticket[t],
         moved'[t] = moved[t], counted'[t] = counted[t]
  PROVE  Kept(s, t)
  <1>1. ticket[t].status = "closed" => ticket[t].closedAt # 0
    BY DEF Inv, Shape, TypeOK
  <1>2. Steady(t)
    BY <1>1 DEF Steady
  <1> QED BY <1>2 DEF Inv, Kept, Blank, TableSaid, CoversSaid

LEMMA SameRows ==
  ASSUME Inv, NEW s \in Session, UNCHANGED <<ticket, moved, counted>> PROVE RowsKept(s)
  <1>1. \A t \in Ticket : Kept(s, t)
    BY SameRow
  <1>2. Typed
    BY DEF Inv, Shape, TypeOK, Typed
  <1> QED BY <1>1, <1>2 DEF RowsKept

\* openTicket finds no row.
LEMMA OpenedNew ==
  ASSUME Inv, NEW s \in Session, session[s] # Idle, session[s].ref = New,
         NEW status \in {"open", "held"}, ticket' = Opened(s, status), UNCHANGED <<moved, counted>>
  PROVE  RowsKept(s)
  <1> DEFINE m == session[s]
  <1>1. PICK r : r = Row(status, m.op.table, m.op.party, m.at)
    OBVIOUS
  <1>2. PICK z \in Ticket : z = Fresh /\ ticket[z].status = "none"
    BY FreshIsNew
  <1>3. ticket' = [ticket EXCEPT ![z] = r]
    BY <1>1, <1>2 DEF Opened
  <1>4. /\ r \in RowType /\ r.table = m.op.table /\ r.status = status /\ r.tableStamp = 0
        /\ r.partyStamp = 0
    <2>1. m \in Busy /\ m.at \in 0..MaxOps
      BY BoundAssumption DEF Inv, InHand, Shape, TypeOK
    <2>2. m.op.table \in Label \cup {Nil} /\ m.op.party \in Nat
      BY <2>1, OpAssumption DEF Busy
    <2> QED BY <1>1, <2>1, <2>2, BoundAssumption DEF Row, RowType
  <1>5. ticket'[z] = r /\ \A t \in Ticket \ {z} : ticket'[t] = ticket[t]
    BY <1>3 DEF Inv, Shape, TypeOK
  <1>6. Kept(s, z)
    <2>1. Born(s, z)
      BY <1>1, <1>2, <1>5 DEF Born
    <2>2. moved'[z] = {} /\ counted'[z] = {}
      BY <1>2 DEF Inv, Blank
    <2>3. ticket'[z].tableStamp = 0 /\ ticket'[z].partyStamp = 0
      BY <1>4, <1>5
    <2>4. Blank(z)' /\ TableSaid(z)' /\ CoversSaid(z)'
      BY <2>2, <2>3 DEF Blank, TableSaid, CoversSaid
    <2> QED BY <1>2, <2>1, <2>4 DEF Kept
  <1>7. Typed
    BY <1>3, <1>4 DEF Inv, Shape, TypeOK, Typed
  <1> QED BY <1>5, <1>6, <1>7, SameRow DEF RowsKept

\* openTicket, or ticketFor, finds one: its party is raised, and a parked bill is held.
LEMMA OpenedFound ==
  ASSUME Inv, NEW s \in Session, session[s] # Idle, session[s].ref \in Ticket,
         session[s].kind \in Opening,
         NEW status \in {"open", "held"}, ticket' = Opened(s, status), UNCHANGED <<moved, counted>>
  PROVE  RowsKept(s)
  <1>0. PICK t \in Ticket : t = session[s].ref
    OBVIOUS
  <1> DEFINE m == session[s]
             old == ticket[t]
  <1>1. PICK p, x : /\ p = IF m.op.ticket = Nil THEN Max({old.party, m.op.party}) ELSE old.party
                    /\ x = IF status = "held" THEN "held" ELSE old.status
    OBVIOUS
  <1>2. t # New /\ m.ref = t
    BY <1>0, SpellingAssumption
  <1>3. ticket' = [ticket EXCEPT ![t].party = p, ![t].status = x]
    BY <1>1, <1>2 DEF Opened
  <1>4. m \in Busy /\ old \in RowType /\ m.kind = m.op.kind /\ m.op \in Ops
        /\ m.op.party \in Nat /\ old.party \in Nat
    <2>1. m \in Busy /\ old \in RowType /\ m.kind = m.op.kind
      BY DEF Inv, InHand, Shape, TypeOK
    <2> QED BY <2>1, OpAssumption DEF Busy, RowType
  <1>5. p \in Nat /\ (p = old.party \/ (p \in Carried /\ p > old.party))
    <2>1. Max({old.party, m.op.party}) \in {old.party, m.op.party}
          /\ Max({old.party, m.op.party}) >= old.party
      <3>1. \E y \in {old.party, m.op.party} : \A z \in {old.party, m.op.party} : y >= z
        BY <1>4
      <3> QED BY <1>4, <3>1 DEF Max
    <2>2. m.op.party \in Carried
      BY <1>4 DEF Carried, Opening
    <2>3. CASE m.op.ticket = Nil
      <3>1. p = Max({old.party, m.op.party})
        BY <1>1, <2>3
      <3>2. p \in {old.party, m.op.party} /\ p >= old.party
        BY <2>1, <3>1
      <3> QED BY <1>4, <2>2, <3>2
    <2>4. CASE m.op.ticket # Nil
      BY <1>1, <1>4, <2>4
    <2> QED BY <2>3, <2>4
  <1>6. old.status # "none" /\ (old.status = "closed" => m.at <= old.closedAt)
    BY <1>2 DEF Inv, Found, Trusting
  <1>7. x \in {"held", old.status} /\ x # "none" /\ x \in {"none", "open", "held", "closed"}
    BY <1>1, <1>4, <1>6 DEF RowType
  <1> HIDE DEF old, m
  <1>8. Typed
    <2>1. PICK v : v = [old EXCEPT !.party = p, !.status = x]
      OBVIOUS
    <2>2. v \in RowType
      BY <1>4, <1>5, <1>7, <2>1 DEF RowType
    <2>3. ticket' = [ticket EXCEPT ![t] = v]
      BY <1>3, <2>1 DEF Inv, Shape, TypeOK, old
    <2> QED BY <2>2, <2>3 DEF Inv, Shape, TypeOK, Typed
  <1>9. /\ \A u \in Ticket \ {t} : ticket'[u] = ticket[u]
        /\ ticket'[t].party = p /\ ticket'[t].status = x /\ ticket'[t].at = old.at
        /\ ticket'[t].table = old.table /\ ticket'[t].tableStamp = old.tableStamp
        /\ ticket'[t].partyStamp = old.partyStamp /\ ticket'[t].closedAt = old.closedAt
    BY <1>2, <1>3 DEF Inv, Shape, TypeOK, RowType, old
  <1>10. Kept(s, t)
    <2>1. Steady(t)
      BY <1>2, <1>6, <1>7, <1>9 DEF Steady, Inv, Shape, TypeOK, old
    <2>2. Blank(t)' /\ TableSaid(t)'
      BY <1>2, <1>7, <1>9 DEF Inv, Blank, TableSaid, old
    <2>3. CoversSaid(t)'
      <3>1. SUFFICES ASSUME AllStamped(counted[t]), counted[t] # {}
                     PROVE  \E e \in counted[t] :
                              /\ e[1] = old.partyStamp /\ Latest(counted[t], e)
                              /\ e[2] = p \/ (p \in Carried /\ e[2] < p)
        BY <1>9 DEF Inv, CoversSaid, old
      <3>2. PICK e \in counted[t] :
              /\ e[1] = old.partyStamp /\ Latest(counted[t], e)
              /\ e[2] = old.party \/ (old.party \in Carried /\ e[2] < old.party)
        BY <3>1 DEF Inv, CoversSaid, old
      <3>3. e[2] \in Nat
        BY DEF Inv, Shape
      <3> QED BY <1>4, <1>5, <3>2, <3>3
    <2> QED BY <1>6, <2>1, <2>2, <2>3 DEF Kept, old, m
  <1> QED BY <1>2, <1>8, <1>9, <1>10, SameRow DEF RowsKept

\* A write to the row of one ticket, and to what is remembered of it.
LEMMA OneRow ==
  ASSUME Inv, NEW s \in Session, NEW t \in Ticket, NEW r \in RowType,
         ticket' = [ticket EXCEPT ![t] = r],
         NEW a \in SUBSET (Nat \X Label), moved' = [moved EXCEPT ![t] = a],
         NEW b \in SUBSET (Nat \X Nat), counted' = [counted EXCEPT ![t] = b],
         ticket'[t] = r /\ moved'[t] = a /\ counted'[t] = b => Kept(s, t)
  PROVE  RowsKept(s)
  <1>1. Typed /\ ticket'[t] = r /\ moved'[t] = a /\ counted'[t] = b
    BY DEF Inv, Shape, TypeOK, Typed
  <1>2. \A u \in Ticket \ {t} :
          ticket'[u] = ticket[u] /\ moved'[u] = moved[u] /\ counted'[u] = counted[u]
    BY DEF Inv, Shape, TypeOK
  <1> QED BY <1>1, <1>2, SameRow DEF RowsKept

LEMMA ResumeRows ==
  ASSUME Inv, NEW s \in Session, session[s] # Idle, ResumeBill(s) PROVE RowsKept(s)
  <1>1. CASE UNCHANGED ticket
    BY <1>1, SameRows DEF ResumeBill
  <1>2. CASE ~UNCHANGED ticket
    <2>1. PICK t \in Ticket : /\ ticket[t].status = "held"
                             /\ ticket' = [ticket EXCEPT ![t].status = "open"]
      BY <1>2, SpellingAssumption DEF ResumeBill, Inv, Shape, TypeOK
    <2>2. PICK r : r = [ticket[t] EXCEPT !.status = "open"]
      OBVIOUS
    <2>3. /\ ticket[t] \in RowType /\ moved[t] \in SUBSET (Nat \X Label)
          /\ counted[t] \in SUBSET (Nat \X Nat)
      BY DEF Inv, Shape, TypeOK
    <2>4. /\ r \in RowType /\ r.status = "open" /\ r.at = ticket[t].at
          /\ r.table = ticket[t].table /\ r.party = ticket[t].party
          /\ r.tableStamp = ticket[t].tableStamp /\ r.partyStamp = ticket[t].partyStamp
      BY <2>2, <2>3 DEF RowType
    <2>5. /\ ticket' = [ticket EXCEPT ![t] = r] /\ moved' = [moved EXCEPT ![t] = moved[t]]
          /\ counted' = [counted EXCEPT ![t] = counted[t]]
      BY <2>1, <2>2 DEF ResumeBill, Inv, Shape
    <2>6. ASSUME ticket'[t] = r, moved'[t] = moved[t], counted'[t] = counted[t] PROVE Kept(s, t)
      <3>1. Steady(t)
        BY <2>1, <2>4, <2>6 DEF Steady
      <3> QED BY <2>1, <2>4, <2>6, <3>1 DEF Kept, Inv, Blank, TableSaid, CoversSaid
    <2> QED BY <2>3, <2>4, <2>5, <2>6, OneRow
  <1> QED BY <1>1, <1>2

LEMMA CloseRows ==
  ASSUME Inv, NEW s \in Session, session[s] # Idle, CloseTicket(s) PROVE RowsKept(s)
  <1>1. CASE UNCHANGED ticket
    BY <1>1, SameRows DEF CloseTicket
  <1>2. CASE ~UNCHANGED ticket
    <2>1. PICK t \in Ticket :
            /\ ticket[t].status \in {"open", "held"}
            /\ ticket' = [ticket EXCEPT ![t].status = "closed", ![t].closedAt = clock]
      BY <1>2, SpellingAssumption DEF CloseTicket, Inv, Shape, TypeOK
    <2>2. PICK r, c : c = clock /\ r = [ticket[t] EXCEPT !.status = "closed", !.closedAt = c]
      OBVIOUS
    <2>3. /\ ticket[t] \in RowType /\ moved[t] \in SUBSET (Nat \X Label)
          /\ counted[t] \in SUBSET (Nat \X Nat) /\ c \in 0..MaxOps /\ c # 0
      BY <2>2, BoundAssumption DEF Inv, InHand, Shape, TypeOK
    <2>4. /\ r \in RowType /\ r.status = "closed" /\ r.at = ticket[t].at /\ r.closedAt = c
          /\ r.table = ticket[t].table /\ r.party = ticket[t].party
          /\ r.tableStamp = ticket[t].tableStamp /\ r.partyStamp = ticket[t].partyStamp
      BY <2>2, <2>3 DEF RowType
    <2>5. /\ ticket' = [ticket EXCEPT ![t] = r] /\ moved' = [moved EXCEPT ![t] = moved[t]]
          /\ counted' = [counted EXCEPT ![t] = counted[t]]
      BY <2>1, <2>2 DEF CloseTicket, Inv, Shape
    <2>6. ASSUME ticket'[t] = r, moved'[t] = moved[t], counted'[t] = counted[t] PROVE Kept(s, t)
      <3>1. Steady(t)
        BY <2>1, <2>2, <2>3, <2>4, <2>6 DEF Steady
      <3> QED BY <2>1, <2>4, <2>6, <3>1 DEF Kept, Inv, Blank, TableSaid, CoversSaid
    <2> QED BY <2>3, <2>4, <2>5, <2>6, OneRow
  <1> QED BY <1>1, <1>2

LEMMA MoveRows ==
  ASSUME Inv, NEW s \in Session, session[s] # Idle, MoveTable(s) PROVE RowsKept(s)
  <1> DEFINE o == session[s].op
  <1>1. /\ o \in Ops /\ o.lamport \in Nat /\ o.to \in Label
        /\ session[s].ref \in Ticket \cup {Nil}
    <2>1. session[s] \in Busy /\ o.kind = "move_table" /\ session[s].kind = "move_table"
      BY DEF Inv, InHand, Shape, MoveTable
    <2>2. session[s].ref # New
      BY <2>1 DEF Inv, InHand, Opening
    <2> QED BY <2>1, <2>2, OpAssumption DEF Busy
  <1>2. CASE UNCHANGED <<ticket, moved>>
    BY <1>2, SameRows DEF MoveTable
  <1>3. CASE ~UNCHANGED <<ticket, moved>>
    <2>1. PICK t \in Ticket : t = session[s].ref /\ ticket[t].status = "open"
      BY <1>1, <1>3 DEF MoveTable
    <2>2. PICK e : e = <<o.lamport, o.to>>
      OBVIOUS
    <2> DEFINE won == Beats(o.lamport, ticket[t].tableStamp)
               old == ticket[t]
    <2>3. PICK r, n : /\ n = IF o.lamport = 0 THEN old.tableStamp ELSE o.lamport
                     /\ r = IF won THEN [old EXCEPT !.table = o.to, !.tableStamp = n] ELSE old
      OBVIOUS
    <2>4. /\ old \in RowType /\ moved[t] \in SUBSET (Nat \X Label)
          /\ counted[t] \in SUBSET (Nat \X Nat) /\ old.tableStamp \in Nat
          /\ e \in Nat \X Label /\ e[1] = o.lamport /\ e[2] = o.to /\ n \in Nat
      <3>1. old \in RowType
        BY DEF Inv, Shape, TypeOK
      <3>2. old.tableStamp \in Nat
        BY <3>1 DEF RowType
      <3>3. e \in Nat \X Label /\ e[1] = o.lamport /\ e[2] = o.to
        BY <1>1, <2>2
      <3> QED BY <1>1, <2>3, <3>1, <3>2, <3>3 DEF Inv, Shape
    <2> HIDE DEF won, old, o
    <2>5. /\ r \in RowType /\ r.status = "open" /\ r.at = old.at
          /\ r.party = old.party /\ r.partyStamp = old.partyStamp
          /\ won => r.table = o.to /\ r.tableStamp = n
          /\ ~won => r.table = old.table /\ r.tableStamp = old.tableStamp
      BY <1>1, <2>1, <2>3, <2>4 DEF RowType, old
    <2>6. /\ ticket' = [ticket EXCEPT ![t] = r] /\ moved' = [moved EXCEPT ![t] = moved[t] \cup {e}]
          /\ counted' = [counted EXCEPT ![t] = counted[t]]
      <3>1. /\ moved' = [moved EXCEPT ![t] = moved[t] \cup {e}]
            /\ counted' = [counted EXCEPT ![t] = counted[t]]
        BY <1>3, <2>1, <2>2 DEF MoveTable, Inv, Shape, o
      <3>2. CASE won
        BY <1>3, <2>1, <2>3, <3>1, <3>2 DEF MoveTable, Inv, Shape, TypeOK, o, old, won
      <3>3. CASE ~won
        BY <1>3, <2>1, <2>3, <3>1, <3>3 DEF MoveTable, Inv, Shape, TypeOK, o, old, won
      <3> QED BY <3>1, <3>2, <3>3
    <2>7. ASSUME ticket'[t] = r, moved'[t] = moved[t] \cup {e}, counted'[t] = counted[t]
          PROVE  Kept(s, t)
      <3>1. Steady(t)
        BY <2>1, <2>5, <2>7 DEF Steady, old
      <3>2. Blank(t)' /\ CoversSaid(t)'
        BY <2>5, <2>7 DEF Inv, Blank, CoversSaid, old
      <3>3. TableSaid(t)'
        <4>1. SUFFICES ASSUME AllStamped(moved[t] \cup {e})
                       PROVE  \E f \in moved[t] \cup {e} :
                                /\ f[1] = r.tableStamp /\ f[2] = r.table
                                /\ Latest(moved[t] \cup {e}, f)
          BY <2>7 DEF TableSaid
        <4>2. o.lamport # 0 /\ n = o.lamport /\ AllStamped(moved[t])
              /\ (won <=> old.tableStamp < o.lamport)
          BY <2>3, <2>4, <4>1 DEF AllStamped, Beats, won, old
        <4>3. \/ moved[t] = {} /\ old.tableStamp = 0
              \/ \E f \in moved[t] : /\ f[1] = old.tableStamp /\ f[2] = old.table
                                     /\ Latest(moved[t], f)
          BY <4>2 DEF Inv, TableSaid, old
        <4>4. \A f \in moved[t] : f[1] \in Nat
          BY <2>4
        <4>5. CASE won
          <5>1. Latest(moved[t] \cup {e}, e)
            BY <1>1, <2>4, <4>2, <4>3, <4>4, <4>5 DEF Latest
          <5> QED BY <2>4, <2>5, <4>2, <4>5, <5>1
        <4>6. CASE ~won
          BY <1>1, <2>4, <2>5, <4>2, <4>3, <4>4, <4>6 DEF Latest
        <4> QED BY <4>5, <4>6
      <3> QED BY <2>1, <3>1, <3>2, <3>3 DEF Kept
    <2> QED BY <2>4, <2>5, <2>6, <2>7, OneRow
  <1> QED BY <1>2, <1>3

LEMMA CoversRows ==
  ASSUME Inv, NEW s \in Session, session[s] # Idle, CoversUpdate(s) PROVE RowsKept(s)
  <1> DEFINE o == session[s].op
  <1>1. /\ o \in Ops /\ o.lamport \in Nat /\ o.party \in Nat
        /\ session[s].ref \in Ticket \cup {Nil}
    <2>1. session[s] \in Busy /\ session[s].kind = "covers_update"
      BY DEF Inv, InHand, Shape, CoversUpdate
    <2>2. session[s].ref # New
      BY <2>1 DEF Inv, InHand, Opening
    <2> QED BY <2>1, <2>2, OpAssumption DEF Busy
  <1>2. CASE UNCHANGED <<ticket, counted>>
    BY <1>2, SameRows DEF CoversUpdate
  <1>3. CASE ~UNCHANGED <<ticket, counted>>
    <2>1. PICK t \in Ticket : t = session[s].ref /\ ticket[t].status # "none"
      BY <1>1, <1>3 DEF CoversUpdate
    <2>2. PICK e : e = <<o.lamport, o.party>>
      OBVIOUS
    <2> DEFINE won == Beats(o.lamport, ticket[t].partyStamp)
               old == ticket[t]
    <2>3. PICK r, n : /\ n = IF o.lamport = 0 THEN old.partyStamp ELSE o.lamport
                     /\ r = IF won THEN [old EXCEPT !.party = o.party, !.partyStamp = n] ELSE old
      OBVIOUS
    <2>4. /\ old \in RowType /\ moved[t] \in SUBSET (Nat \X Label)
          /\ counted[t] \in SUBSET (Nat \X Nat) /\ old.partyStamp \in Nat
          /\ e \in Nat \X Nat /\ e[1] = o.lamport /\ e[2] = o.party /\ n \in Nat
      <3>1. old \in RowType
        BY DEF Inv, Shape, TypeOK
      <3>2. old.partyStamp \in Nat
        BY <3>1 DEF RowType
      <3>3. e \in Nat \X Nat /\ e[1] = o.lamport /\ e[2] = o.party
        BY <1>1, <2>2
      <3> QED BY <1>1, <2>3, <3>1, <3>2, <3>3 DEF Inv, Shape
    <2> HIDE DEF won, old, o
    <2>5. /\ r \in RowType /\ r.status = old.status /\ r.at = old.at
          /\ r.table = old.table /\ r.tableStamp = old.tableStamp /\ r.closedAt = old.closedAt
          /\ won => r.party = o.party /\ r.partyStamp = n
          /\ ~won => r.party = old.party /\ r.partyStamp = old.partyStamp
      BY <1>1, <2>3, <2>4 DEF RowType
    <2>6. /\ ticket' = [ticket EXCEPT ![t] = r] /\ moved' = [moved EXCEPT ![t] = moved[t]]
          /\ counted' = [counted EXCEPT ![t] = counted[t] \cup {e}]
      <3>1. /\ moved' = [moved EXCEPT ![t] = moved[t]]
            /\ counted' = [counted EXCEPT ![t] = counted[t] \cup {e}]
        BY <1>3, <2>1, <2>2 DEF CoversUpdate, Inv, Shape, o
      <3>2. CASE won
        BY <1>3, <2>1, <2>3, <3>1, <3>2 DEF CoversUpdate, Inv, Shape, TypeOK, o, old, won
      <3>3. CASE ~won
        BY <1>3, <2>1, <2>3, <3>1, <3>3 DEF CoversUpdate, Inv, Shape, TypeOK, o, old, won
      <3> QED BY <3>1, <3>2, <3>3
    <2>7. ASSUME ticket'[t] = r, moved'[t] = moved[t], counted'[t] = counted[t] \cup {e}
          PROVE  Kept(s, t)
      <3>1. Steady(t)
        BY <2>1, <2>5, <2>7 DEF Steady, Inv, Shape, TypeOK, old
      <3>2. Blank(t)' /\ TableSaid(t)'
        BY <2>1, <2>5, <2>7 DEF Inv, Blank, TableSaid, old
      <3>3. CoversSaid(t)'
        <4>1. SUFFICES ASSUME AllStamped(counted[t] \cup {e})
                       PROVE  \E f \in counted[t] \cup {e} :
                                /\ f[1] = r.partyStamp /\ Latest(counted[t] \cup {e}, f)
                                /\ f[2] = r.party \/ (r.party \in Carried /\ f[2] < r.party)
          BY <2>7 DEF CoversSaid
        <4>2. o.lamport # 0 /\ n = o.lamport /\ AllStamped(counted[t])
              /\ (won <=> old.partyStamp < o.lamport)
          BY <2>3, <2>4, <4>1 DEF AllStamped, Beats, won, old
        <4>3. \/ counted[t] = {} /\ old.partyStamp = 0
              \/ \E f \in counted[t] :
                   /\ f[1] = old.partyStamp /\ Latest(counted[t], f)
                   /\ f[2] = old.party \/ (old.party \in Carried /\ f[2] < old.party)
          BY <4>2 DEF Inv, CoversSaid, old
        <4>4. \A f \in counted[t] : f[1] \in Nat
          BY <2>4
        <4>5. CASE won
          <5>1. Latest(counted[t] \cup {e}, e)
            BY <1>1, <2>4, <4>2, <4>3, <4>4, <4>5 DEF Latest
          <5> QED BY <2>4, <2>5, <4>2, <4>5, <5>1
        <4>6. CASE ~won
          BY <1>1, <2>4, <2>5, <4>2, <4>3, <4>4, <4>6 DEF Latest
        <4> QED BY <4>5, <4>6
      <3> QED BY <2>5, <2>7, <3>1, <3>2, <3>3 DEF Kept, old
    <2> QED BY <2>4, <2>5, <2>6, <2>7, OneRow
  <1> QED BY <1>2, <1>3

-----------------------------------------------------------------------------
(* The lines a write changes.                                              *)

LinesKept(s) ==
  /\ lines' \in [Ticket -> [Lid -> {"no", "live", "void"}]]
  /\ \A t \in Ticket :
       /\ ticket[t].status = "closed" /\ lines'[t] # lines[t] => session[s].at <= ticket[t].closedAt
       /\ \A l \in Lid : lines[t][l] = "void" => lines'[t][l] = "void"

LEMMA SameLines == ASSUME Inv, NEW s \in Session, UNCHANGED lines PROVE LinesKept(s)
  BY DEF LinesKept, Inv, Shape, TypeOK

\* One line of one ticket, which is not closed, or was not when the delivery looked.
LEMMA OneLine ==
  ASSUME Inv, NEW s \in Session, NEW t \in Ticket, NEW l \in Lid, NEW x \in {"live", "void"},
         lines' = [lines EXCEPT ![t][l] = x], lines[t][l] = "void" => x = "void",
         ticket[t].status = "closed" => session[s].at <= ticket[t].closedAt
  PROVE  LinesKept(s)
  <1>1. PICK f : f = [lines[t] EXCEPT ![l] = x]
    OBVIOUS
  <1>2. lines \in [Ticket -> [Lid -> {"no", "live", "void"}]] /\ lines' = [lines EXCEPT ![t] = f]
    BY <1>1 DEF Inv, Shape, TypeOK
  <1>3. f \in [Lid -> {"no", "live", "void"}] /\ \A k \in Lid : lines[t][k] = "void" => f[k] = "void"
    BY <1>1, <1>2
  <1> QED BY <1>2, <1>3 DEF LinesKept

LEMMA WriteKeeps ==
  ASSUME Inv, NEW s \in Session, Write(s) PROVE RowsKept(s) /\ LinesKept(s)
  <1> DEFINE m == session[s]
  <1>1. /\ m # Idle /\ m \in Busy /\ m.op \in Ops /\ m.kind = m.op.kind
        /\ InHand(s) /\ Found(s) /\ Shape
    <2>1. m # Idle /\ m \in Busy /\ InHand(s) /\ Found(s)
      BY DEF Write, Inv, Shape
    <2> QED BY <2>1 DEF Inv, InHand, Busy
  <1>2. /\ m.ref \in Ticket \cup {Nil, New} /\ Nil # New /\ Nil \notin Ticket /\ New \notin Ticket
    BY <1>1, SpellingAssumption DEF Busy
  <1>3. ASSUME m.kind \in Opening, m.ref # Nil, NEW status \in {"open", "held"},
               ticket' = Opened(s, status), UNCHANGED <<moved, counted>>
        PROVE  RowsKept(s)
    <2>1. CASE m.ref = New
      BY <1>1, <1>3, <2>1, OpenedNew
    <2>2. CASE m.ref # New
      BY <1>1, <1>2, <1>3, <2>2, OpenedFound
    <2> QED BY <2>1, <2>2
  <1>4. CASE SeatWalkin(s)
    <2>1. m.kind \in Opening /\ m.ref # Nil /\ UNCHANGED <<lines, moved, counted>>
      BY <1>1, <1>4 DEF SeatWalkin, InHand, Opening
    <2>2. RowsKept(s)
      BY <1>3, <1>4, <2>1, SameRows DEF SeatWalkin
    <2> QED BY <2>1, <2>2, SameLines
  <1>5. CASE AddLine(s)
    <2>1. CASE UNCHANGED <<ticket, lines>>
      BY <1>5, <2>1, SameRows, SameLines DEF AddLine
    <2>2. CASE ~UNCHANGED <<ticket, lines>>
      <3>1. /\ m.kind \in Opening /\ m.ref # Nil /\ ticket' = Opened(s, "open")
            /\ UNCHANGED <<moved, counted>> /\ m.op.lid \in Lid
            /\ lines' = [lines EXCEPT ![Target(s)][m.op.lid] = IF @ = "no" THEN "live" ELSE @]
        <4>1. m.op.lid \in Lid
          <5>1. m.op.kind = "add_line"
            BY <1>1, <1>5 DEF AddLine
          <5> QED BY <1>1, <5>1, OpAssumption
        <4>2. m.kind \in Opening /\ m.ref # Nil /\ UNCHANGED <<moved, counted>>
          BY <1>5, <2>2 DEF AddLine, Opening
        <4> QED BY <1>5, <2>2, <4>1, <4>2 DEF AddLine
      <3>2. RowsKept(s)
        BY <1>3, <3>1
      <3>3. PICK t \in Ticket : t = Target(s) /\ (ticket[t].status = "closed" => m.at <= ticket[t].closedAt)
        <4>1. CASE m.ref = New
          BY <1>1, <4>1, FreshIsNew DEF Target
        <4>2. CASE m.ref # New
          BY <1>1, <1>2, <3>1, <4>2 DEF Target, Found, Trusting
        <4> QED BY <4>1, <4>2
      <3>4. PICK l \in Lid : l = m.op.lid
        BY <3>1
      <3>5. PICK x : x = IF lines[t][l] = "no" THEN "live" ELSE lines[t][l]
        OBVIOUS
      <3>6. lines[t][l] \in {"no", "live", "void"}
        BY <1>1 DEF Shape, TypeOK
      <3>7. lines' = [lines EXCEPT ![t][l] = x]
        BY <3>1, <3>3, <3>4, <3>5
      <3>8. x \in {"live", "void"} /\ (lines[t][l] = "void" => x = "void")
        BY <3>5, <3>6
      <3> QED BY <3>2, <3>3, <3>7, <3>8, OneLine
    <2> QED BY <2>1, <2>2
  <1>6. CASE VoidLine(s)
    <2>1. RowsKept(s)
      BY <1>6, SameRows DEF VoidLine
    <2>2. CASE UNCHANGED lines
      BY <2>1, <2>2, SameLines
    <2>3. CASE ~UNCHANGED lines
      <3>1. /\ lines' = [lines EXCEPT ![m.ref][m.op.lid] = "void"] /\ m.op.lid \in Lid
            /\ m.ref \in Ticket /\ m.kind \in Trusting
        <4>1. m.op.lid \in Lid
          <5>1. m.op.kind = "void_line"
            BY <1>1, <1>6 DEF VoidLine
          <5> QED BY <1>1, <5>1, OpAssumption
        <4>2. m.ref \in Ticket /\ m.kind \in Trusting
          BY <1>1, <1>2, <1>6, <2>3 DEF VoidLine, Trusting, InHand, Opening
        <4> QED BY <1>6, <2>3, <4>1, <4>2 DEF VoidLine
      <3>2. PICK t \in Ticket, l \in Lid : t = m.ref /\ l = m.op.lid
        BY <3>1
      <3> QED BY <1>1, <2>1, <3>1, <3>2, OneLine DEF Found
    <2> QED BY <2>2, <2>3
  <1>7. CASE ParkBill(s)
    <2>1. m.kind \in Opening /\ UNCHANGED <<lines, moved, counted>>
      BY <1>7 DEF ParkBill, Opening
    <2>2. RowsKept(s)
      BY <1>3, <1>7, <2>1, SameRows DEF ParkBill
    <2> QED BY <2>1, <2>2, SameLines
  <1>8. CASE ResumeBill(s)
    BY <1>1, <1>8, ResumeRows, SameLines DEF ResumeBill
  <1>9. CASE CloseTicket(s)
    BY <1>1, <1>9, CloseRows, SameLines DEF CloseTicket
  <1>10. CASE MoveTable(s)
    BY <1>1, <1>10, MoveRows, SameLines DEF MoveTable
  <1>11. CASE CoversUpdate(s)
    BY <1>1, <1>11, CoversRows, SameLines DEF CoversUpdate
  <1> QED BY <1>4, <1>5, <1>6, <1>7, <1>8, <1>9, <1>10, <1>11 DEF Write

-----------------------------------------------------------------------------
(* The steps, and what they show.                                          *)

LEMMA WriteInv == ASSUME Inv, NEW s \in Session, Write(s) PROVE Inv'
  <1>1. /\ RowsKept(s) /\ LinesKept(s) /\ Typed /\ \A t \in Ticket : Kept(s, t)
        /\ Shape /\ OpenedApart
    BY WriteKeeps DEF RowsKept, Inv
  <1>2. /\ session[s] # Idle /\ session' = [session EXCEPT ![s] = Idle] /\ clock' = clock
        /\ since' = [t \in Ticket |-> IF /\ ticket'[t].status = "open"
                                        /\ \/ ticket[t].status # "open"
                                           \/ ticket[t].table # ticket'[t].table
                                     THEN clock ELSE since[t]]
    BY DEF Write
  <1>3. session'[s] = Idle /\ \A u \in Session \ {s} : session'[u] = session[u]
    BY <1>1, <1>2 DEF Shape
  <1>4. InHand(s) /\ clock \in Nat /\ clock \in 0..MaxOps
    BY <1>2, BoundAssumption DEF Inv, Shape, TypeOK
  <1>5. Shape'
    <2>1. \A t \in Ticket : ticket'[t].status = "closed" => ticket'[t].closedAt # 0
      BY <1>1 DEF Kept, Born, Steady, Row
    <2>2. since' \in [Ticket -> 0..MaxOps]
      BY <1>1, <1>2, <1>4 DEF Shape, TypeOK
    <2>3. ASSUME NEW u \in Session, session'[u] # Idle
          PROVE  session'[u].kind \in Kind /\ session'[u].ref \in Ticket \cup {Nil, New}
      BY <1>1, <1>3, <2>3 DEF Shape, TypeOK
    <2>4. TypeOK'
      BY <1>1, <1>2, <1>4, <2>1, <2>2, <2>3 DEF TypeOK, Typed, LinesKept
    <2> QED BY <1>1, <1>2, <2>4 DEF Shape, Typed
  <1>6. OpenedApart'
    <2>1. \A t \in Ticket : ticket'[t].status # "none" =>
            \/ ticket'[t].at = session[s].at /\ t = Fresh
            \/ ticket[t].status # "none" /\ ticket'[t].at = ticket[t].at
      BY <1>1 DEF Kept, Born, Steady, Row
    <2> QED BY <1>1, <1>2, <1>4, <2>1 DEF OpenedApart, InHand
  <1>7. ASSUME NEW u \in Session, session'[u] # Idle PROVE InHand(u)' /\ Watched(u)' /\ Found(u)'
    <2>1. /\ u # s /\ session'[u] = session[u] /\ session[u] # Idle
          /\ InHand(u) /\ Watched(u) /\ Found(u)
      BY <1>3, <1>7 DEF Inv
    <2>2. InHand(u)'
      <3>1. \A t \in Ticket : ticket'[t].status = "none" \/ ticket'[t].at # session[u].at
        BY <1>1, <1>2, <2>1 DEF Kept, Born, Steady, Row, InHand
      <3> QED BY <1>2, <1>3, <2>1, <3>1 DEF InHand
    <2>3. Watched(u)'
      <3>1. SUFFICES ASSUME session[u].ref = New, session[u].op.table # Nil, NEW t \in Ticket,
                            ticket'[t].status = "open", ticket'[t].table # Nil,
                            Key[ticket'[t].table] = Key[session[u].op.table]
                     PROVE  since'[t] >= session[u].at
        BY <2>1 DEF Watched, OpenTickets
      <3>2. CASE ticket[t].status = "open" /\ ticket[t].table = ticket'[t].table
        BY <1>2, <2>1, <3>1, <3>2 DEF Watched, OpenTickets
      <3>3. CASE ~(ticket[t].status = "open" /\ ticket[t].table = ticket'[t].table)
        BY <1>2, <1>4, <2>1, <3>1, <3>3 DEF InHand
      <3> QED BY <3>2, <3>3
    <2>4. Found(u)'
      <3>1. SUFFICES ASSUME NEW t \in Ticket, t = session[u].ref, session[u].kind \in Trusting
                     PROVE  /\ ticket'[t].status # "none"
                            /\ ticket'[t].status = "closed" => session[u].at <= ticket'[t].closedAt
        BY <2>1 DEF Found
      <3>2. /\ ticket[t].status # "none"
            /\ ticket[t].status = "closed" => session[u].at <= ticket[t].closedAt
            /\ session[u].at <= clock
        BY <1>4, <2>1, <3>1 DEF Found, InHand
      <3>3. Steady(t)
        BY <1>1, <3>2 DEF Kept, Born
      <3> QED BY <3>2, <3>3 DEF Steady
    <2> QED BY <2>2, <2>3, <2>4
  <1>8. \A t \in Ticket : Blank(t)' /\ TableSaid(t)' /\ CoversSaid(t)'
    BY <1>1 DEF Kept
  <1> QED BY <1>5, <1>6, <1>7, <1>8 DEF Inv

LEMMA NextInv == ASSUME Inv, [Next]_vars PROVE Inv'
  <1>1. CASE UNCHANGED vars
    <2>1. /\ UNCHANGED <<ticket, lines, session, clock, moved, counted, since>>
      BY <1>1 DEF vars
    <2> QED BY <2>1 DEF Inv, Shape, TypeOK, OpenedApart, InHand, Watched, Found, Blank, TableSaid,
                       CoversSaid, OpenTickets
  <1> QED BY <1>1, BeginInv, WriteInv DEF Next

\* Every variable has its type, at all times.
LEMMA TypesHold == Spec => []TypeOK
  <1>1. Inv => TypeOK
    BY DEF Inv, Shape
  <1> QED BY <1>1, InitInv, NextInv, PTL DEF Spec

\* apply.js move_table, covers_update: the field's own stamp, and nothing of the order in which
\* deliveries look and write, decides which edit stands.
THEOREM LatestStands == Spec => []LastWriterWins
  <1>1. ASSUME Inv PROVE LastWriterWins
    <2>1. TableIsLatest
      BY <1>1 DEF Inv, TableSaid, TableIsLatest, IsLatest, AllStamped, Latest
    <2>2. CoversAreLatest
      <3>1. SUFFICES ASSUME NEW t \in Ticket, AllStamped(counted[t]), counted[t] # {}
                     PROVE  \/ IsLatest(counted[t], ticket[t].party)
                            \/ /\ ticket[t].party \in Carried
                               /\ \E e \in counted[t] : /\ e[2] < ticket[t].party
                                                       /\ IsLatest(counted[t], e[2])
        BY DEF CoversAreLatest, IsLatest, AllStamped
      <3>2. PICK e \in counted[t] :
              /\ e[1] = ticket[t].partyStamp /\ Latest(counted[t], e)
              /\ \/ e[2] = ticket[t].party
                 \/ ticket[t].party \in Carried /\ e[2] < ticket[t].party
        BY <1>1, <3>1 DEF Inv, CoversSaid
      <3>3. IsLatest(counted[t], e[2])
        BY <3>2 DEF IsLatest, Latest
      <3> QED BY <3>2, <3>3
    <2> QED BY <2>1, <2>2 DEF LastWriterWins
  <1> QED BY <1>1, InitInv, NextInv, PTL DEF Spec

\* apply.js openTicket, ticketFor, lineOf: what a delivery looked up and others changed before
\* it wrote is doubled only in a race, superseded once closed, and never un-voided.
THEOREM BillsAlwaysKept == Spec => BillsAreKept
  <1>1. ASSUME Inv, [Next]_vars PROVE [NoSecondBill /\ LateReplaySuperseded /\ VoidIsFinal]_vars
    <2>1. NoSecondBill
      BY <1>1 DEF Inv, Watched, NoSecondBill, Wrote
    <2>2. ASSUME NEW s \in Session, Write(s) PROVE LateReplaySuperseded /\ VoidIsFinal
      <3>1. LinesKept(s) /\ (\A t \in Ticket : Kept(s, t)) /\ session'[s] = Idle /\ session[s] # Idle
        BY <1>1, <2>2, WriteKeeps DEF RowsKept, Write, Inv, Shape
      <3> QED BY <3>1 DEF LinesKept, Kept, LateReplaySuperseded, VoidIsFinal, Wrote
    <2>3. ASSUME NEW s \in Session, NEW o \in Ops, Begin(s, o)
          PROVE  LateReplaySuperseded /\ VoidIsFinal
      BY <2>3 DEF Begin, LateReplaySuperseded, VoidIsFinal
    <2> QED BY <1>1, <2>1, <2>2, <2>3 DEF Next
  <1> QED BY <1>1, InitInv, NextInv, PTL DEF Spec, BillsAreKept
=============================================================================
