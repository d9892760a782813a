--------------------------- MODULE TerminalProofs ---------------------------
(***************************************************************************)
(* What a terminal keeps of its own, and of its outlet.                    *)
(*                                                                         *)
(* Its outbox loses nothing, keeps its order, and keeps two databases      *)
(* apart, as long as the outlet id changes hands by a full log-out: for    *)
(* any number of ops, installs, overlapping flights, refusals, reloads and *)
(* lost answers.                                                           *)
(*                                                                         *)
(* Its screen may count on the outlet's answers, for any ops, any overlap  *)
(* longer than a transaction, any cut of the window, and any number of     *)
(* answers lost, late or overtaken: no sale falls behind the window, and   *)
(* no answer takes unsent work off the screen.                             *)
(***************************************************************************)
EXTENDS Outbox, Floor, FiniteSetTheorems, TLAPS

-----------------------------------------------------------------------------
(* Types.                                                                  *)

\* A flight's record of each phase is one of Flights.
LEMMA FlightTypes ==
  /\ Idle \in Flights /\ Reading \in Flights
  /\ \A c \in Copies, i \in Names, S \in SUBSET Op : Fencing(c, i, S) \in Flights
  /\ \A c \in Copies, S, T \in SUBSET Op, t \in Tokens : Sent(c, S, T, t) \in Flights
  /\ \A c \in Copies, S, T \in SUBSET Op : Answered(c, S, T) \in Flights
  BY DEF Flights, Fencing, Sent, Answered

\* What the record of each phase holds.
LEMMA FlightFields ==
  ASSUME NEW w \in Flights
  PROVE  /\ w.phase \in {"idle", "reading", "fencing", "sent", "answered"}
         /\ w.phase = "fencing" => w.copy \in Copies /\ w.inst \in Names /\ w.strangers \in SUBSET Op
         /\ w.phase = "sent" => /\ w.copy \in Copies /\ w.batch \in SUBSET Op
                                /\ w.fresh \in SUBSET Op /\ w.token \in Tokens
         /\ w.phase = "answered" => /\ w.copy \in Copies /\ w.acks \in SUBSET Op
                                    /\ w.errors \in SUBSET Op
  BY DEF Flights, Idle, Reading

\* Rows, and what is left of a copy of them.
LEMMA RowTypes ==
  /\ \A n \in Nat, p \in BOOLEAN, i \in Names : Row(n, p, i) \in Rows
  /\ NoRow \in Rows
  BY DEF Row, NoRow, Rows, Names

\* What a row holds.
LEMMA RowFields ==
  \A x \in Rows : x.attempts \in Nat /\ x.install \in Names /\ x.parked \in BOOLEAN /\ x.here \in BOOLEAN
  BY DEF Rows

\* Part of a flight's copy of the rows is a copy of rows.
LEMMA CopiedType ==
  ASSUME NEW f \in Flight, NEW S, flight[f].copy \in Copies
  PROVE  Copied(f, S) \in Copies
  BY RowTypes DEF Copied, Copies

\* The fence compares with a name.
LEMMA InstType == TypeOK => Inst \in Names
  BY DEF TypeOK, Inst

\* The flights stay flights when one of them becomes another.
LEMMA BecomesType ==
  ASSUME TypeOK, NEW f \in Flight, NEW w \in Flights, Becomes(f, w)
  PROVE  flight' \in [Flight -> Flights]
  BY DEF TypeOK, Becomes

\* Serving a push leaves the logs sets of ops and the refusals within their bound.
LEMMA ServesType ==
  ASSUME TypeOK, BoundAssumption, NEW A \in SUBSET Op, NEW B, NEW R \in SUBSET Op, Serves(A, B, R)
  PROVE  log' \in [Install -> SUBSET Op] /\ refusals' \in [Op -> 0..MaxRefusals]
<1>1. log' \in [Install -> SUBSET Op]
  BY DEF TypeOK, Serves
<1>2. \A o \in Op : (IF o \in R THEN refusals[o] + 1 ELSE refusals[o]) \in 0..MaxRefusals
  BY DEF TypeOK, Serves, BoundAssumption
<1>3. refusals' = [o \in Op |-> IF o \in R THEN refusals[o] + 1 ELSE refusals[o]]
  BY DEF Serves
<1>4. refusals' \in [Op -> 0..MaxRefusals]
  BY <1>2, <1>3
<1> QED BY <1>1, <1>4

\* The initial states are typed.
LEMMA TypeInit == Init => TypeOK
<1> SUFFICES ASSUME Init PROVE TypeOK
  OBVIOUS
<1>1. store \in [Op -> Rows]
  BY RowTypes DEF Init
<1>2. flight \in [Flight -> Flights]
  <2>1. Idle \in Flights
    BY DEF Flights
  <2> QED BY <2>1 DEF Init
<1>3. refusals \in [Op -> 0..MaxRefusals] /\ faults \in 0..MaxFaults
  BY BoundAssumption DEF Init, BoundAssumption
<1> QED BY <1>1, <1>2, <1>3, NameAssumption DEF Init, TypeOK, Names, Tokens, NameAssumption

\* Every action, and every await of a flight, keeps the types.
LEMMA TypeStep == TypeOK /\ [Next]_vars => TypeOK'
<1> SUFFICES ASSUME TypeOK, [Next]_vars PROVE TypeOK'
  OBVIOUS
<1> USE BoundAssumption
<1>1. CASE UNCHANGED vars
  BY <1>1 DEF TypeOK, vars, page, server, history
<1>2. ASSUME NEW o \in Op, Enqueue(o)
      PROVE  /\ store' \in [Op -> Rows] /\ made' \subseteq Op /\ due' \in BOOLEAN
             /\ meant' \in [Op -> SUBSET Names]
  <2>1. Row(0, FALSE, Inst) \in Rows
    BY InstType, RowTypes
  <2> QED BY <1>2, <2>1, InstType DEF TypeOK, Enqueue
<1>3. CASE Queue
  <2>1. PICK o \in Op : Enqueue(o)
    BY <1>3 DEF Queue
  <2> QED BY <1>2, <1>3, <2>1 DEF TypeOK, Queue, server
<1>4. CASE RetryOp
  <2>1. PICK o \in Op, i \in Names : /\ store' = [store EXCEPT ![o] = Row(0, FALSE, i)]
                                     /\ meant' = [meant EXCEPT ![o] = @ \cup {i}]
    <3>1. PICK o \in Op :
            LET adopted == IF Inst # Unnamed THEN Inst ELSE store[o].install
            IN  /\ store' = [store EXCEPT ![o] = Row(0, FALSE, adopted)]
                /\ meant' = [meant EXCEPT ![o] = @ \cup {adopted}]
      BY <1>4 DEF RetryOp
    <3>2. (IF Inst # Unnamed THEN Inst ELSE store[o].install) \in Names
      BY InstType, RowFields DEF TypeOK
    <3> QED BY <3>1, <3>2
  <2>2. Row(0, FALSE, i) \in Rows
    BY RowTypes
  <2> QED BY <1>4, <2>1, <2>2 DEF TypeOK, RetryOp, server
<1>5. CASE DiscardOp
  BY <1>5, RowTypes DEF TypeOK, DiscardOp, server
<1>6. CASE RecordDiscard
  <2>1. PICK o \in owing, p \in Record : Enqueue(p) /\ owing' = owing \ {o}
    BY <1>6 DEF RecordDiscard
  <2>2. p \in Op
    BY ClockAssumption DEF ClockAssumption
  <2> QED BY <1>2, <1>6, <2>1, <2>2 DEF TypeOK, RecordDiscard, server
<1>7. CASE SignIn \/ SessionEnds
  <2>1. session' \in Tokens /\ faults' \in 0..MaxFaults
    BY <1>7 DEF TypeOK, SignIn, SessionEnds, history, Tokens
  <2> QED BY <1>7, <2>1 DEF TypeOK, SignIn, SessionEnds, server, history
<1>8. CASE Boot \/ Reread
  BY <1>8 DEF TypeOK, Boot, Reread, Bootstrap, server, history, Tokens, Names
<1>9. ASSUME Reload
      PROVE  /\ faults' \in 0..MaxFaults /\ flight' \in [Flight -> Flights] /\ wire' \subseteq Pushes
             /\ known' \in Names
  <2>1. \A g \in Flight : flight[g].phase = "sent" => Pushed(g) \in Pushes
    BY FlightFields DEF TypeOK, Pushed, Pushes
  <2>2. Idle \in Flights
    BY DEF Flights
  <2> QED BY <1>9, <2>1, <2>2 DEF TypeOK, Reload, Names
<1>10. CASE Crash
  BY <1>9, <1>10 DEF TypeOK, Crash, Reload
<1>11. CASE WipeLocal
  BY <1>9, <1>11 DEF TypeOK, WipeLocal, Reload, Names, Tokens
<1>12. CASE SwitchInstall
  BY <1>12 DEF TypeOK, SwitchInstall, page, history
<1>13. CASE TurnedAway
  BY <1>13 DEF TypeOK, TurnedAway, server, history
<1>14. CASE ServeLate
  <2>1. PICK w \in wire, n \in 0..Cardinality(Op), R \in SUBSET Op :
          /\ Serves({o \in w.batch : Cardinality({p \in w.batch : Lamport[p] < Lamport[o]}) < n}, w.fresh, R)
          /\ wire' = wire \ {w}
    BY <1>14 DEF ServeLate
  <2>2. {o \in w.batch : Cardinality({p \in w.batch : Lamport[p] < Lamport[o]}) < n} \in SUBSET Op
    BY DEF TypeOK, Pushes
  <2>3. log' \in [Install -> SUBSET Op] /\ refusals' \in [Op -> 0..MaxRefusals]
    BY <2>1, <2>2, ServesType
  <2> QED BY <1>14, <2>1, <2>3 DEF TypeOK, ServeLate, page
<1>15. ASSUME NEW f \in Flight, Start(f) \/ Fly(f) \/ LoseAnswer(f) PROVE TypeOK'
  <2> DEFINE w == flight[f]
  <2>0. w \in Flights
    BY DEF TypeOK
  <2>1. CASE Start(f)
    <3>1. Reading \in Flights
      BY DEF Flights
    <3> QED BY <2>1, <3>1, BecomesType DEF Start, TypeOK, server, history
  <2>2. CASE Read(f)
    <3>1. Idle \in Flights
      BY DEF Flights
    <3>2. \A S \in SUBSET Op : Fencing(store, Inst, S) \in Flights
      BY FlightTypes, InstType DEF TypeOK, Copies
    <3>3. PICK v \in Flights : Becomes(f, v)
      BY <2>2, <3>1, <3>2 DEF Read
    <3> QED BY <2>2, <3>3, BecomesType DEF Read, TypeOK, server, history
  <2>3. CASE ParkStranger(f)
    <3>1. PICK o \in w.strangers :
            /\ store' = [store EXCEPT ![o] = Row(w.copy[o].attempts, TRUE, w.copy[o].install)]
            /\ Becomes(f, Fencing(w.copy, w.inst, w.strangers \ {o}))
      BY <2>3 DEF ParkStranger
    <3>2. w.copy \in Copies /\ w.inst \in Names /\ w.strangers \in SUBSET Op
      BY <2>0, <2>3, FlightFields DEF ParkStranger
    <3>3. Fencing(w.copy, w.inst, w.strangers \ {o}) \in Flights
      BY <3>2, FlightTypes
    <3>4. Row(w.copy[o].attempts, TRUE, w.copy[o].install) \in Rows
      BY <3>2, RowFields, RowTypes DEF Copies
    <3>5. store' \in [Op -> Rows]
      BY <3>1, <3>4 DEF TypeOK
    <3>6. flight' \in [Flight -> Flights]
      BY <3>1, <3>3, BecomesType
    <3> QED BY <2>3, <3>5, <3>6 DEF ParkStranger, TypeOK, server, history
  <2>4. CASE Send(f)
    <3>1. PICK v \in Flights : Becomes(f, v) /\ flushing' \in BOOLEAN
      <4>1. CASE Mine(f) = {}
        <5>1. Idle \in Flights
          BY DEF Flights
        <5> QED BY <2>4, <4>1, <5>1 DEF Send, TypeOK
      <4>2. CASE Mine(f) # {}
        <5>1. Foremost(Mine(f)) \in SUBSET Op
          BY DEF Foremost, Mine
        <5>2. Copied(f, Foremost(Mine(f))) \in Copies
          BY <2>0, <2>4, FlightFields, CopiedType DEF Send
        <5>3. session \in Tokens
          BY DEF TypeOK
        <5>4. Sent(Copied(f, Foremost(Mine(f))), Foremost(Mine(f)), Foremost(Mine(f)) \ log[live], session) \in Flights
          BY <5>1, <5>2, <5>3, FlightTypes
        <5> QED BY <2>4, <4>2, <5>4 DEF Send
      <4> QED BY <4>1, <4>2
    <3> QED BY <2>4, <3>1, BecomesType DEF Send, TypeOK, server, history
  <2>5. CASE Serve(f)
    <3>1. PICK R \in SUBSET Op : /\ Serves(w.batch, w.fresh, R)
                                 /\ Becomes(f, Answered(Copied(f, R), w.batch \ R, R))
      BY <2>5 DEF Serve
    <3>2. w.copy \in Copies /\ w.batch \in SUBSET Op
      BY <2>0, <2>5, FlightFields DEF Serve
    <3>3. Answered(Copied(f, R), w.batch \ R, R) \in Flights
      BY <3>2, CopiedType, FlightTypes
    <3>4. log' \in [Install -> SUBSET Op] /\ refusals' \in [Op -> 0..MaxRefusals]
      BY <3>1, <3>2, ServesType
    <3>5. flight' \in [Flight -> Flights]
      BY <3>1, <3>3, BecomesType
    <3> QED BY <2>5, <3>4, <3>5 DEF Serve, TypeOK
  <2>6. ASSUME Lands(f)
        PROVE  flight' \in [Flight -> Flights] /\ flushing' \in BOOLEAN /\ due' \in BOOLEAN
    <3>1. Idle \in Flights
      BY DEF Flights
    <3> QED BY <2>6, <3>1, BecomesType DEF Lands, TypeOK
  <2>7. CASE Unauthorised(f)
    BY <2>6, <2>7 DEF Unauthorised, TypeOK, server, history, Tokens
  <2>8. CASE LoseAnswer(f)
    <3>1. Pushed(f) \in Pushes
      BY <2>0, <2>8, FlightFields DEF LoseAnswer, Pushed, Pushes
    <3> QED BY <2>6, <2>8, <3>1 DEF LoseAnswer, TypeOK
  <2>9. CASE DeleteAcked(f) \/ PutRefused(f)
    <3>1. w.copy \in Copies /\ w.acks \in SUBSET Op /\ w.errors \in SUBSET Op
      BY <2>0, <2>9, FlightFields DEF DeleteAcked, PutRefused
    <3>2. CASE DeleteAcked(f)
      <4>1. PICK o \in w.acks : /\ store' = [store EXCEPT ![o] = NoRow]
                                /\ Becomes(f, Answered(w.copy, w.acks \ {o}, w.errors))
        BY <3>2 DEF DeleteAcked
      <4>2. Answered(w.copy, w.acks \ {o}, w.errors) \in Flights
        BY <3>1, FlightTypes
      <4>3. flight' \in [Flight -> Flights]
        BY <4>1, <4>2, BecomesType
      <4> QED BY <3>2, <4>1, <4>3, RowTypes DEF DeleteAcked, TypeOK, server, history
    <3>3. CASE PutRefused(f)
      <4> DEFINE tries(o) == w.copy[o].attempts + 1
      <4>1. PICK o \in w.errors :
              /\ store' = [store EXCEPT ![o] = Row(tries(o), tries(o) >= DEAD_TRIES, w.copy[o].install)]
              /\ Becomes(f, Answered(w.copy, {}, w.errors \ {o}))
        BY <3>3 DEF PutRefused
      <4>2. Answered(w.copy, {}, w.errors \ {o}) \in Flights
        BY <3>1, FlightTypes
      <4>3. flight' \in [Flight -> Flights]
        BY <4>1, <4>2, BecomesType
      <4>4. Row(tries(o), tries(o) >= DEAD_TRIES, w.copy[o].install) \in Rows
        <5>1. w.copy[o] \in Rows
          BY <3>1 DEF Copies
        <5>2. tries(o) \in Nat /\ w.copy[o].install \in Names
          BY <5>1, RowFields
        <5>3. (tries(o) >= DEAD_TRIES) \in BOOLEAN
          OBVIOUS
        <5> QED BY <5>2, <5>3, RowTypes
      <4>5. store' \in [Op -> Rows]
        BY <4>1, <4>4 DEF TypeOK
      <4> QED BY <3>3, <4>3, <4>5 DEF PutRefused, TypeOK, server, history
    <3> QED BY <2>9, <3>2, <3>3
  <2>10. CASE Finish(f)
    BY <2>6, <2>10 DEF Finish, TypeOK, server, history
  <2> QED BY <1>15, <2>1, <2>2, <2>3, <2>4, <2>5, <2>7, <2>8, <2>9, <2>10 DEF Fly
<1> QED BY <1>1, <1>3, <1>4, <1>5, <1>6, <1>7, <1>8, <1>10, <1>11, <1>12, <1>13, <1>14, <1>15 DEF Next

\* A type invariant, over the awaits of any number of overlapping flights.
THEOREM Typed == Spec => []TypeOK
  BY TypeInit, TypeStep, PTL DEF Spec

-----------------------------------------------------------------------------
(* Nothing is lost. A row is deleted in two places only: by a person, and  *)
(* by a flight that holds an acknowledgement, which must then be true.     *)

AcksApplied == \A f \in Flight : flight[f].phase = "answered" => flight[f].acks \subseteq Applied

Kept == AcksApplied /\ NothingLost

\* What an outlet has, it keeps.
LEMMA AppliedGrows ==
  ASSUME TypeOK, NEW A, NEW B, NEW R, Serves(A, B, R)
  PROVE  Applied \cup (A \ R) \subseteq Applied'
<1>1. \A i \in Install : log[i] \subseteq log'[i]
  BY DEF TypeOK, Serves
<1>2. A \ R \subseteq log'[live] /\ live \in Install
  BY DEF TypeOK, Serves
<1> QED BY <1>1, <1>2 DEF Applied

\* A step that deletes no row but a discarded or an applied one, and gives no
\* flight an acknowledgement it should not have, keeps what is kept.
LEMMA KeptBy ==
  ASSUME Kept, Applied \subseteq Applied', discarded \subseteq discarded',
         \A o \in made' : o \in made \/ store'[o].here,
         \A o \in made : store[o].here => store'[o].here \/ o \in Applied \cup discarded',
         \A f \in Flight : flight'[f].phase = "answered" => flight'[f].acks \subseteq Applied'
  PROVE  Kept'
  BY DEF Kept, AcksApplied, NothingLost

\* No action loses an op: a put writes a row, a delete has an answer or a person
\* behind it.
LEMMA KeptStep == TypeOK /\ TypeOK' /\ Kept /\ [Next]_vars => Kept'
<1> SUFFICES ASSUME TypeOK, TypeOK', Kept, [Next]_vars PROVE Kept'
  OBVIOUS
<1>0. \A f \in Flight : flight[f].phase = "answered" => flight[f].acks \subseteq Applied
  BY DEF Kept, AcksApplied
<1>r. \A n, p, i : Row(n, p, i).here
  BY DEF Row
<1>a. log' = log => Applied' = Applied
  BY DEF Applied
<1>1. CASE UNCHANGED vars
  BY <1>0, <1>1, <1>a, KeptBy DEF vars, page, server, history
<1>2. ASSUME NEW o \in Op, Enqueue(o)
      PROVE  /\ \A p \in made' : p \in made \/ store'[p].here
             /\ \A p \in made : store[p].here => store'[p].here
  BY <1>2, <1>r DEF Enqueue, TypeOK
<1>3. CASE Queue
  <2>1. PICK o \in Op : Enqueue(o)
    BY <1>3 DEF Queue
  <2> QED BY <1>0, <1>2, <1>3, <1>a, <2>1, KeptBy DEF Queue, server
<1>4. CASE RetryOp
  <2>0. PICK o, i : o \in Op /\ store' = [store EXCEPT ![o] = Row(0, FALSE, i)]
    BY <1>4 DEF RetryOp
  <2>1. \A p \in made : store[p].here => store'[p].here
    BY <1>r, <2>0 DEF TypeOK
  <2> QED BY <1>0, <1>4, <1>a, <2>1, KeptBy DEF RetryOp, server
<1>5. CASE DiscardOp
  <2>1. \A p \in made : store[p].here => store'[p].here \/ p \in discarded'
    BY <1>5 DEF DiscardOp, TypeOK
  <2> QED BY <1>0, <1>5, <1>a, <2>1, KeptBy DEF DiscardOp, server
<1>6. CASE RecordDiscard
  <2>1. PICK p \in Op : Enqueue(p)
    BY <1>6, ClockAssumption DEF RecordDiscard, ClockAssumption
  <2> QED BY <1>0, <1>2, <1>6, <1>a, <2>1, KeptBy DEF RecordDiscard, server
<1>7. CASE SignIn \/ SessionEnds \/ Boot \/ Reread \/ TurnedAway
  BY <1>0, <1>7, <1>a, KeptBy DEF SignIn, SessionEnds, Boot, Reread, TurnedAway, server, history
<1>8. CASE Crash \/ WipeLocal
  <2>1. \A f \in Flight : flight'[f].phase # "answered"
    BY <1>8 DEF Crash, WipeLocal, Reload, Idle
  <2> QED BY <1>8, <1>a, <2>1, KeptBy DEF Crash, WipeLocal, Reload
<1>9. CASE SwitchInstall
  BY <1>0, <1>9, <1>a, KeptBy DEF SwitchInstall, page, history
<1>10. CASE ServeLate
  <2>1. Applied \subseteq Applied'
    BY <1>10, AppliedGrows DEF ServeLate
  <2> QED BY <1>0, <1>10, <2>1, KeptBy DEF ServeLate, page
<1>11. ASSUME NEW f \in Flight, NEW v, Becomes(f, v), Applied \subseteq Applied',
              v.phase = "answered" => v.acks \subseteq Applied'
       PROVE  \A g \in Flight : flight'[g].phase = "answered" => flight'[g].acks \subseteq Applied'
  BY <1>0, <1>11 DEF Becomes, TypeOK
<1>12. ASSUME NEW f \in Flight, Start(f) \/ Fly(f) \/ LoseAnswer(f) PROVE Kept'
  <2>1. CASE Start(f)
    <3>1. Reading.phase # "answered"
      BY DEF Reading
    <3> QED BY <1>11, <1>a, <2>1, <3>1, KeptBy DEF Start, server, history
  <2>2. CASE Read(f)
    <3>1. PICK v : Becomes(f, v) /\ v.phase # "answered"
      BY <2>2 DEF Read, Idle, Fencing
    <3> QED BY <1>11, <1>a, <2>2, <3>1, KeptBy DEF Read, server, history
  <2>3. CASE ParkStranger(f)
    <3>1. PICK v : Becomes(f, v) /\ v.phase # "answered"
      BY <2>3 DEF ParkStranger, Fencing
    <3>2. PICK o, n, i : store' = [store EXCEPT ![o] = Row(n, TRUE, i)]
      BY <2>3 DEF ParkStranger
    <3>3. \A p \in made : store[p].here => store'[p].here
      BY <1>r, <3>2 DEF TypeOK
    <3> QED BY <1>11, <1>a, <2>3, <3>1, <3>3, KeptBy DEF ParkStranger, server, history
  <2>4. CASE Send(f)
    <3>1. PICK v : Becomes(f, v) /\ v.phase # "answered"
      BY <2>4 DEF Send, Idle, Sent
    <3> QED BY <1>11, <1>a, <2>4, <3>1, KeptBy DEF Send, server, history
  <2>5. CASE Serve(f)
    <3>1. PICK R \in SUBSET Op : /\ Serves(flight[f].batch, flight[f].fresh, R)
                                 /\ Becomes(f, Answered(Copied(f, R), flight[f].batch \ R, R))
      BY <2>5 DEF Serve
    <3>2. Applied \cup (flight[f].batch \ R) \subseteq Applied'
      BY <3>1, AppliedGrows
    <3>3. Answered(Copied(f, R), flight[f].batch \ R, R).acks \subseteq Applied'
      BY <3>2 DEF Answered
    <3>4. \A g \in Flight : flight'[g].phase = "answered" => flight'[g].acks \subseteq Applied'
      BY <1>11, <3>1, <3>2, <3>3
    <3> QED BY <2>5, <3>2, <3>4, KeptBy DEF Serve
  <2>6. CASE Unauthorised(f) \/ LoseAnswer(f) \/ Finish(f)
    <3>1. Becomes(f, Idle) /\ Idle.phase # "answered"
      BY <2>6 DEF Unauthorised, LoseAnswer, Finish, Lands, Idle
    <3> QED BY <1>11, <1>a, <2>6, <3>1, KeptBy DEF Unauthorised, LoseAnswer, Finish, server, history
  <2>7. CASE DeleteAcked(f)
    <3>1. PICK o \in flight[f].acks :
            /\ store' = [store EXCEPT ![o] = NoRow]
            /\ Becomes(f, Answered(flight[f].copy, flight[f].acks \ {o}, flight[f].errors))
      BY <2>7 DEF DeleteAcked
    <3>2. flight[f].acks \subseteq Applied
      BY <1>0, <2>7 DEF DeleteAcked
    <3>3. \A p \in made : store[p].here => store'[p].here \/ p \in Applied
      BY <3>1, <3>2 DEF TypeOK
    <3>4. Answered(flight[f].copy, flight[f].acks \ {o}, flight[f].errors).acks \subseteq Applied
      BY <3>2 DEF Answered
    <3> QED BY <1>11, <1>a, <2>7, <3>1, <3>3, <3>4, KeptBy DEF DeleteAcked, server, history
  <2>8. CASE PutRefused(f)
    <3>1. PICK v : Becomes(f, v) /\ v.acks = {}
      BY <2>8 DEF PutRefused, Answered
    <3>2. \A p \in made : store[p].here => store'[p].here
      BY <1>r, <2>8 DEF PutRefused, TypeOK
    <3> QED BY <1>11, <1>a, <2>8, <3>1, <3>2, KeptBy DEF PutRefused, server, history
  <2> QED BY <1>12, <2>1, <2>2, <2>3, <2>4, <2>5, <2>6, <2>7, <2>8 DEF Fly
<1> QED BY <1>1, <1>3, <1>4, <1>5, <1>6, <1>7, <1>8, <1>9, <1>10, <1>12 DEF Next

\* NothingLost, for every number of ops, flights, installs and faults: what was
\* queued is in the outbox, with an outlet, or given up by a person.
THEOREM NothingIsLost == Spec => []NothingLost
<1>1. Init => Kept
  BY DEF Init, Kept, AcksApplied, NothingLost, Idle
<1> QED BY <1>1, TypeInit, TypeStep, KeptStep, PTL DEF Spec, Kept

-----------------------------------------------------------------------------
(* Two databases behind one outlet id are kept apart, if the id changes    *)
(* hands only when no name and no token is held. Then a name that is held  *)
(* is the live one, whatever was stamped with it was meant for it, and a   *)
(* push under an older token is turned away.                               *)

\* FlightMeant with the state it looks at as parameters.
MeantAs(w, lo, li, m) ==
  /\ w.phase \in {"fencing", "sent", "answered"} =>
       \A o \in Op : w.copy[o].here => w.copy[o].install \in m[o]
  /\ w.phase = "fencing" => /\ lo # Unnamed /\ w.inst = li
                            /\ \A o \in w.strangers : w.copy[o].here
  /\ w.phase = "sent" => /\ w.fresh \subseteq w.batch
                         /\ \A o \in w.batch : w.copy[o].here
                         /\ \A o \in w.batch : w.token \in m[o] \cup {Nobody, Ended}
  /\ w.phase = "answered" => \A o \in w.errors : w.copy[o].here

\* The rows a flight writes back and what it sends stay meant, as long as ops
\* only gain installs they are meant for and the names it went by still hold.
LEMMA MeantStays ==
  ASSUME NEW w \in Flights, NEW lo, NEW li, NEW m, NEW lo2, NEW li2, NEW m2,
         MeantAs(w, lo, li, m), \A o \in Op : m[o] \subseteq m2[o],
         w.phase = "fencing" => lo2 # Unnamed /\ li2 = li
  PROVE  MeantAs(w, lo2, li2, m2)
<1>1. w.phase = "sent" => w.batch \subseteq Op
  BY FlightFields
<1> QED BY <1>1 DEF MeantAs

\* So it is with all flights of a step that moves none of them.
LEMMA FlightsStay ==
  ASSUME TypeOK, Apart, flight' = flight, \A o \in Op : meant[o] \subseteq meant'[o],
         local # Unnamed => local' # Unnamed /\ live' = live
  PROVE  \A f \in Flight : FlightMeant(flight[f])'
<1> SUFFICES ASSUME NEW f \in Flight PROVE MeantAs(flight[f], local', live', meant')
  BY DEF FlightMeant, MeantAs
<1>1. MeantAs(flight[f], local, live, meant)
  BY DEF Apart, FlightMeant, MeantAs
<1>2. flight[f] \in Flights
  BY DEF TypeOK
<1>3. flight[f].phase = "fencing" => local # Unnamed
  BY <1>1 DEF MeantAs
<1> QED BY <1>1, <1>2, <1>3, MeantStays

\* And of a step that moves one of them to a record that is meant.
LEMMA FlightsMove ==
  ASSUME TypeOK, Apart, NEW f \in Flight, NEW v, Becomes(f, v), MeantAs(v, local', live', meant'),
         local' = local, live' = live, meant' = meant
  PROVE  \A g \in Flight : FlightMeant(flight[g])'
<1> SUFFICES ASSUME NEW g \in Flight PROVE MeantAs(flight'[g], local', live', meant')
  BY DEF FlightMeant, MeantAs
<1>1. CASE g = f
  BY <1>1 DEF Becomes, TypeOK
<1>2. CASE g # f
  BY <1>2 DEF Becomes, TypeOK, Apart, FlightMeant, MeantAs
<1> QED BY <1>1, <1>2

\* A push already on the wire stays meant.
LEMMA WireStays ==
  ASSUME TypeOK, WireMeant, \A o \in Op : meant[o] \subseteq meant'[o], wire' \subseteq wire
  PROVE  WireMeant'
  BY DEF WireMeant, TypeOK, Pushes

\* An outlet's log grows by what the push it serves was meant to bring there.
LEMMA ServedAsMeant ==
  ASSUME TypeOK, FenceHolds, NEW A, NEW B, NEW R, Serves(A, B, R), meant' = meant,
         \A o \in A : live \in meant[o]
  PROVE  FenceHolds'
<1>1. log' = [log EXCEPT ![live] = @ \cup (A \ R)]
  BY DEF Serves
<1>2. ASSUME NEW i \in Install, NEW o \in log'[i] PROVE i \in meant[o]
  <2>0. log \in [Install -> SUBSET Op]
    BY DEF TypeOK
  <2>1. \/ o \in log[i]
        \/ i = live /\ o \in A
    BY <1>1, <1>2, <2>0
  <2> QED BY <2>1 DEF FenceHolds
<1> QED BY <1>2 DEF FenceHolds

\* Ops gain installs they are meant for and lose none.
LEMMA MeantGrows ==
  TypeOK /\ Apart /\ [Next]_vars => \A o \in Op : meant[o] \subseteq meant'[o]
<1> SUFFICES ASSUME TypeOK, Apart, [Next]_vars PROVE \A o \in Op : meant[o] \subseteq meant'[o]
  OBVIOUS
<1>1. ASSUME NEW p \in Op, Enqueue(p) PROVE \A o \in Op : meant[o] \subseteq meant'[o]
  BY <1>1 DEF Enqueue, TypeOK, Apart, RowsMeant
<1>2. CASE Queue \/ RecordDiscard
  BY <1>1, <1>2, ClockAssumption DEF Queue, RecordDiscard, ClockAssumption
<1>3. CASE RetryOp
  <2>1. PICK p, i : p \in Op /\ meant' = [meant EXCEPT ![p] = @ \cup {i}]
    BY <1>3 DEF RetryOp
  <2> QED BY <2>1 DEF TypeOK
<1>4. CASE meant' = meant
  BY <1>4
<1>5. \/ Queue \/ RecordDiscard \/ RetryOp \/ meant' = meant
  BY DEF Next, Fly, vars, history, DiscardOp, SignIn, SessionEnds, Boot, Reread, Crash, WipeLocal, Reload,
     SwitchInstall, TurnedAway, ServeLate, Start, Read, ParkStranger, Send, Serve, Unauthorised,
     LoseAnswer, DeleteAcked, PutRefused, Finish
<1> QED BY <1>2, <1>3, <1>4, <1>5

\* A terminal that was never signed in holds no name.
LEMMA ApartInit == Init => Apart /\ FenceHolds
  BY DEF Init, Apart, Named, RowsMeant, FlightMeant, WireMeant, FenceHolds, NoRow, Idle

\* No action mixes the databases up, the change of install included.
LEMMA ApartStep ==
  CleanSwitch /\ TypeOK /\ Apart /\ FenceHolds /\ [Next]_vars => Apart' /\ FenceHolds'
<1> SUFFICES ASSUME CleanSwitch, TypeOK, Apart, FenceHolds, [Next]_vars PROVE Apart' /\ FenceHolds'
  OBVIOUS
<1> USE NameAssumption DEF NameAssumption
<1>g. \A o \in Op : meant[o] \subseteq meant'[o]
  BY MeantGrows
<1>n. /\ known \in {Unnamed, local} /\ local \in {Unnamed, live} /\ session \in {Nobody, Ended, live}
      /\ live \in Install /\ Inst \in {Unnamed, live} /\ live # Unnamed /\ live # Nobody /\ live # Ended
  BY DEF Apart, Named, TypeOK, Inst
<1>r. /\ \A o \in Op : store[o].here => store[o].install \in meant[o]
      /\ \A o \in Op : o \notin made => meant[o] = {}
  BY DEF Apart, RowsMeant
<1>t. /\ store \in [Op -> Rows] /\ meant \in [Op -> SUBSET Names]
      /\ \A f \in Flight : flight[f] \in Flights /\ MeantAs(flight[f], local, live, meant)
  BY DEF TypeOK, Apart, FlightMeant, MeantAs
<1>w. \A n, q, i : Row(n, q, i).install = i
  BY DEF Row
<1>1. CASE UNCHANGED vars
  BY <1>1 DEF vars, page, server, history, Apart, Named, RowsMeant, WireMeant, FlightMeant, FenceHolds
<1>f. log' = log => FenceHolds'
  BY <1>g DEF FenceHolds, TypeOK
<1>s. wire' \subseteq wire => WireMeant'
  BY <1>g, WireStays DEF Apart
<1>2. ASSUME NEW o \in Op, Enqueue(o) PROVE RowsMeant'
  <2>1. /\ store'[o].install = Inst /\ meant'[o] = {Inst} /\ o \in made'
        /\ \A p \in Op \ {o} : store'[p] = store[p] /\ meant'[p] = meant[p] /\ (p \in made' <=> p \in made)
    BY <1>2, <1>t, <1>w DEF Enqueue
  <2> QED BY <1>r, <2>1 DEF RowsMeant
<1>3. CASE Queue
  <2>1. RowsMeant'
    BY <1>2, <1>3 DEF Queue
  <2>2. Named'
    BY <1>3, <1>n DEF Queue, Named, server
  <2> QED BY <1>3, <1>f, <1>g, <1>s, <2>1, <2>2, FlightsStay DEF Queue, server, Apart
<1>4. CASE RecordDiscard
  <2>1. RowsMeant'
    BY <1>2, <1>4, ClockAssumption DEF RecordDiscard, ClockAssumption
  <2>2. Named'
    BY <1>4, <1>n DEF RecordDiscard, Named, server
  <2> QED BY <1>4, <1>f, <1>g, <1>s, <2>1, <2>2, FlightsStay DEF RecordDiscard, server, Apart
<1>5. CASE RetryOp
  <2>1. PICK o, i : /\ o \in Op
                    /\ store[o].here
                    /\ store' = [store EXCEPT ![o] = Row(0, FALSE, i)]
                    /\ meant' = [meant EXCEPT ![o] = @ \cup {i}]
    BY <1>5 DEF RetryOp
  <2>2. RowsMeant'
    <3>1. store'[o].install = i /\ \A p \in Op \ {o} : store'[p] = store[p]
      BY <1>t, <1>w, <2>1
    <3>2. i \in meant'[o] /\ \A p \in Op \ {o} : meant'[p] = meant[p]
      BY <1>t, <2>1
    <3>3. o \in made /\ made' = made
      BY <1>5, <1>r, <2>1 DEF RetryOp
    <3> QED BY <1>r, <3>1, <3>2, <3>3 DEF RowsMeant
  <2>3. Named'
    BY <1>5, <1>n DEF RetryOp, Named, server
  <2> QED BY <1>5, <1>f, <1>g, <1>s, <2>2, <2>3, FlightsStay DEF RetryOp, server, Apart
<1>6. CASE DiscardOp
  <2>1. RowsMeant'
    BY <1>6, <1>r, <1>t DEF DiscardOp, RowsMeant, NoRow
  <2>2. Named'
    BY <1>6, <1>n DEF DiscardOp, Named, server
  <2> QED BY <1>6, <1>f, <1>g, <1>s, <2>1, <2>2, FlightsStay DEF DiscardOp, server, Apart
<1>7. CASE SignIn \/ SessionEnds \/ Boot \/ Reread \/ TurnedAway
  <2>1. Named'
    BY <1>7, <1>n DEF SignIn, SessionEnds, Boot, Reread, TurnedAway, Bootstrap, Named, server
  <2>2. RowsMeant'
    BY <1>7, <1>r DEF SignIn, SessionEnds, Boot, Reread, TurnedAway, RowsMeant, history
  <2>3. /\ flight' = flight /\ log' = log /\ wire' = wire
        /\ local # Unnamed => local' # Unnamed /\ live' = live
    BY <1>7, <1>n DEF SignIn, SessionEnds, Boot, Reread, TurnedAway, Bootstrap, server
  <2> QED BY <1>f, <1>g, <1>s, <2>1, <2>2, <2>3, FlightsStay DEF Apart
<1>8. CASE Crash \/ WipeLocal
  <2>1. Named'
    BY <1>8, <1>n DEF Crash, WipeLocal, Reload, Named
  <2>2. RowsMeant'
    BY <1>8, <1>r DEF Crash, WipeLocal, Reload, RowsMeant
  <2>3. \A f \in Flight : FlightMeant(flight[f])'
    BY <1>8 DEF Crash, WipeLocal, Reload, Idle, FlightMeant
  <2>4. meant' = meant /\ log' = log
    BY <1>8 DEF Crash, WipeLocal, Reload
  <2>5. ASSUME NEW f \in Flight, flight[f].phase = "sent"
        PROVE  \A o \in Pushed(f).batch : Pushed(f).token \in meant[o] \cup {Nobody, Ended}
    BY <1>t, <2>5 DEF MeantAs, Pushed
  <2>6. WireMeant'
    BY <1>8, <2>4, <2>5 DEF Crash, WipeLocal, Reload, Apart, WireMeant
  <2> QED BY <1>f, <2>1, <2>2, <2>3, <2>4, <2>6 DEF Apart
<1>9. CASE SwitchInstall
  <2>1. local = Unnamed /\ session = Nobody /\ known = Unnamed
    BY <1>9 DEF SwitchInstall
  <2>2. Named'
    BY <1>9, <2>1 DEF SwitchInstall, Named, page
  <2>3. RowsMeant'
    BY <1>9, <1>r DEF SwitchInstall, RowsMeant, history
  <2>4. \A f \in Flight : FlightMeant(flight[f])'
    BY <1>9, <1>g, <2>1, FlightsStay DEF SwitchInstall, page
  <2> QED BY <1>9, <1>f, <1>s, <2>2, <2>3, <2>4 DEF SwitchInstall, Apart
<1>10. CASE ServeLate
  <2>1. PICK w \in wire, n \in 0..Cardinality(Op), R \in SUBSET Op :
          /\ w.token = live
          /\ Serves({o \in w.batch : Cardinality({p \in w.batch : Lamport[p] < Lamport[o]}) < n}, w.fresh, R)
          /\ wire' = wire \ {w}
    BY <1>10 DEF ServeLate
  <2>2. \A o \in w.batch : live \in meant[o]
    BY <1>n, <2>1 DEF Apart, WireMeant
  <2>3. FenceHolds'
    <3> DEFINE A == {o \in w.batch : Cardinality({p \in w.batch : Lamport[p] < Lamport[o]}) < n}
    <3>1. \A o \in A : live \in meant[o]
      BY <2>2
    <3>2. Serves(A, w.fresh, R) /\ meant' = meant
      BY <1>10, <2>1 DEF ServeLate
    <3> HIDE DEF A
    <3> QED BY <3>1, <3>2, ServedAsMeant
  <2>4. Named' /\ RowsMeant'
    BY <1>10, <1>n, <1>r DEF ServeLate, Named, RowsMeant, page
  <2> QED BY <1>10, <1>g, <1>s, <2>1, <2>3, <2>4, FlightsStay DEF ServeLate, page, Apart
<1>11. ASSUME NEW f \in Flight, Start(f) \/ Fly(f) \/ LoseAnswer(f) PROVE Apart' /\ FenceHolds'
  <2> DEFINE w == flight[f]
             Quiet == /\ UNCHANGED <<local, known, live, meant, made>>
                      /\ session' = session \/ session' = Nobody
  <2>0. w \in Flights /\ MeantAs(w, local, live, meant)
    BY <1>t
  <2>1. Quiet => Named'
    BY <1>n DEF Named
  <2>2. Quiet /\ store' = store => RowsMeant'
    BY <1>r DEF RowsMeant
  <2>3. ASSUME Quiet, NEW o \in Op, NEW n, NEW q, w.copy[o].here, w.phase \in {"fencing", "answered"},
               store' = [store EXCEPT ![o] = Row(n, q, w.copy[o].install)]
        PROVE  RowsMeant'
    BY <1>r, <1>t, <1>w, <2>0, <2>3 DEF RowsMeant, MeantAs
  <2>4. ASSUME Quiet, NEW v, Becomes(f, v), MeantAs(v, local, live, meant), RowsMeant',
               log' = log, wire' \subseteq wire
        PROVE  Apart' /\ FenceHolds'
    BY <1>f, <1>s, <2>1, <2>4, FlightsMove DEF Apart
  <2>5. MeantAs(Idle, local, live, meant) /\ MeantAs(Reading, local, live, meant)
    BY DEF MeantAs, Idle, Reading
  <2>6. CASE Start(f)
    BY <2>2, <2>4, <2>5, <2>6 DEF Start, server, history
  <2>7. CASE Read(f)
    <3>1. ASSUME Inst # Unnamed, NEW S, S = {o \in Op : store[o].here /\ ~store[o].parked /\ store[o].install # Inst}
          PROVE  MeantAs(Fencing(store, Inst, S), local, live, meant)
      <4>1. Inst = live /\ local # Unnamed
        BY <1>n, <3>1 DEF Inst
      <4> QED BY <1>r, <3>1, <4>1 DEF MeantAs, Fencing
    <3> QED BY <2>2, <2>4, <2>5, <2>7, <3>1 DEF Read, server, history
  <2>8. CASE ParkStranger(f)
    <3>1. PICK o \in w.strangers :
            /\ store' = [store EXCEPT ![o] = Row(w.copy[o].attempts, TRUE, w.copy[o].install)]
            /\ Becomes(f, Fencing(w.copy, w.inst, w.strangers \ {o}))
      BY <2>8 DEF ParkStranger
    <3>2. w.phase = "fencing" /\ w.strangers \subseteq Op
      BY <2>0, <2>8, FlightFields DEF ParkStranger
    <3>3. w.copy[o].here /\ MeantAs(Fencing(w.copy, w.inst, w.strangers \ {o}), local, live, meant)
      BY <2>0, <3>2 DEF MeantAs, Fencing
    <3>4. Quiet /\ log' = log /\ wire' = wire
      BY <2>8 DEF ParkStranger, server, history
    <3>5. RowsMeant'
      BY <2>3, <3>1, <3>2, <3>3, <3>4
    <3> QED BY <2>4, <3>1, <3>3, <3>4, <3>5
  <2>9. CASE Send(f)
    <3>1. Quiet /\ store' = store /\ log' = log /\ wire' = wire
      BY <2>9 DEF Send, server, history
    <3>2. CASE Mine(f) = {}
      BY <2>2, <2>4, <2>5, <2>9, <3>1, <3>2 DEF Send
    <3>3. CASE Mine(f) # {}
      <4> DEFINE batch == Foremost(Mine(f))
      <4>1. Becomes(f, Sent(Copied(f, batch), batch, batch \ log[live], session))
        BY <2>9, <3>3 DEF Send
      <4>2. w.phase = "fencing" /\ w.inst = live
        BY <2>0, <2>9 DEF Send, MeantAs
      <4>3. \A o \in batch : o \in Op /\ w.copy[o].here /\ w.copy[o].install = live
        BY <4>2 DEF Foremost, Mine
      <4>4. \A o \in Op : w.copy[o].here => w.copy[o].install \in meant[o]
        BY <2>0, <4>2 DEF MeantAs
      <4>5. \A o \in Op : Copied(f, batch)[o] = IF o \in batch THEN w.copy[o] ELSE NoRow
        BY DEF Copied
      <4>6. \A o \in batch : session \in meant[o] \cup {Nobody, Ended}
        BY <1>n, <4>3, <4>4
      <4> HIDE DEF batch
      <4>7. MeantAs(Sent(Copied(f, batch), batch, batch \ log[live], session), local, live, meant)
        BY <4>3, <4>4, <4>5, <4>6 DEF MeantAs, Sent, NoRow
      <4> QED BY <2>2, <2>4, <3>1, <4>1, <4>7
    <3> QED BY <3>2, <3>3
  <2>10. CASE Serve(f)
    <3>1. PICK R \in SUBSET Op : /\ Serves(w.batch, w.fresh, R)
                                 /\ Becomes(f, Answered(Copied(f, R), w.batch \ R, R))
      BY <2>10 DEF Serve
    <3>2. w.phase = "sent" /\ w.token = live
      BY <2>10 DEF Serve
    <3>3. \A o \in w.batch : live \in meant[o]
      BY <1>n, <2>0, <3>2 DEF MeantAs
    <3>4. FenceHolds'
      BY <2>10, <3>1, <3>3, ServedAsMeant DEF Serve
    <3>5. R \subseteq w.batch
      BY <2>0, <3>1, <3>2 DEF MeantAs, Serves
    <3>6. \A o \in Op : Copied(f, R)[o] = IF o \in R THEN w.copy[o] ELSE NoRow
      BY DEF Copied
    <3>7. MeantAs(Answered(Copied(f, R), w.batch \ R, R), local, live, meant)
      BY <2>0, <3>2, <3>5, <3>6 DEF MeantAs, Answered, NoRow
    <3>8. Quiet /\ store' = store /\ wire' = wire
      BY <2>10 DEF Serve
    <3> QED BY <1>s, <2>1, <2>2, <3>1, <3>4, <3>7, <3>8, FlightsMove DEF Apart
  <2>11. CASE Unauthorised(f) \/ Finish(f)
    BY <2>2, <2>4, <2>5, <2>11 DEF Unauthorised, Finish, Lands, server, history
  <2>12. CASE LoseAnswer(f)
    <3>1. \A o \in Pushed(f).batch : Pushed(f).token \in meant[o] \cup {Nobody, Ended}
      BY <2>0, <2>12 DEF LoseAnswer, MeantAs, Pushed
    <3>2. WireMeant'
      BY <2>12, <3>1 DEF LoseAnswer, Apart, WireMeant
    <3>3. Becomes(f, Idle) /\ Quiet /\ store' = store /\ log' = log
      BY <2>12 DEF LoseAnswer, Lands
    <3> QED BY <1>f, <2>1, <2>2, <2>5, <3>2, <3>3, FlightsMove DEF Apart
  <2>13. CASE DeleteAcked(f)
    <3>1. PICK o \in w.acks : /\ store' = [store EXCEPT ![o] = NoRow]
                              /\ Becomes(f, Answered(w.copy, w.acks \ {o}, w.errors))
      BY <2>13 DEF DeleteAcked
    <3>2. Quiet /\ log' = log /\ wire' = wire
      BY <2>13 DEF DeleteAcked, server, history
    <3>3. MeantAs(Answered(w.copy, w.acks \ {o}, w.errors), local, live, meant)
      BY <2>0, <2>13 DEF DeleteAcked, MeantAs, Answered
    <3>4. RowsMeant'
      BY <1>r, <1>t, <3>1, <3>2 DEF RowsMeant, NoRow
    <3> QED BY <2>4, <3>1, <3>2, <3>3, <3>4
  <2>14. CASE PutRefused(f)
    <3>1. PICK o, n, q : /\ o \in w.errors
                         /\ store' = [store EXCEPT ![o] = Row(n, q, w.copy[o].install)]
                         /\ Becomes(f, Answered(w.copy, {}, w.errors \ {o}))
      BY <2>14 DEF PutRefused
    <3>2. Quiet /\ log' = log /\ wire' = wire
      BY <2>14 DEF PutRefused, server, history
    <3>3. w.phase = "answered" /\ o \in Op
      BY <2>0, <2>14, <3>1, FlightFields DEF PutRefused
    <3>4. w.copy[o].here /\ MeantAs(Answered(w.copy, {}, w.errors \ {o}), local, live, meant)
      BY <2>0, <3>1, <3>3 DEF MeantAs, Answered
    <3>5. RowsMeant'
      BY <2>3, <3>1, <3>2, <3>3, <3>4
    <3> QED BY <2>4, <3>1, <3>2, <3>4, <3>5
  <2> QED BY <1>11, <2>6, <2>7, <2>8, <2>9, <2>10, <2>11, <2>12, <2>13, <2>14 DEF Fly
<1> QED BY <1>1, <1>3, <1>4, <1>5, <1>6, <1>7, <1>8, <1>9, <1>10, <1>11 DEF Next

\* FenceHolds, if the outlet id changes hands by a full log-out only: no op is
\* ever applied by an install it was not queued against or adopted into.
THEOREM InstallsKeptApart ==
  ASSUME CleanSwitch
  PROVE  Spec => []FenceHolds
  BY ApartInit, ApartStep, TypeInit, TypeStep, PTL DEF Spec

-----------------------------------------------------------------------------
(* The order of work. An op queued against an install and never set aside  *)
(* leaves the replay of that install only applied or refused, so a flight  *)
(* that takes a later op has the earlier one in its copy, ahead of it.     *)

\* The ops of the floor meant for one install and no other.
Floor == [i \in Install |-> {o \in made \ Record : meant[o] = {i}}]

\* Those a later op of install i may go ahead of: applied there, refused once,
\* or of an install that is no longer there.
Past == [i \in Install |-> {o \in Op : o \in log[i] \/ refusals[o] > 0 \/ live # i}]

\* A row that the replay of install i takes.
Replays(row, i) == row.here /\ ~row.parked /\ row.install = i

\* A push carries no op ahead of an earlier one that is not past.
InOrder(batch, floor, past) ==
  \A i \in Install : \A o \in floor[i], p \in floor[i] \cap batch :
    Lamport[o] < Lamport[p] => o \in batch \cup past[i]

\* A copy of the rows that holds a later op holds the earlier ones not past.
CopyInOrder(copy, floor, past) ==
  \A i \in Install : \A o \in floor[i] :
    \/ o \in past[i]
    \/ Replays(copy[o], i)
    \/ \A p \in Op \ Record : copy[p].here => Lamport[p] < Lamport[o]

\* So do the runs of flush(), which park strangers only and count what was refused.
FlightInOrder(w, floor, past, refused) ==
  /\ w.phase = "fencing" => /\ CopyInOrder(w.copy, floor, past)
                            /\ \A o \in w.strangers : w.copy[o].install # w.inst
  /\ w.phase = "sent" => InOrder(w.batch, floor, past)
  /\ w.phase = "answered" => \A o \in w.errors : refused[o] > 0

\* No op is meant for an install that is still to come, nor made for none.
Present == /\ \A o \in Op : meant[o] \subseteq {Unnamed, First, live}
           /\ \A o \in made : meant[o] # {}
           /\ IsFiniteSet(made)

\* An op of the floor is in the replay until it is past.
Waits == \A i \in Install : \A o \in Floor[i] : o \in Past[i] \/ Replays(store[o], i)

Orderly == /\ Waits
           /\ \A f \in Flight : FlightInOrder(flight[f], Floor, Past, refusals)
           /\ \A w \in wire : InOrder(w.batch, Floor, Past)

\* What a step does to the floor and to what is past, with M made before it: an
\* op that joins the floor is later than all of M.
Advances(floor, past, floor2, past2, M) ==
  \A i \in Install : \A o \in floor2[i] :
    \/ o \in floor[i] /\ (o \in past[i] => o \in past2[i])
    \/ o \notin M /\ \A p \in M \ Record : Lamport[p] < Lamport[o]

\* Ops of the floor are ops made.
LEMMA FloorMade ==
  ASSUME TypeOK
  PROVE  \A i \in Install : Floor[i] \subseteq made \ Record /\ Floor[i] \subseteq Op
  BY DEF Floor, TypeOK

\* A push that was in order stays so.
LEMMA InOrderStays ==
  ASSUME NEW batch, NEW floor, NEW past, NEW floor2, NEW past2, NEW M \in SUBSET Op,
         InOrder(batch, floor, past), Advances(floor, past, floor2, past2, M), batch \subseteq M,
         \A i \in Install : floor2[i] \subseteq Op \ Record
  PROVE  InOrder(batch, floor2, past2)
<1> SUFFICES ASSUME NEW i \in Install, NEW o \in floor2[i], NEW p \in floor2[i] \cap batch,
                    Lamport[o] < Lamport[p]
             PROVE  o \in batch \cup past2[i]
  BY DEF InOrder
<1>1. p \in floor[i] /\ p \in M \ Record
  BY DEF Advances
<1>2. Lamport[o] \in Nat /\ Lamport[p] \in Nat
  BY ClockAssumption DEF ClockAssumption
<1>3. o \in floor[i] /\ (o \in past[i] => o \in past2[i])
  BY <1>1, <1>2 DEF Advances
<1> QED BY <1>1, <1>3 DEF InOrder

\* So does a copy of the rows.
LEMMA CopyInOrderStays ==
  ASSUME NEW copy, NEW floor, NEW past, NEW floor2, NEW past2, NEW M \in SUBSET Op,
         CopyInOrder(copy, floor, past), Advances(floor, past, floor2, past2, M),
         \A p \in Op : copy[p].here => p \in M
  PROVE  CopyInOrder(copy, floor2, past2)
  BY DEF CopyInOrder, Advances

\* So does a flight.
LEMMA FlightInOrderStays ==
  ASSUME NEW w \in Flights, NEW floor, NEW past, NEW refused, NEW floor2, NEW past2, NEW refused2,
         NEW M \in SUBSET Op,
         FlightInOrder(w, floor, past, refused), Advances(floor, past, floor2, past2, M),
         w.phase \in {"fencing", "sent"} => \A p \in Op : w.copy[p].here => p \in M,
         w.phase = "sent" => w.batch \subseteq M,
         \A i \in Install : floor2[i] \subseteq Op \ Record,
         \A o \in Op : refused[o] > 0 => refused2[o] > 0
  PROVE  FlightInOrder(w, floor2, past2, refused2)
<1>1. CASE w.phase = "fencing"
  <2>1. CopyInOrder(w.copy, floor2, past2)
    BY <1>1, CopyInOrderStays DEF FlightInOrder
  <2> QED BY <1>1, <2>1 DEF FlightInOrder
<1>2. CASE w.phase = "sent"
  <2>1. InOrder(w.batch, floor2, past2)
    BY <1>2, InOrderStays DEF FlightInOrder
  <2> QED BY <1>2, <2>1 DEF FlightInOrder
<1>3. CASE w.phase = "answered"
  <2>1. w.errors \subseteq Op
    BY <1>3, FlightFields
  <2> QED BY <1>3, <2>1 DEF FlightInOrder
<1>4. CASE w.phase \in {"idle", "reading"}
  BY <1>4 DEF FlightInOrder
<1> QED BY <1>1, <1>2, <1>3, <1>4, FlightFields

\* Only queue() makes an op, and numbers those of the floor upwards.
LEMMA MadeStep ==
  ASSUME TypeOK, [Next]_vars
  PROVE  \/ made' = made
         \/ \E o \in Op : /\ o \notin made /\ made' = made \cup {o}
                          /\ meant' = [meant EXCEPT ![o] = {Inst}]
                          /\ store' = [store EXCEPT ![o] = Row(0, FALSE, Inst)]
                          /\ live' = live
                          /\ o \in Record \/ \A p \in made \ Record : Lamport[p] < Lamport[o]
<1>1. CASE Queue
  BY <1>1 DEF Queue, Enqueue, server
<1>2. CASE RecordDiscard
  BY <1>2, ClockAssumption DEF RecordDiscard, Enqueue, server, ClockAssumption
<1>3. \/ Queue \/ RecordDiscard \/ made' = made
  BY DEF Next, Fly, vars, history, RetryOp, DiscardOp, SignIn, SessionEnds, Boot, Reread, Crash, WipeLocal, Reload,
     SwitchInstall, TurnedAway, ServeLate, Start, Read, ParkStranger, Send, Serve, Unauthorised,
     LoseAnswer, DeleteAcked, PutRefused, Finish
<1> QED BY <1>1, <1>2, <1>3

\* A person may adopt an op into the install the page names, or its own.
LEMMA MeantStep ==
  ASSUME TypeOK, Apart, [Next]_vars, made' = made
  PROVE  \/ meant' = meant
         \/ \E o \in made : \E i \in {Inst} \cup meant[o] :
              meant' = [meant EXCEPT ![o] = @ \cup {i}] /\ live' = live
<1>1. CASE RetryOp
  <2>1. PICK o \in Op :
          /\ store[o].here
          /\ LET adopted == IF Inst # Unnamed THEN Inst ELSE store[o].install
             IN  meant' = [meant EXCEPT ![o] = @ \cup {adopted}]
    BY <1>1 DEF RetryOp
  <2>2. o \in made /\ store[o].install \in meant[o]
    BY <2>1 DEF Apart, RowsMeant
  <2>3. live' = live
    BY <1>1 DEF RetryOp, server
  <2> QED BY <2>1, <2>2, <2>3
<1>2. CASE Queue \/ RecordDiscard
  BY <1>2 DEF Queue, RecordDiscard, Enqueue
<1>3. \/ Queue \/ RecordDiscard \/ RetryOp \/ meant' = meant
  BY DEF Next, Fly, vars, history, DiscardOp, SignIn, SessionEnds, Boot, Reread, Crash, WipeLocal, Reload,
     SwitchInstall, TurnedAway, ServeLate, Start, Read, ParkStranger, Send, Serve, Unauthorised,
     LoseAnswer, DeleteAcked, PutRefused, Finish
<1> QED BY <1>1, <1>2, <1>3

\* The outlet id leaves the first install once, for a new one.
LEMMA LiveStep ==
  ASSUME [Next]_vars
  PROVE  \/ live' = live
         \/ live = First /\ meant' = meant /\ live' # First
<1>1. CASE SwitchInstall
  BY <1>1 DEF SwitchInstall, history
<1>2. SwitchInstall \/ live' = live
  BY DEF Next, Fly, vars, server, Queue, RecordDiscard, RetryOp, DiscardOp, SignIn, SessionEnds, Boot, Reread, Crash,
     WipeLocal, Reload, TurnedAway, ServeLate, Start, Read, ParkStranger, Send, Serve, Unauthorised,
     LoseAnswer, DeleteAcked, PutRefused, Finish
<1> QED BY <1>1, <1>2

\* The log and the refusals change by serving a push, and only grow.
LEMMA LogStep ==
  ASSUME TypeOK, [Next]_vars
  PROVE  /\ \A i \in Install : log[i] \subseteq log'[i]
         /\ \A o \in Op : refusals[o] > 0 => refusals'[o] > 0
<1>1. ASSUME NEW A, NEW B, NEW R, Serves(A, B, R)
      PROVE  /\ \A i \in Install : log[i] \subseteq log'[i]
             /\ \A o \in Op : refusals[o] > 0 => refusals'[o] > 0
  BY <1>1 DEF Serves, TypeOK
<1>2. CASE log' = log /\ refusals' = refusals
  BY <1>2
<1>3. CASE ServeLate
  BY <1>1, <1>3 DEF ServeLate
<1>4. CASE \E f \in Flight : Serve(f)
  BY <1>1, <1>4 DEF Serve
<1>5. \/ ServeLate \/ (\E f \in Flight : Serve(f))
      \/ log' = log /\ refusals' = refusals
  BY DEF Next, Fly, vars, server, history, Queue, Enqueue, RecordDiscard, RetryOp, DiscardOp, SignIn, SessionEnds, Boot,
     Reread, Crash, WipeLocal, Reload, SwitchInstall, TurnedAway, Start, Read, ParkStranger, Send, Unauthorised,
     LoseAnswer, DeleteAcked, PutRefused, Finish
<1> QED BY <1>2, <1>3, <1>4, <1>5

\* Nothing is meant for an install that is still to come.
LEMMA PresentStep ==
  ASSUME TypeOK, Apart, Present, [Next]_vars
  PROVE  Present'
<1>1. Inst \in {Unnamed, live} /\ live \in Install
  BY DEF Apart, Named, TypeOK, Inst
<1>2. meant \in [Op -> SUBSET Names] /\ made \subseteq Op
  BY DEF TypeOK
<1>3. CASE made' = made
  <2>1. CASE meant' = meant
    BY <1>3, <2>1, LiveStep DEF Present
  <2>2. CASE \E o \in made : \E i \in {Inst} \cup meant[o] :
               meant' = [meant EXCEPT ![o] = @ \cup {i}] /\ live' = live
    BY <1>1, <1>2, <1>3, <2>2 DEF Present
  <2> QED BY <1>3, <2>1, <2>2, MeantStep
<1>4. CASE made' # made
  <2>1. PICK o \in Op : /\ made' = made \cup {o} /\ meant' = [meant EXCEPT ![o] = {Inst}]
                        /\ live' = live
    BY <1>4, MadeStep
  <2>2. IsFiniteSet(made')
    BY <2>1, FS_AddElement DEF Present
  <2> QED BY <1>1, <1>2, <2>1, <2>2 DEF Present
<1> QED BY <1>3, <1>4

\* An op joins the floor as the latest of it, and what is past stays past.
LEMMA Advance ==
  ASSUME TypeOK, Apart, Present, [Next]_vars
  PROVE  Advances(Floor, Past, Floor', Past', made)
<1> USE NameAssumption DEF NameAssumption
<1> SUFFICES ASSUME NEW i \in Install, NEW o \in Floor'[i]
             PROVE  \/ o \in Floor[i] /\ (o \in Past[i] => o \in Past'[i])
                    \/ o \notin made /\ \A p \in made \ Record : Lamport[p] < Lamport[o]
  BY DEF Advances
<1>1. o \in made' \ Record /\ meant'[o] = {i}
  BY DEF Floor
<1>2. CASE o \in made
  <2>1. o \in Op /\ meant[o] # {} /\ meant[o] \subseteq {i}
    BY <1>1, <1>2, MeantGrows DEF TypeOK, Present
  <2>2. o \in Floor[i]
    BY <1>1, <1>2, <2>1 DEF Floor
  <2>3. ASSUME live # i PROVE live' # i
    <3>1. i \in {Unnamed, First, live}
      BY <2>1 DEF Present
    <3> QED BY <2>3, <3>1, LiveStep
  <2>4. o \in Past[i] => o \in Past'[i]
    BY <2>1, <2>3, LogStep DEF Past
  <2> QED BY <2>2, <2>4
<1>3. CASE o \notin made
  BY <1>1, <1>3, MadeStep
<1> QED BY <1>2, <1>3

\* A step that takes no row out of a replay but for what is past keeps the rest waiting.
LEMMA WaitsBy ==
  ASSUME TypeOK, Apart, Present, Waits, [Next]_vars,
         \A i \in Install : \A o \in Floor'[i] :
           o \in made => \/ o \in Past'[i]
                         \/ Replays(store[o], i) => Replays(store'[o], i)
  PROVE  Waits'
<1> SUFFICES ASSUME NEW i \in Install, NEW o \in Floor'[i]
             PROVE  o \in Past'[i] \/ Replays(store'[o], i)
  BY DEF Waits
<1>1. CASE o \in made
  <2>1. o \in Floor[i] /\ (o \in Past[i] => o \in Past'[i])
    BY <1>1, Advance DEF Advances
  <2> QED BY <1>1, <2>1 DEF Waits
<1>2. CASE o \notin made
  <2>1. o \in made' /\ meant'[o] = {i}
    BY DEF Floor
  <2>2. /\ o \in Op
        /\ meant' = [meant EXCEPT ![o] = {Inst}]
        /\ store' = [store EXCEPT ![o] = Row(0, FALSE, Inst)]
    BY <1>2, <2>1, MadeStep DEF TypeOK
  <2>3. Inst = i /\ store'[o] = Row(0, FALSE, i)
    BY <2>1, <2>2 DEF TypeOK
  <2> QED BY <2>3 DEF Replays, Row
<1> QED BY <1>1, <1>2

\* What a flight holds was made before.
LEMMA FlightMade ==
  ASSUME TypeOK, Apart, NEW f \in Flight
  PROVE  /\ flight[f].phase \in {"fencing", "sent"} => \A p \in Op : flight[f].copy[p].here => p \in made
         /\ flight[f].phase = "sent" => flight[f].batch \subseteq made
<1>1. MeantAs(flight[f], local, live, meant) /\ flight[f] \in Flights
  BY DEF Apart, FlightMeant, MeantAs, TypeOK
<1>2. \A o \in Op : o \notin made => meant[o] = {}
  BY DEF Apart, RowsMeant
<1>3. flight[f].phase \in {"fencing", "sent"} => \A p \in Op : flight[f].copy[p].here => p \in made
  BY <1>1, <1>2 DEF MeantAs
<1>4. flight[f].phase = "sent" => flight[f].batch \subseteq Op /\ \A o \in flight[f].batch : flight[f].copy[o].here
  BY <1>1, FlightFields DEF MeantAs
<1> QED BY <1>3, <1>4

\* Every flight a step leaves alone stays in order.
LEMMA InOrderStill ==
  ASSUME TypeOK, TypeOK', Apart, Present, Orderly, [Next]_vars, NEW f \in Flight, flight'[f] = flight[f]
  PROVE  FlightInOrder(flight'[f], Floor', Past', refusals')
<1>1. \A i \in Install : Floor'[i] \subseteq Op \ Record
  BY DEF Floor, TypeOK
<1>2. \A o \in Op : refusals[o] > 0 => refusals'[o] > 0
  BY LogStep
<1>3. FlightInOrder(flight[f], Floor, Past, refusals) /\ flight[f] \in Flights /\ made \in SUBSET Op
  BY DEF Orderly, TypeOK
<1> HIDE DEF Present, Orderly, Floor, Past
<1> QED BY <1>1, <1>2, <1>3, Advance, FlightMade, FlightInOrderStays

\* A push on the wire holds ops that were made.
WireMade == \A w \in wire : w.batch \subseteq made

\* The wires a step leaves, and the push a flight gave up on, are in order.
LEMMA WiresStill ==
  ASSUME TypeOK, TypeOK', Apart, Present, Orderly, WireMade, [Next]_vars,
         \A w \in wire' : w \in wire \/ \E f \in Flight : flight[f].phase = "sent" /\ w = Pushed(f)
  PROVE  /\ \A w \in wire' : InOrder(w.batch, Floor', Past')
         /\ WireMade'
<1>1. \A i \in Install : Floor'[i] \subseteq Op \ Record
  BY DEF Floor, TypeOK
<1>2. ASSUME NEW w \in wire' PROVE InOrder(w.batch, Floor, Past) /\ w.batch \subseteq made
  <2>1. CASE w \in wire
    BY <2>1 DEF Orderly, WireMade
  <2>2. CASE \E f \in Flight : flight[f].phase = "sent" /\ w = Pushed(f)
    BY <2>2, FlightMade DEF Orderly, FlightInOrder, Pushed
  <2> QED BY <1>2, <2>1, <2>2
<1>3. made \in SUBSET Op /\ made \subseteq made'
  BY MadeStep DEF TypeOK
<1>4. \A w \in wire' : InOrder(w.batch, Floor', Past')
  BY <1>1, <1>2, <1>3, Advance, InOrderStays
<1> QED BY <1>2, <1>3, <1>4 DEF WireMade

\* The first of a finite set of rows, by number, come before the others.
LEMMA Earlier ==
  ASSUME NEW S \in SUBSET Op, IsFiniteSet(S), NEW o \in S, NEW p \in S, NEW n \in Nat,
         Lamport[o] < Lamport[p], Cardinality({q \in S : Lamport[q] < Lamport[p]}) < n
  PROVE  Cardinality({q \in S : Lamport[q] < Lamport[o]}) < n
<1> DEFINE A == {q \in S : Lamport[q] < Lamport[o]}
           B == {q \in S : Lamport[q] < Lamport[p]}
<1>1. \A q \in Op : Lamport[q] \in Nat
  BY ClockAssumption DEF ClockAssumption
<1>2. A \subseteq B
  BY <1>1
<1>3. IsFiniteSet(B)
  BY FS_Subset
<1>4. Cardinality(A) \in Nat /\ Cardinality(B) \in Nat /\ Cardinality(A) <= Cardinality(B)
  BY <1>2, <1>3, FS_Subset, FS_CardinalityType
<1> QED BY <1>4

\* An answer leaves the work in order if what it went through is the push up to
\* some op: the rest of the push is later.
LEMMA ServedInOrder ==
  ASSUME TypeOK, NoOvertaking, NEW B \in SUBSET made, NEW A \in SUBSET B, NEW fresh, NEW R \in SUBSET Op,
         InOrder(B, Floor, Past), Serves(A, fresh, R), made' = made, meant' = meant,
         \A p \in A : \A o \in B : Lamport[o] < Lamport[p] => o \in A
  PROVE  NoOvertaking'
<1> SUFFICES ASSUME NEW i \in Install, NEW p \in log'[i] \ Record, NEW o \in made \ Record,
                    meant[o] = {i}, meant[p] = {i}, Lamport[o] < Lamport[p]
             PROVE  o \in log'[i] \/ refusals'[o] > 0
  BY DEF NoOvertaking
<1>1. /\ log' = [log EXCEPT ![live] = @ \cup (A \ R)]
      /\ refusals' = [q \in Op |-> IF q \in R THEN refusals[q] + 1 ELSE refusals[q]]
  BY DEF Serves
<1>2. log \in [Install -> SUBSET Op] /\ live \in Install /\ refusals \in [Op -> 0..MaxRefusals] /\ o \in Op
  BY DEF TypeOK
<1>3. log[i] \subseteq log'[i] /\ (refusals[o] > 0 => refusals'[o] > 0)
  BY <1>1, <1>2, BoundAssumption DEF BoundAssumption
<1>4. CASE p \in log[i]
  BY <1>3, <1>4 DEF NoOvertaking
<1>5. CASE p \notin log[i]
  <2>1. i = live /\ p \in A \ R
    BY <1>1, <1>2, <1>5
  <2>2. p \in Floor[i] \cap B /\ o \in Floor[i]
    BY <2>1 DEF Floor
  <2>3. o \in B \/ o \in Past[i]
    BY <2>2 DEF InOrder
  <2>4. CASE o \in B
    <3>1. o \in A
      BY <2>1, <2>4
    <3> QED BY <1>1, <1>2, <2>1, <3>1
  <2>5. CASE o \in Past[i]
    BY <1>3, <2>1, <2>5 DEF Past
  <2> QED BY <2>3, <2>4, <2>5
<1> QED BY <1>4, <1>5

\* A step that brings no outlet anything leaves the work in order: what it
\* makes is later than what is there.
LEMMA NothingServed ==
  ASSUME TypeOK, Apart, FenceHolds, Present, NoOvertaking, [Next]_vars, log' = log
  PROVE  NoOvertaking'
<1> SUFFICES ASSUME NEW i \in Install, NEW p \in log[i] \ Record, NEW o \in made' \ Record,
                    meant'[o] = {i}, meant'[p] = {i}, Lamport[o] < Lamport[p]
             PROVE  o \in log'[i] \/ refusals'[o] > 0
  BY DEF NoOvertaking
<1>1. p \in Op /\ meant[p] # {} /\ p \in made
  BY DEF TypeOK, FenceHolds, Apart, RowsMeant
<1>2. Lamport[o] \in Nat /\ Lamport[p] \in Nat /\ o \in Op
  BY <1>1, TypeStep, ClockAssumption DEF ClockAssumption, TypeOK
<1>3. o \in made
  <2>1. p \in made \ Record /\ o \in made' /\ o \notin Record /\ ~(Lamport[p] < Lamport[o])
    BY <1>1, <1>2
  <2> QED BY <2>1, MadeStep
<1>4. meant[o] \subseteq {i} /\ meant[o] # {} /\ meant[p] \subseteq {i}
  BY <1>1, <1>2, <1>3, MeantGrows DEF Present
<1>5. meant[o] = {i} /\ meant[p] = {i}
  BY <1>1, <1>4
<1>6. o \in log[i] \/ refusals[o] > 0
  BY <1>3, <1>5 DEF NoOvertaking
<1> QED BY <1>2, <1>6, LogStep

-----------------------------------------------------------------------------
OrderInv == Apart /\ FenceHolds /\ AcksApplied /\ Present /\ Orderly /\ WireMade /\ NoOvertaking

\* A terminal that has queued nothing is in order.
LEMMA OrderInit == Init => Present /\ Orderly /\ WireMade /\ NoOvertaking
<1> SUFFICES ASSUME Init PROVE Present /\ Orderly /\ WireMade /\ NoOvertaking
  OBVIOUS
<1>1. \A i \in Install : Floor[i] = {}
  BY DEF Init, Floor
<1>2. \A f \in Flight : FlightInOrder(flight[f], Floor, Past, refusals)
  BY DEF Init, FlightInOrder, Idle
<1>3. Present
  BY FS_EmptySet DEF Init, Present
<1> QED BY <1>1, <1>2, <1>3 DEF Init, Orderly, Waits, WireMade, NoOvertaking

\* A step that moves one flight, to a record that is in order.
LEMMA InOrderMoves ==
  ASSUME TypeOK, TypeOK', Apart, Present, Orderly, [Next]_vars,
         NEW f \in Flight, NEW v, Becomes(f, v), FlightInOrder(v, Floor', Past', refusals')
  PROVE  \A g \in Flight : FlightInOrder(flight'[g], Floor', Past', refusals')
<1> SUFFICES ASSUME NEW g \in Flight PROVE FlightInOrder(flight'[g], Floor', Past', refusals')
  OBVIOUS
<1>1. CASE g = f
  BY <1>1 DEF Becomes, TypeOK
<1>2. CASE g # f
  <2>1. flight'[g] = flight[g]
    BY <1>2 DEF Becomes, TypeOK
  <2> QED BY <2>1, InOrderStill
<1> QED BY <1>1, <1>2

\* No step puts an op ahead of an earlier one that waits.
LEMMA OrderStep ==
  ASSUME TypeOK, TypeOK', OrderInv, [Next]_vars
  PROVE  Present' /\ Orderly' /\ WireMade' /\ NoOvertaking'
<1> USE NameAssumption DEF NameAssumption
<1>0. Apart /\ FenceHolds /\ AcksApplied /\ Present /\ Orderly /\ Waits /\ WireMade /\ NoOvertaking
  BY DEF OrderInv, Orderly
<1>p. Present'
  BY <1>0, PresentStep
<1>t. /\ store \in [Op -> Rows] /\ flight \in [Flight -> Flights] /\ live \in Install /\ made \subseteq Op
      /\ \A f \in Flight : MeantAs(flight[f], local, live, meant)
  BY <1>0 DEF TypeOK, Apart, FlightMeant, MeantAs
<1>i. /\ Inst \in {Unnamed, live}
      /\ \A i \in Install : Floor[i] \subseteq made \ Record
  BY <1>0 DEF Apart, Named, Inst, Floor
<1>n. made' = made /\ meant' = meant => Floor' = Floor
  BY DEF Floor
<1>a. ASSUME Waits', flight' = flight, wire' = wire, log' = log
      PROVE  Orderly' /\ WireMade' /\ NoOvertaking'
  <2>1. \A f \in Flight : FlightInOrder(flight'[f], Floor', Past', refusals')
    BY <1>0, <1>a, InOrderStill
  <2>2. (\A w \in wire' : InOrder(w.batch, Floor', Past')) /\ WireMade'
    BY <1>0, <1>a, WiresStill
  <2>3. NoOvertaking'
    BY <1>0, <1>a, NothingServed
  <2> QED BY <1>a, <2>1, <2>2, <2>3 DEF Orderly
<1>s. store' = store => Waits'
  BY <1>0, WaitsBy
<1>1. CASE UNCHANGED vars
  BY <1>1, <1>a, <1>p, <1>s DEF vars, page, server
<1>2. CASE Queue \/ RecordDiscard
  <2>1. PICK o \in Op : o \notin made /\ store' = [store EXCEPT ![o] = Row(0, FALSE, Inst)]
    BY <1>2, ClockAssumption DEF Queue, RecordDiscard, Enqueue, ClockAssumption
  <2>2. \A p \in made : store'[p] = store[p]
    BY <1>t, <2>1
  <2>3. Waits'
    BY <1>0, <2>2, WaitsBy
  <2> QED BY <1>2, <1>a, <1>p, <2>3 DEF Queue, RecordDiscard, server
<1>3. CASE RetryOp
  <2>1. PICK o, i : /\ o \in Op
                    /\ store' = [store EXCEPT ![o] = Row(0, FALSE, i)]
                    /\ meant' = [meant EXCEPT ![o] = @ \cup {i}]
    BY <1>3 DEF RetryOp
  <2>2. ASSUME NEW j \in Install, NEW p \in Floor'[j], Replays(store[p], j)
        PROVE  Replays(store'[p], j)
    <3>1. meant'[p] = {j} /\ p \in Op
      BY <1>3, <1>t DEF Floor, RetryOp
    <3>2. CASE p = o
      <4>1. meant'[o] = meant[o] \cup {i}
        BY <2>1 DEF TypeOK
      <4>2. i = j
        BY <3>1, <3>2, <4>1
      <4> QED BY <1>t, <2>1, <3>2, <4>2 DEF Replays, Row
    <3>3. CASE p # o
      BY <1>t, <2>1, <2>2, <3>1, <3>3
    <3> QED BY <3>2, <3>3
  <2>3. Waits'
    BY <1>0, <2>2, WaitsBy
  <2> QED BY <1>3, <1>a, <1>p, <2>3 DEF RetryOp, server
<1>4. CASE DiscardOp
  <2>1. PICK o \in Op : store[o].parked /\ store' = [store EXCEPT ![o] = NoRow]
    BY <1>4 DEF DiscardOp
  <2>2. \A p \in made, i \in Install : Replays(store[p], i) => Replays(store'[p], i)
    BY <1>t, <2>1 DEF Replays
  <2>3. Waits'
    BY <1>0, <2>2, WaitsBy
  <2> QED BY <1>4, <1>a, <1>p, <2>3 DEF DiscardOp, server
<1>5. CASE SignIn \/ SessionEnds \/ Boot \/ Reread \/ TurnedAway \/ SwitchInstall
  BY <1>5, <1>a, <1>p, <1>s DEF SignIn, SessionEnds, Boot, Reread, TurnedAway, SwitchInstall, server, page
<1>6. CASE Crash \/ WipeLocal
  <2>1. Reload /\ store' = store /\ log' = log
    BY <1>6 DEF Crash, WipeLocal, Reload
  <2>2. \A f \in Flight : FlightInOrder(flight'[f], Floor', Past', refusals')
    BY <2>1 DEF Reload, FlightInOrder, Idle
  <2>3. (\A w \in wire' : InOrder(w.batch, Floor', Past')) /\ WireMade'
    BY <1>0, <2>1, WiresStill DEF Reload
  <2> QED BY <1>0, <1>p, <1>s, <2>1, <2>2, <2>3, NothingServed DEF Orderly
<1>7. CASE ServeLate
  <2>1. PICK w \in wire, n \in 0..Cardinality(Op), R \in SUBSET Op :
          /\ Serves({o \in w.batch : Cardinality({p \in w.batch : Lamport[p] < Lamport[o]}) < n}, w.fresh, R)
          /\ wire' = wire \ {w}
    BY <1>7 DEF ServeLate
  <2> DEFINE A == {o \in w.batch : Cardinality({p \in w.batch : Lamport[p] < Lamport[o]}) < n}
  <2>2. w.batch \subseteq made /\ w.batch \in SUBSET Op /\ IsFiniteSet(w.batch)
    BY <1>0, <1>t, FS_Subset DEF WireMade, Present
  <2>3. \A p \in A : \A o \in w.batch : Lamport[o] < Lamport[p] => o \in A
    BY <2>2, Earlier
  <2>4. NoOvertaking'
    <3>1. InOrder(w.batch, Floor, Past)
      BY <1>0 DEF Orderly
    <3>2. made' = made /\ meant' = meant /\ Serves(A, w.fresh, R) /\ A \in SUBSET w.batch
      BY <1>7, <2>1 DEF ServeLate
    <3> HIDE DEF A
    <3> QED BY <1>0, <2>2, <2>3, <3>1, <3>2, ServedInOrder
  <2>5. \A f \in Flight : FlightInOrder(flight'[f], Floor', Past', refusals')
    BY <1>0, <1>7, InOrderStill DEF ServeLate, page
  <2>6. (\A v \in wire' : InOrder(v.batch, Floor', Past')) /\ WireMade'
    BY <1>0, <2>1, WiresStill
  <2>7. Waits'
    BY <1>7, <1>s DEF ServeLate
  <2> QED BY <1>p, <2>4, <2>5, <2>6, <2>7 DEF Orderly
<1>8. ASSUME NEW f \in Flight, Start(f) \/ Fly(f) \/ LoseAnswer(f)
      PROVE  Present' /\ Orderly' /\ WireMade' /\ NoOvertaking'
  <2> DEFINE w == flight[f]
             InOrderAs(v) == FlightInOrder(v, Floor', Past', refusals')
  <2>0. w \in Flights /\ MeantAs(w, local, live, meant) /\ FlightInOrder(w, Floor, Past, refusals)
    BY <1>0, <1>t DEF Orderly
  <2>1. ASSUME NEW v, Becomes(f, v), InOrderAs(v), Waits', log' = log,
               \A x \in wire' : x \in wire \/ \E g \in Flight : flight[g].phase = "sent" /\ x = Pushed(g)
        PROVE  Present' /\ Orderly' /\ WireMade' /\ NoOvertaking'
    <3>1. \A g \in Flight : FlightInOrder(flight'[g], Floor', Past', refusals')
      BY <1>0, <2>1, InOrderMoves
    <3>2. (\A x \in wire' : InOrder(x.batch, Floor', Past')) /\ WireMade'
      BY <1>0, <2>1, WiresStill
    <3>3. NoOvertaking'
      BY <1>0, <2>1, NothingServed
    <3> QED BY <1>p, <2>1, <3>1, <3>2, <3>3 DEF Orderly
  <2>2. InOrderAs(Idle) /\ InOrderAs(Reading)
    BY DEF FlightInOrder, Idle, Reading
  <2>3. CASE Start(f)
    <3> HIDE DEF InOrderAs
    <3> QED BY <1>s, <2>1, <2>2, <2>3 DEF Start, server
  <2>4. CASE Read(f)
    <3>1. store' = store /\ log' = log /\ wire' = wire /\ made' = made /\ meant' = meant
          /\ refusals' = refusals /\ live' = live
      BY <2>4 DEF Read, server, history
    <3>2. ASSUME Inst # Unnamed, NEW S, S = {o \in Op : store[o].here /\ ~store[o].parked /\ store[o].install # Inst}
          PROVE  InOrderAs(Fencing(store, Inst, S))
      <4>1. CopyInOrder(store, Floor', Past')
        BY <1>s, <3>1 DEF Waits, CopyInOrder
      <4> QED BY <3>2, <4>1 DEF FlightInOrder, Fencing
    <3> HIDE DEF InOrderAs
    <3> QED BY <1>s, <2>1, <2>2, <2>4, <3>1, <3>2 DEF Read
  <2>5. CASE ParkStranger(f)
    <3>1. PICK o \in w.strangers :
            /\ store' = [store EXCEPT ![o] = Row(w.copy[o].attempts, TRUE, w.copy[o].install)]
            /\ Becomes(f, Fencing(w.copy, w.inst, w.strangers \ {o}))
      BY <2>5 DEF ParkStranger
    <3>2. /\ log' = log /\ wire' = wire /\ made' = made /\ meant' = meant
          /\ refusals' = refusals /\ live' = live /\ w.phase = "fencing"
      BY <2>5 DEF ParkStranger, server, history
    <3>3. Floor' = Floor /\ Past' = Past
      BY <3>2 DEF Floor, Past
    <3>4. InOrderAs(Fencing(w.copy, w.inst, w.strangers \ {o}))
      BY <2>0, <3>2, <3>3 DEF FlightInOrder, Fencing
    <3>5. o \in Op /\ w.copy[o].install # live /\ w.copy[o].install \in meant[o]
      BY <2>0, <3>2, FlightFields DEF FlightInOrder, MeantAs
    <3>6. ASSUME NEW i \in Install, NEW p \in Floor'[i]
          PROVE  p \in Past'[i] \/ (Replays(store[p], i) => Replays(store'[p], i))
      <4>1. CASE p = o
        BY <3>3, <3>5, <4>1 DEF Floor, Past
      <4>2. CASE p # o
        BY <1>t, <3>1, <4>2, <3>5
      <4> QED BY <4>1, <4>2
    <3>7. Waits'
      BY <1>0, <3>6, WaitsBy
    <3> HIDE DEF InOrderAs
    <3> QED BY <2>1, <3>1, <3>2, <3>4, <3>7
  <2>6. CASE Send(f)
    <3>1. /\ store' = store /\ log' = log /\ wire' = wire /\ made' = made /\ meant' = meant
          /\ refusals' = refusals /\ live' = live
      BY <2>6 DEF Send, server, history
    <3>2. CASE Mine(f) = {}
      <4> HIDE DEF InOrderAs
      <4> QED BY <1>s, <2>1, <2>2, <2>6, <3>1, <3>2 DEF Send
    <3>3. CASE Mine(f) # {}
      <4> DEFINE batch == Foremost(Mine(f))
      <4>1. Becomes(f, Sent(Copied(f, batch), batch, batch \ log[live], session))
        BY <2>6, <3>3 DEF Send
      <4>2. w.phase = "fencing" /\ w.inst = live
        BY <2>0, <2>6 DEF Send, MeantAs
      <4>3. Mine(f) \in SUBSET Op /\ IsFiniteSet(Mine(f))
        <5>1. Mine(f) \subseteq made
          BY <1>0, <4>2, FlightMade DEF Mine
        <5> QED BY <1>0, <1>t, <5>1, FS_Subset DEF Present
      <4>4. ASSUME NEW i \in Install, NEW o \in Floor[i], NEW p \in Floor[i] \cap batch, Lamport[o] < Lamport[p]
            PROVE  o \in batch \cup Past[i]
        <5>1. o \in Op /\ p \in Op \ Record /\ p \in Mine(f) /\ w.copy[p].here
          BY <1>i, <1>t, <4>4 DEF Foremost, Mine
        <5>2. ~(Lamport[p] < Lamport[o])
          BY <4>4, <5>1, ClockAssumption DEF ClockAssumption
        <5>3. o \in Past[i] \/ Replays(w.copy[o], i)
          BY <2>0, <4>2, <5>1, <5>2 DEF FlightInOrder, CopyInOrder
        <5>4. CASE Replays(w.copy[o], i) /\ i = live
          <6>1. o \in Mine(f)
            BY <4>2, <5>1, <5>4 DEF Mine, Replays
          <6>2. Cardinality({q \in Mine(f) : Lamport[q] < Lamport[p]}) < PUSH_CHUNK
            BY <4>4 DEF Foremost
          <6>3. PUSH_CHUNK \in Nat
            BY BoundAssumption DEF BoundAssumption
          <6>4. Cardinality({q \in Mine(f) : Lamport[q] < Lamport[o]}) < PUSH_CHUNK
            BY <4>3, <4>4, <5>1, <6>1, <6>2, <6>3, Earlier
          <6> QED BY <6>1, <6>4 DEF Foremost
        <5>5. CASE i # live
          BY <5>1, <5>5 DEF Past
        <5> QED BY <5>3, <5>4, <5>5
      <4>5. InOrder(batch, Floor', Past')
        <5>1. Floor' = Floor /\ Past' = Past
          BY <3>1 DEF Floor, Past
        <5> QED BY <4>4, <5>1 DEF InOrder
      <4> HIDE DEF batch
      <4>6. InOrderAs(Sent(Copied(f, batch), batch, batch \ log[live], session))
        BY <4>5 DEF FlightInOrder, Sent
      <4> HIDE DEF InOrderAs
      <4> QED BY <1>s, <2>1, <3>1, <4>1, <4>6
    <3> QED BY <3>2, <3>3
  <2>7. CASE Serve(f)
    <3>1. PICK R \in SUBSET Op : /\ Serves(w.batch, w.fresh, R)
                                 /\ Becomes(f, Answered(Copied(f, R), w.batch \ R, R))
      BY <2>7 DEF Serve
    <3>2. w.phase = "sent" /\ store' = store /\ wire' = wire /\ made' = made /\ meant' = meant
      BY <2>7 DEF Serve
    <3>3. \A o \in R : refusals'[o] > 0
      BY <3>1, BoundAssumption DEF Serves, TypeOK, BoundAssumption
    <3>4. InOrderAs(Answered(Copied(f, R), w.batch \ R, R))
      BY <3>3 DEF FlightInOrder, Answered
    <3>5. w.batch \subseteq made /\ InOrder(w.batch, Floor, Past) /\ w.batch \in SUBSET Op
      BY <1>0, <1>t, <2>0, <3>2, FlightMade DEF FlightInOrder
    <3>6. NoOvertaking'
      BY <1>0, <3>1, <3>2, <3>5, ServedInOrder
    <3>7. \A g \in Flight : FlightInOrder(flight'[g], Floor', Past', refusals')
      BY <1>0, <3>1, <3>4, InOrderMoves
    <3>8. (\A x \in wire' : InOrder(x.batch, Floor', Past')) /\ WireMade'
      BY <1>0, <3>2, WiresStill
    <3> QED BY <1>p, <1>s, <3>2, <3>6, <3>7, <3>8 DEF Orderly
  <2>8. CASE Unauthorised(f) \/ Finish(f)
    <3> HIDE DEF InOrderAs
    <3> QED BY <1>s, <2>1, <2>2, <2>8 DEF Unauthorised, Finish, Lands, server
  <2>9. CASE LoseAnswer(f)
    <3>1. \A x \in wire' : x \in wire \/ \E g \in Flight : flight[g].phase = "sent" /\ x = Pushed(g)
      BY <2>9 DEF LoseAnswer
    <3> HIDE DEF InOrderAs
    <3> QED BY <1>s, <2>1, <2>2, <2>9, <3>1 DEF LoseAnswer, Lands
  <2>10. CASE DeleteAcked(f)
    <3>1. PICK o \in w.acks : /\ store' = [store EXCEPT ![o] = NoRow]
                              /\ Becomes(f, Answered(w.copy, w.acks \ {o}, w.errors))
      BY <2>10 DEF DeleteAcked
    <3>2. /\ log' = log /\ wire' = wire /\ made' = made /\ meant' = meant
          /\ refusals' = refusals /\ live' = live /\ w.phase = "answered"
      BY <2>10 DEF DeleteAcked, server, history
    <3>3. Floor' = Floor /\ Past' = Past
      BY <3>2 DEF Floor, Past
    <3>4. InOrderAs(Answered(w.copy, w.acks \ {o}, w.errors))
      BY <2>0, <3>2 DEF FlightInOrder, Answered
    <3>5. PICK k \in Install : o \in log[k] /\ k \in meant[o]
      BY <1>0, <3>2 DEF AcksApplied, Applied, FenceHolds
    <3>6. ASSUME NEW i \in Install, NEW p \in Floor'[i]
          PROVE  p \in Past'[i] \/ (Replays(store[p], i) => Replays(store'[p], i))
      <4>1. CASE p = o
        <5>1. meant[o] = {i} /\ o \in Op
          BY <1>t, <3>3, <4>1 DEF Floor
        <5> QED BY <3>3, <3>5, <4>1, <5>1 DEF Past
      <4>2. CASE p # o
        <5>1. p \in Op
          BY <1>i, <1>t, <3>3
        <5> QED BY <1>t, <3>1, <4>2, <5>1
      <4> QED BY <4>1, <4>2
    <3>7. Waits'
      BY <1>0, <3>6, WaitsBy
    <3> HIDE DEF InOrderAs
    <3> QED BY <2>1, <3>1, <3>2, <3>4, <3>7
  <2>11. CASE PutRefused(f)
    <3>1. PICK o, n, q : /\ o \in w.errors
                         /\ store' = [store EXCEPT ![o] = Row(n, q, w.copy[o].install)]
                         /\ Becomes(f, Answered(w.copy, {}, w.errors \ {o}))
      BY <2>11 DEF PutRefused
    <3>2. /\ log' = log /\ wire' = wire /\ made' = made /\ meant' = meant
          /\ refusals' = refusals /\ live' = live /\ w.phase = "answered"
      BY <2>11 DEF PutRefused, server, history
    <3>3. Floor' = Floor /\ Past' = Past
      BY <3>2 DEF Floor, Past
    <3>4. InOrderAs(Answered(w.copy, {}, w.errors \ {o}))
      BY <2>0, <3>2 DEF FlightInOrder, Answered
    <3>5. refusals[o] > 0 /\ o \in Op
      BY <2>0, <3>1, <3>2, FlightFields DEF FlightInOrder
    <3>6. ASSUME NEW i \in Install, NEW p \in Floor'[i]
          PROVE  p \in Past'[i] \/ (Replays(store[p], i) => Replays(store'[p], i))
      <4>1. CASE p = o
        BY <3>3, <3>5, <4>1 DEF Past
      <4>2. CASE p # o
        <5>1. p \in Op
          BY <1>i, <1>t, <3>3
        <5> QED BY <1>t, <3>1, <4>2, <5>1
      <4> QED BY <4>1, <4>2
    <3>7. Waits'
      BY <1>0, <3>6, WaitsBy
    <3> HIDE DEF InOrderAs
    <3> QED BY <2>1, <3>1, <3>2, <3>4, <3>7
  <2> QED BY <1>8, <2>3, <2>4, <2>5, <2>6, <2>7, <2>8, <2>9, <2>10, <2>11 DEF Fly
<1> QED BY <1>1, <1>2, <1>3, <1>4, <1>5, <1>6, <1>7, <1>8 DEF Next

\* NoOvertaking, if the outlet id changes hands by a full log-out only: work of
\* the floor reaches its outlet in the order it was done, refusals apart, over
\* overlapping flights, lost answers, reloads and pushes that arrive late.
THEOREM WorkArrivesInOrder ==
  ASSUME CleanSwitch
  PROVE  Spec => []NoOvertaking
<1>1. Init => AcksApplied
  BY DEF Init, AcksApplied, Idle
<1>2. Init => OrderInv
  BY <1>1, ApartInit, OrderInit DEF OrderInv
<1>3. TypeOK /\ TypeOK' /\ Kept /\ Kept' /\ OrderInv /\ [Next]_vars => OrderInv'
  BY ApartStep, OrderStep DEF OrderInv, Kept
<1>4. Init => Kept
  BY DEF Init, Kept, AcksApplied, NothingLost, Idle
<1>5. OrderInv => NoOvertaking
  BY DEF OrderInv
<1> QED BY <1>2, <1>3, <1>4, <1>5, TypeInit, TypeStep, KeptStep, PTL DEF Spec

-----------------------------------------------------------------------------
(* The screen: its invariant.                                              *)

OpRows == [at : Nat, state : {"new", "queued", "begun", "done"}]
OutletBills == [status : {"none", "open", "closed"}, lines : SUBSET Ops]
Listed == [open : BOOLEAN, lines : SUBSET Ops]
Requests == [phase : {"idle", "asked", "read", "ready"}, since : Nat, now : Nat, menu : SUBSET Ops,
             floor : [Tables -> Listed], sales : SUBSET Ops]
PageBills == [src : {"none", "here", "outlet"}, lines : SUBSET Ops, named : SUBSET Ops,
              fresh : BOOLEAN]
Pages == [floor : [Tables -> PageBills], takings : SUBSET Ops, menu : SUBSET Ops]

FloorTyped ==
  /\ op \in [Ops -> OpRows] /\ clock \in Nat \ {0}
  /\ bill \in [Tables -> OutletBills]
  /\ req = [s \in Pulls \cup {BootRead} |-> req[s]]
  /\ screen \in Pages /\ since \in Nat /\ missed \in SUBSET Ops

\* No transaction outlives the overlap.
Timely ==
  \A o \in Ops : /\ op[o].state \in {"begun", "done"} => op[o].at > 0 /\ op[o].at <= clock
                 /\ op[o].state = "begun" => op[o].at > clock - Overlap

\* What the outlet lists, and what a page has been told is listed, was committed.
Committed ==
  \A t \in Tables : bill[t].lines \subseteq Log /\ screen.floor[t].named \subseteq Log

\* The sales stamped before the window that ends at n are X's, in the takings, or exempt.
SeenBefore(n, X) ==
  \A o \in Sales(Log) : op[o].at <= n - Overlap => o \in X \/ o \in screen.takings \/ o \in missed

\* What a request carries: the window it was asked with reaches back to what was seen, and so
\* does what it brings to the stamp the device will come back with.
Sound(r) ==
  /\ r \in Requests /\ r.since <= clock /\ r.now <= clock
  /\ \A t \in Tables : r.floor[t].lines \subseteq Log
  /\ SeenBefore(r.since, {})
  /\ r.phase = "ready" => SeenBefore(r.now, r.sales)

Inv ==
  /\ FloorTyped /\ Timely /\ Committed
  /\ since <= clock /\ SeenBefore(since, {})
  /\ \A s \in Pulls \cup {BootRead} : Sound(req[s])

-----------------------------------------------------------------------------
(* What is asked of the helpers.                                           *)

LEMMA NothingBefore == ASSUME FloorTyped, Timely, NEW X PROVE SeenBefore(0, X)
  BY FloorAssumption DEF SeenBefore, FloorTyped, Timely, Sales, Log, Done, OpRows

LEMMA NoReqSound == ASSUME FloorTyped, Timely PROVE Sound(NoReq)
  <1>1. NoReq \in Requests /\ \A t \in Tables : NoReq.floor[t].lines = {}
    BY DEF NoReq, Requests, Unlisted, Listed
  <1>2. NoReq.since = 0 /\ NoReq.now = 0 /\ NoReq.phase = "idle"
    BY DEF NoReq
  <1> HIDE DEF NoReq
  <1> QED BY <1>1, <1>2, NothingBefore DEF Sound, FloorTyped

LEMMA AskedSound == ASSUME FloorTyped, Timely PROVE Sound([NoReq EXCEPT !.phase = "asked"])
  <1> DEFINE r == [NoReq EXCEPT !.phase = "asked"]
  <1>1. r \in Requests /\ \A t \in Tables : r.floor[t].lines = {}
    BY DEF NoReq, Requests, Unlisted, Listed
  <1>2. r.since = 0 /\ r.now = 0 /\ r.phase = "asked"
    BY DEF NoReq
  <1> HIDE DEF r
  <1> QED BY <1>1, <1>2, NothingBefore DEF Sound, FloorTyped, r

LEMMA InitInv == FloorInit => Inv
  <1> SUFFICES ASSUME FloorInit PROVE Inv
    OBVIOUS
  <1>1. FloorTyped /\ Timely
    BY DEF FloorInit, FloorTyped, Timely, OpRows, OutletBills, Pages, PageBills, NoBill
  <1>2. Committed
    BY DEF FloorInit, Committed, NoBill
  <1>3. \A s \in Pulls \cup {BootRead} : Sound(req[s])
    BY <1>1, NoReqSound DEF FloorInit
  <1> QED BY <1>1, <1>2, <1>3, NothingBefore DEF FloorInit, Inv

\* What was seen stays seen: of what is committed later none was stamped before a window that
\* has been asked for.
LEMMA StaysSeen ==
  ASSUME Inv, clock' \in Nat, clock <= clock', Log \subseteq Log',
         \A o \in Log : op'[o].at = op[o].at,
         \A o \in Log' \ Log : op'[o].at \in Nat /\ op'[o].at > clock - Overlap,
         \A o \in screen.takings : o \in screen'.takings \/ o \in missed',
         missed \subseteq missed'
  PROVE  /\ \A n \in Nat : \A X : n <= clock /\ SeenBefore(n, X) => SeenBefore(n, X)'
         /\ \A r : Sound(r) => Sound(r)'
  <1>1. ASSUME NEW n \in Nat, NEW X, n <= clock, SeenBefore(n, X) PROVE SeenBefore(n, X)'
    <2>1. ASSUME NEW o \in Sales(Log'), op'[o].at <= n - Overlap
          PROVE  o \in X \/ o \in screen'.takings \/ o \in missed'
      <3>1. o \in Log'
        BY <2>1 DEF Sales
      <3>2. o \in Log
        BY <3>1, <2>1, <1>1, FloorAssumption DEF Inv, FloorTyped
      <3> QED BY <2>1, <3>2, <1>1 DEF SeenBefore, Sales
    <2> QED BY <2>1 DEF SeenBefore, Sales
  <1>2. ASSUME NEW r, Sound(r) PROVE Sound(r)'
    <2>1. /\ r \in Requests /\ r.since \in Nat /\ r.now \in Nat
          /\ r.since <= clock /\ r.now <= clock /\ r.since <= clock' /\ r.now <= clock'
      BY <1>2 DEF Sound, Requests, Inv, FloorTyped
    <2> QED BY <1>1, <1>2, <2>1 DEF Sound
  <1> QED BY <1>1, <1>2

\* Where no op moves and no time passes.
LEMMA Quiet ==
  ASSUME Inv, UNCHANGED <<op, clock>>,
         \A o \in screen.takings : o \in screen'.takings \/ o \in missed',
         missed \subseteq missed'
  PROVE  /\ Timely' /\ Log' = Log
         /\ \A n \in Nat : \A X : n <= clock /\ SeenBefore(n, X) => SeenBefore(n, X)'
         /\ \A r : Sound(r) => Sound(r)'
  <1>1. Log' = Log /\ Timely'
    BY DEF Log, Done, Inv, Timely
  <1>2. clock' \in Nat /\ clock <= clock'
    BY DEF Inv, FloorTyped
  <1> QED BY <1>1, <1>2, StaysSeen

\* Requests that are replaced one by one.
LEMMA RequestMoves ==
  ASSUME Inv, UNCHANGED <<op, clock, bill, screen, since, missed>>,
         req' = [s \in Pulls \cup {BootRead} |-> req'[s]],
         \A s \in Pulls \cup {BootRead} : req'[s] = req[s] \/ Sound(req'[s])
  PROVE  Inv'
  <1>1. /\ Timely' /\ Log' = Log /\ \A r : Sound(r) => Sound(r)'
        /\ \A n \in Nat : \A X : n <= clock /\ SeenBefore(n, X) => SeenBefore(n, X)'
    BY Quiet
  <1>2. \A s \in Pulls \cup {BootRead} : Sound(req'[s])
    BY DEF Inv
  <1>3. (\A s \in Pulls \cup {BootRead} : Sound(req[s]))'
    BY <1>1, <1>2
  <1>4. (FloorTyped /\ Committed /\ since <= clock)'
    BY <1>1 DEF Inv, FloorTyped, Committed
  <1>5. SeenBefore(since, {})'
    BY <1>1 DEF Inv, FloorTyped
  <1> QED BY <1>1, <1>3, <1>4, <1>5 DEF Inv

-----------------------------------------------------------------------------
(* The outlet.                                                             *)

\* Ops begin and are committed, each within the overlap of now.
OpsGoOn ==
  /\ UNCHANGED <<req, screen, since, missed>> /\ op' \in [Ops -> OpRows]
  /\ clock' \in Nat \ {0} /\ clock <= clock' /\ Timely'
  /\ \A o \in Log : o \in Log' /\ op'[o].at = op[o].at
  /\ \A o \in Log' \ Log : op'[o].at \in Nat /\ op'[o].at > clock - Overlap

BillsGoOn == bill' \in [Tables -> OutletBills] /\ \A t \in Tables : bill'[t].lines \subseteq Log'

LEMMA OutletInv ==
  ASSUME Inv, Tick \/ \E o \in Ops : Begin(o) \/ Commit(o)
  PROVE  Inv'
  <1>1. OpsGoOn
    <2>1. CASE Tick
      <3>1. UNCHANGED <<op, req, screen, since, missed>> /\ clock' \in Nat \ {0} /\ clock < clock'
            /\ \A o \in Ops : op[o].state = "begun" => clock' - op[o].at < Overlap
        BY <2>1, FloorAssumption DEF Tick, Later, Inv, FloorTyped
      <3>2. Timely'
        BY <3>1, FloorAssumption DEF Inv, FloorTyped, Timely, OpRows
      <3>3. Log' = Log
        BY <3>1 DEF Log, Done
      <3> QED BY <3>1, <3>2, <3>3 DEF OpsGoOn, Inv, FloorTyped
    <2>2. ASSUME NEW o \in Ops, Begin(o) \/ Commit(o),
                 NEW v \in OpRows, op' = [op EXCEPT ![o] = v],
                 op[o].state # "done", v.at > clock - Overlap, v.at > 0, v.at <= clock,
                 v.state \in {"begun", "done"}
          PROVE  OpsGoOn
      <3>1. UNCHANGED <<clock, req, screen, since, missed>>
        BY <2>2 DEF Begin, Commit
      <3>2. /\ op \in [Ops -> OpRows] /\ op' \in [Ops -> OpRows] /\ op'[o] = v
            /\ \A p \in Ops \ {o} : op'[p] = op[p]
        BY <2>2 DEF Inv, FloorTyped
      <3>3. o \notin Log /\ \A p \in Ops \ {o} : p \in Log' <=> p \in Log
        BY <2>2, <3>2 DEF Log, Done
      <3>4. Log' \subseteq Ops /\ Log \subseteq Ops
        BY DEF Log
      <3>5. Timely'
        BY <2>2, <3>1, <3>2 DEF Inv, Timely
      <3>6. v.at \in Nat
        BY <2>2 DEF OpRows
      <3> QED BY <2>2, <3>1, <3>2, <3>3, <3>4, <3>5, <3>6 DEF OpsGoOn, Inv, FloorTyped
    <2>3. ASSUME NEW o \in Ops, Begin(o) PROVE OpsGoOn
      <3>1. op' = [op EXCEPT ![o] = [at |-> clock, state |-> "begun"]] /\ op[o].state # "done"
        BY <2>3 DEF Begin
      <3>2. PICK v : v = [at |-> clock, state |-> "begun"]
        OBVIOUS
      <3>3. v \in OpRows /\ v.at = clock /\ v.state = "begun" /\ clock \in Nat \ {0}
        BY <3>2 DEF OpRows, Inv, FloorTyped
      <3>4. v.at > clock - Overlap /\ v.at > 0 /\ v.at <= clock
        BY <3>3, FloorAssumption
      <3> QED BY <2>2, <2>3, <3>1, <3>2, <3>3, <3>4
    <2>4. ASSUME NEW o \in Ops, Commit(o) PROVE OpsGoOn
      <3>1. op' = [op EXCEPT ![o] = [op[o] EXCEPT !.state = "done"]] /\ op[o].state = "begun"
        BY <2>4 DEF Commit
      <3>2. PICK v : v = [op[o] EXCEPT !.state = "done"]
        OBVIOUS
      <3>3. op[o] \in OpRows
        BY DEF Inv, FloorTyped
      <3>4. v \in OpRows /\ v.at = op[o].at /\ v.state = "done"
        BY <3>2, <3>3 DEF OpRows
      <3> QED BY <2>2, <2>4, <3>1, <3>2, <3>4 DEF Inv, Timely
    <2> QED BY <2>1, <2>3, <2>4
  <1>2. BillsGoOn
    <2>1. CASE UNCHANGED bill
      BY <1>1, <2>1 DEF OpsGoOn, BillsGoOn, Inv, FloorTyped, Committed
    <2>2. ASSUME NEW o \in Ops, Commit(o) PROVE BillsGoOn
      <3> DEFINE t == P[o].table
      <3>1. bill' = [bill EXCEPT ![t] = After(o, bill[t])] /\ t \in Tables
        BY <2>2, FloorAssumption DEF Commit
      <3>2. o \in Log'
        BY <2>2 DEF Commit, Log, Done, Inv, FloorTyped
      <3>3. bill[t] \in OutletBills /\ bill[t].lines \subseteq Log'
        BY <1>1, <3>1 DEF OpsGoOn, Inv, FloorTyped, Committed
      <3>4. ASSUME NEW b \in OutletBills, b.lines \subseteq Log'
            PROVE  After(o, b) \in OutletBills /\ After(o, b).lines \subseteq Log'
        BY <3>2, <3>4 DEF After, OutletBills
      <3> HIDE DEF t
      <3> QED BY <1>1, <3>1, <3>3, <3>4 DEF OpsGoOn, BillsGoOn, Inv, FloorTyped, Committed
    <2> QED BY <2>1, <2>2 DEF Tick, Begin
  <1>3. /\ \A n \in Nat : \A X : n <= clock /\ SeenBefore(n, X) => SeenBefore(n, X)'
        /\ \A r : Sound(r) => Sound(r)'
    <2>1. Log \subseteq Log' /\ clock' \in Nat
      BY <1>1 DEF OpsGoOn
    <2> QED BY <1>1, <2>1, StaysSeen DEF OpsGoOn
  <1>4. FloorTyped' /\ Committed'
    BY <1>1, <1>2 DEF OpsGoOn, BillsGoOn, Inv, FloorTyped, Committed
  <1>5. (since <= clock /\ SeenBefore(since, {}))'
    BY <1>1, <1>3 DEF OpsGoOn, Inv, FloorTyped
  <1>6. (\A s \in Pulls \cup {BootRead} : Sound(req[s]))'
    BY <1>1, <1>3 DEF OpsGoOn, Inv
  <1> QED BY <1>1, <1>4, <1>5, <1>6 DEF OpsGoOn, Inv

-----------------------------------------------------------------------------
(* Requests.                                                               *)

LEMMA AskInv == ASSUME Inv, NEW s \in Pulls, Ask(s) PROVE Inv'
  <1>1. PICK m \in SUBSET Ops :
          req' = [req EXCEPT ![s] = [NoReq EXCEPT !.phase = "read", !.since = since, !.now = clock,
                                                  !.menu = m]]
    <2>1. \A S : {o \in S : ~Covered(o)} \cap Ops \in SUBSET Ops
      OBVIOUS
    <2>2. PICK S \in kSubset(Min({Limit, Cardinality(Window(since))}), Window(since)) :
            req' = [req EXCEPT ![s] = [NoReq EXCEPT !.phase = "read", !.since = since,
                                        !.now = clock, !.menu = {o \in S : ~Covered(o)}]]
      BY DEF Ask
    <2>3. S \subseteq Ops
      BY <2>2 DEF kSubset, Window, Log
    <2> QED BY <2>2, <2>3
  <1> DEFINE r == [NoReq EXCEPT !.phase = "read", !.since = since, !.now = clock, !.menu = m]
  <1>2. /\ r \in Requests /\ r.since = since /\ r.now = clock /\ r.phase = "read"
        /\ \A t \in Tables : r.floor[t].lines = {}
    BY DEF NoReq, Requests, Unlisted, Listed, Inv, FloorTyped
  <1>3. req' = [req EXCEPT ![s] = r]
    BY <1>1
  <1> HIDE DEF r
  <1>4. Sound(r)
    BY <1>2 DEF Sound, Inv, FloorTyped
  <1>5. req'[s] = r /\ \A u \in Pulls \cup {BootRead} : u # s => req'[u] = req[u]
    BY <1>3 DEF Inv, FloorTyped
  <1>6. req' = [u \in Pulls \cup {BootRead} |-> req'[u]]
    BY <1>3 DEF Inv, FloorTyped
  <1> QED BY <1>4, <1>5, <1>6, RequestMoves DEF Ask

LEMMA OutletListed ==
  ASSUME Inv
  PROVE  LET f == [t \in Tables |-> IF bill[t].status = "open"
                                    THEN [open |-> TRUE, lines |-> bill[t].lines] ELSE Unlisted]
         IN f \in [Tables -> Listed] /\ \A t \in Tables : f[t].lines \subseteq Log
  BY DEF Inv, FloorTyped, OutletBills, Committed, Unlisted, Listed

LEMMA AnswerInv ==
  ASSUME Inv, NEW s \in Pulls \cup {BootRead}, NEW m \in SUBSET Ops, NEW x \in SUBSET Ops,
         Answers(s, m, x), SeenBefore(req[s].now, x)
  PROVE  Inv'
  <1>1. PICK f \in [Tables -> Listed] :
          /\ req' = [req EXCEPT ![s] = [NoReq EXCEPT !.phase = "ready", !.now = req[s].now,
                                          !.menu = m, !.floor = f, !.sales = x]]
          /\ \A t \in Tables : f[t].lines \subseteq Log
    BY OutletListed DEF Answers
  <1>2. req[s].now \in Nat /\ req[s].now <= clock
    BY DEF Inv, Sound, Requests
  <1> DEFINE r == [NoReq EXCEPT !.phase = "ready", !.now = req[s].now, !.menu = m, !.floor = f,
                                !.sales = x]
  <1>3. /\ r \in Requests /\ r.since = 0 /\ r.now = req[s].now /\ r.phase = "ready"
        /\ r.floor = f /\ r.sales = x
    BY <1>2 DEF NoReq, Requests
  <1>4. req' = [req EXCEPT ![s] = r]
    BY <1>1
  <1> HIDE DEF r
  <1>5. Sound(r)
    BY <1>1, <1>2, <1>3, NothingBefore DEF Sound, Inv, FloorTyped
  <1>6. req'[s] = r /\ \A u \in Pulls \cup {BootRead} : u # s => req'[u] = req[u]
    BY <1>4 DEF Inv, FloorTyped
  <1>7. req' = [u \in Pulls \cup {BootRead} |-> req'[u]]
    BY <1>4 DEF Inv, FloorTyped
  <1> QED BY <1>5, <1>6, <1>7, RequestMoves DEF Answers

\* The window reaches back by the overlap, and what began before it was over by then.
LEMMA ReadInv == ASSUME Inv, ReadState \/ \E s \in Pulls : ReadSlice(s) PROVE Inv'
  <1>1. ASSUME NEW s \in Pulls, ReadSlice(s) PROVE Inv'
    <2>1. Sound(req[s])
      BY DEF Inv
    <2>2. req[s].menu \in SUBSET Ops /\ Sales(Window(req[s].since)) \in SUBSET Ops
          /\ req[s].since \in Nat
      BY <2>1 DEF Sound, Requests, Sales, Window, Log
    <2>3. SeenBefore(req[s].now, Sales(Window(req[s].since)))
      <3>1. ASSUME NEW o \in Sales(Log), o \notin Sales(Window(req[s].since))
            PROVE  o \in screen.takings \/ o \in missed
        <4>1. op[o].at \in Nat /\ ~(op[o].at > req[s].since - Overlap)
          BY <3>1 DEF Sales, Window, Log, Inv, FloorTyped, OpRows
        <4>2. op[o].at <= req[s].since - Overlap
          BY <4>1, <2>2, FloorAssumption
        <4> QED BY <4>2, <2>1, <3>1 DEF Sound, SeenBefore
      <3> QED BY <3>1 DEF SeenBefore
    <2> QED BY <1>1, <2>2, <2>3, AnswerInv DEF ReadSlice
  <1>2. CASE ReadState
    <2>1. Menu(Log) \in SUBSET Ops /\ Sales(Log) \in SUBSET Ops
      BY DEF Menu, Sales, Log
    <2>2. SeenBefore(req[BootRead].now, Sales(Log))
      BY DEF SeenBefore
    <2> QED BY <1>2, <2>1, <2>2, AnswerInv DEF ReadState
  <1> QED BY <1>1, <1>2

\* StartBoot, whoever asks.
LEMMA BootAsked ==
  ASSUME Inv, NEW rs, rs = [u \in Pulls \cup {BootRead} |-> rs[u]]
  PROVE  /\ StartBoot(rs) = [u \in Pulls \cup {BootRead} |-> StartBoot(rs)[u]]
         /\ \A u \in Pulls \cup {BootRead} : \/ StartBoot(rs)[u] = rs[u]
                                             \/ StartBoot(rs)[u] = [NoReq EXCEPT !.phase = "asked"]
  BY DEF StartBoot

LEMMA OtherRequestsInv ==
  ASSUME Inv, GapPasses \/ SlowRead \/ \E s \in Pulls \cup {BootRead} : Lose(s)
  PROVE  Inv'
  <1>0. req = [u \in Pulls \cup {BootRead} |-> req[u]] /\ Sound([NoReq EXCEPT !.phase = "asked"])
        /\ Sound(NoReq)
    BY AskedSound, NoReqSound DEF Inv, FloorTyped
  <1>1. CASE GapPasses
    BY <1>0, <1>1, RequestMoves DEF GapPasses
  <1>2. CASE SlowRead
    <2>1. req' = StartBoot(req) /\ UNCHANGED <<op, clock, bill, screen, since, missed>>
      BY <1>2 DEF SlowRead
    <2> QED BY <1>0, <2>1, BootAsked, RequestMoves
  <1>3. ASSUME NEW s \in Pulls \cup {BootRead}, Lose(s) PROVE Inv'
    <2>1. req' = [req EXCEPT ![s] = NoReq] /\ UNCHANGED <<op, clock, bill, screen, since, missed>>
      BY <1>3 DEF Lose
    <2>2. \A u \in Pulls \cup {BootRead} : req'[u] = req[u] \/ req'[u] = NoReq
      BY <2>1, <1>0
    <2>3. req' = [u \in Pulls \cup {BootRead} |-> req'[u]]
      BY <2>1, <1>0
    <2> QED BY <1>0, <2>1, <2>2, <2>3, RequestMoves
  <1> QED BY <1>1, <1>2, <1>3

-----------------------------------------------------------------------------
(* The terminal.                                                           *)

\* What is merged onto the screen names only what was committed.
LEMMA MergeKnows ==
  ASSUME NEW here \in PageBills, NEW theirs \in Listed, here.named \subseteq Log,
         theirs.lines \subseteq Log
  PROVE  /\ Merge(here, theirs) \in PageBills /\ Merge(here, theirs).named \subseteq Log
         /\ \A o \in here.lines \ Merge(here, theirs).lines :
              o \in Log \/ (here.src = "outlet" /\ Merge(here, theirs).src = "none")
  <1>1. CASE ~theirs.open
    BY <1>1 DEF Merge, NoBill, PageBills
  <1>2. CASE theirs.open
    <2> DEFINE kept == {l \in here.lines : l \in theirs.lines \/ l \notin here.named \/ here.fresh}
    <2>1. Merge(here, theirs) =
            [src |-> "outlet", lines |-> kept \cup theirs.lines, fresh |-> here.fresh,
             named |-> IF here.fresh THEN (here.named \cap kept) \cup (theirs.lines \ here.lines)
                       ELSE theirs.lines]
      BY <1>2 DEF Merge
    <2>2. kept \subseteq Ops /\ theirs.lines \subseteq Ops /\ here.named \subseteq Ops
          /\ here.fresh \in BOOLEAN
      BY DEF PageBills, Listed
    <2>3. \A o \in here.lines \ kept : o \in here.named
      OBVIOUS
    <2> HIDE DEF kept
    <2>4. Merge(here, theirs) \in PageBills
      BY <2>1, <2>2 DEF PageBills
    <2>5. Merge(here, theirs).named \subseteq Log
      BY <2>1
    <2>6. \A o \in here.lines \ Merge(here, theirs).lines : o \in Log
      BY <2>1, <2>3
    <2> QED BY <2>4, <2>5, <2>6
  <1> QED BY <1>1, <1>2 DEF Listed

LEMMA FloorsKnow ==
  ASSUME Inv, NEW r, Sound(r)
  PROVE  /\ Floors(r) \in [Tables -> PageBills] /\ \A t \in Tables : Floors(r)[t].named \subseteq Log
         /\ \A t \in Tables : \A o \in screen.floor[t].lines \ Floors(r)[t].lines :
              o \in Log \/ (screen.floor[t].src = "outlet" /\ Floors(r)[t].src = "none")
  <1>1. ASSUME NEW t \in Tables
        PROVE  /\ screen.floor[t] \in PageBills /\ r.floor[t] \in Listed
               /\ screen.floor[t].named \subseteq Log /\ r.floor[t].lines \subseteq Log
    BY DEF Inv, FloorTyped, Pages, Committed, Sound, Requests
  <1>2. Floors(r) = [t \in Tables |-> Merge(screen.floor[t], r.floor[t])]
    BY DEF Floors
  <1> QED BY <1>1, <1>2, MergeKnows

\* A page changes, and requests come and go.
LEMMA PageMoves ==
  ASSUME Inv, UNCHANGED <<op, clock, bill>>,
         screen' \in Pages, \A t \in Tables : screen'.floor[t].named \subseteq Log,
         \A o \in screen.takings : o \in screen'.takings \/ o \in missed',
         missed \subseteq missed', missed' \in SUBSET Ops,
         NEW n \in Nat, since' = n, n <= clock, SeenBefore(n, {})',
         req' = [s \in Pulls \cup {BootRead} |-> req'[s]],
         \A s \in Pulls \cup {BootRead} : req'[s] = req[s] \/ Sound(req'[s])
  PROVE  Inv'
  <1>1. Timely' /\ Log' = Log /\ \A r : Sound(r) => Sound(r)'
    BY Quiet
  <1>2. (\A s \in Pulls \cup {BootRead} : Sound(req[s]))'
    BY <1>1 DEF Inv
  <1>3. FloorTyped' /\ Committed'
    BY <1>1 DEF Inv, FloorTyped, Committed
  <1>4. (since <= clock)' /\ SeenBefore(since, {})'
    BY DEF SeenBefore
  <1> QED BY <1>1, <1>2, <1>3, <1>4 DEF Inv

LEMMA LandInv == ASSUME Inv, NEW s \in Pulls, Land(s) PROVE Inv'
  <1> DEFINE r == req[s]
             rest == [req EXCEPT ![s] = NoReq]
  <1>1. /\ r.phase = "ready" /\ since' = r.now /\ UNCHANGED <<op, clock, bill, missed>>
        /\ screen' = [screen EXCEPT !.floor = Floors(r), !.takings = screen.takings \cup r.sales]
        /\ req' = rest \/ req' = StartBoot(rest)
    BY DEF Land, Reads
  <1>2. Sound(r) /\ r \in Requests /\ r.now \in Nat /\ r.now <= clock /\ r.sales \subseteq Ops
        /\ SeenBefore(r.now, r.sales)
    BY <1>1 DEF Inv, Sound, Requests
  <1>3. /\ screen' \in Pages /\ screen'.floor = Floors(r) /\ screen'.takings = screen.takings \cup r.sales
    <2>1. screen \in Pages /\ screen.takings \cup r.sales \in SUBSET Ops
      BY <1>2 DEF Inv, FloorTyped, Pages
    <2>2. Floors(r) \in [Tables -> PageBills]
      BY <1>2, FloorsKnow
    <2>3. PICK f, x : f = Floors(r) /\ x = screen.takings \cup r.sales
      OBVIOUS
    <2>4. f \in [Tables -> PageBills] /\ x \in SUBSET Ops
      BY <2>1, <2>2, <2>3
    <2>5. screen' = [screen EXCEPT !.floor = f, !.takings = x]
      BY <1>1, <2>3
    <2>6. screen' \in Pages /\ screen'.floor = f /\ screen'.takings = x
      BY <2>1, <2>4, <2>5 DEF Pages
    <2> QED BY <2>3, <2>6
  <1>4. rest = [u \in Pulls \cup {BootRead} |-> rest[u]]
        /\ \A u \in Pulls \cup {BootRead} : rest[u] = req[u] \/ rest[u] = NoReq
    BY DEF Inv, FloorTyped
  <1>5. Sound([NoReq EXCEPT !.phase = "asked"]) /\ Sound(NoReq)
    BY AskedSound, NoReqSound DEF Inv
  <1> HIDE DEF rest
  <1>6. /\ req' = [u \in Pulls \cup {BootRead} |-> req'[u]]
        /\ \A u \in Pulls \cup {BootRead} : req'[u] = req[u] \/ Sound(req'[u])
    <2>1. CASE req' = rest
      BY <2>1, <1>4, <1>5
    <2>2. CASE req' = StartBoot(rest)
      BY <2>2, <1>4, <1>5, BootAsked
    <2> QED BY <1>1, <2>1, <2>2
  <1> HIDE DEF r
  <1>7. PICK n \in Nat : n = r.now
    BY <1>2
  <1>8. \A t \in Tables : screen'.floor[t].named \subseteq Log
    BY <1>2, <1>3, FloorsKnow
  <1>9. missed \in SUBSET Ops
    BY DEF Inv, FloorTyped
  <1>10. SeenBefore(n, {})'
    <2>1. Log' = Log /\ op' = op /\ missed' = missed
      BY <1>1 DEF Log, Done
    <2>2. SeenBefore(n, r.sales)
      BY <1>2, <1>7
    <2> QED BY <1>3, <2>1, <2>2 DEF SeenBefore, Sales
  <1> QED BY <1>1, <1>2, <1>3, <1>6, <1>7, <1>8, <1>9, <1>10, PageMoves

LEMMA LandBareInv == ASSUME Inv, NEW s \in Pulls, LandBare(s) PROVE Inv'
  <1>1. /\ since' = req[s].now /\ UNCHANGED <<op, clock, bill, screen>>
        /\ req' = [req EXCEPT ![s] = NoReq]
        /\ missed' = missed \cup Sales(Window(req[s].since))
    BY DEF LandBare
  <1>2. PICK n \in Nat : n = req[s].now /\ n <= clock
    BY DEF Inv, Sound, Requests
  <1>3. Sound(req[s]) /\ req[s].since \in Nat
    BY DEF Inv, Sound, Requests
  <1>4. SeenBefore(n, {})'
    <2>1. Log' = Log /\ op' = op /\ screen' = screen
      BY <1>1 DEF Log, Done
    <2>2. ASSUME NEW o \in Sales(Log), o \notin Sales(Window(req[s].since))
          PROVE  o \in screen.takings \/ o \in missed
      <3>1. op[o].at \in Nat /\ ~(op[o].at > req[s].since - Overlap)
        BY <2>2 DEF Sales, Window, Log, Inv, FloorTyped, OpRows
      <3>2. op[o].at <= req[s].since - Overlap
        BY <3>1, <1>3, FloorAssumption
      <3> QED BY <3>2, <1>3, <2>2 DEF Sound, SeenBefore
    <2> QED BY <1>1, <2>1, <2>2 DEF SeenBefore, Sales
  <1>5. missed' \in SUBSET Ops /\ screen' \in Pages
    BY <1>1 DEF Inv, FloorTyped, Sales, Window, Log
  <1>6. /\ req' = [u \in Pulls \cup {BootRead} |-> req'[u]]
        /\ \A u \in Pulls \cup {BootRead} : req'[u] = req[u] \/ Sound(req'[u])
    BY <1>1, NoReqSound DEF Inv, FloorTyped
  <1>7. \A t \in Tables : screen'.floor[t].named \subseteq Log
    BY <1>1 DEF Inv, Committed
  <1> QED BY <1>1, <1>2, <1>4, <1>5, <1>6, <1>7, PageMoves

LEMMA HydrateInv == ASSUME Inv, Hydrate PROVE Inv'
  <1> DEFINE r == req[BootRead]
  <1>1. /\ screen' = [floor |-> Floors(r), takings |-> r.sales, menu |-> r.menu]
        /\ req' = [req EXCEPT ![BootRead] = NoReq]
        /\ missed' = missed \cup (screen.takings \ r.sales)
        /\ UNCHANGED <<op, clock, bill, since>>
    BY DEF Hydrate
  <1>2. Sound(r) /\ r \in Requests /\ r.sales \subseteq Ops /\ r.menu \subseteq Ops
    BY DEF Inv, Sound, Requests
  <1>3. /\ req' = [u \in Pulls \cup {BootRead} |-> req'[u]]
        /\ \A u \in Pulls \cup {BootRead} : req'[u] = req[u] \/ Sound(req'[u])
    BY <1>1, NoReqSound DEF Inv, FloorTyped
  <1> HIDE DEF r
  <1>4. screen' \in Pages /\ screen'.floor = Floors(r) /\ screen'.takings = r.sales
    BY <1>1, <1>2, FloorsKnow DEF Pages
  <1>5. missed' \in SUBSET Ops
    BY <1>1 DEF Inv, FloorTyped, Pages
  <1>6. PICK n \in Nat : n = since /\ n <= clock
    BY DEF Inv, FloorTyped
  <1>7. \A o \in screen.takings : o \in screen'.takings \/ o \in missed'
    BY <1>1, <1>4
  <1>8. SeenBefore(n, {})'
    <2>1. SeenBefore(n, {})
      BY <1>6 DEF Inv
    <2> QED BY <1>1, <1>6, <1>7, <2>1, Quiet
  <1>9. \A t \in Tables : screen'.floor[t].named \subseteq Log
    BY <1>2, <1>4, FloorsKnow
  <1> QED BY <1>1, <1>3, <1>4, <1>5, <1>6, <1>7, <1>8, <1>9, PageMoves

\* The till's own edits touch neither what was named nor the takings.
LEMMA EditInv ==
  ASSUME Inv, (\E o \in Ops : Ring(o)) \/ \E t \in Tables : Calm(t)
  PROVE  Inv'
  <1>1. ASSUME NEW t \in Tables, NEW b \in PageBills, b.named = screen.floor[t].named,
               screen' = [screen EXCEPT !.floor[t] = b], NEW w \in [Ops -> OpRows], op' = w,
               \A o \in Ops : w[o] = op[o] \/ (op[o].state \in {"new", "queued"}
                                               /\ w[o].state \in {"new", "queued"}),
               UNCHANGED <<clock, bill, req, since, missed>>
        PROVE  Inv'
    <2>1. /\ Log' = Log /\ Timely' /\ \A o \in Log : op'[o].at = op[o].at
      BY <1>1 DEF Log, Done, Inv, Timely
    <2>2. screen' = [screen EXCEPT !.floor = [screen.floor EXCEPT ![t] = b]]
      BY <1>1
    <2>3. PICK f : f = [screen.floor EXCEPT ![t] = b]
      OBVIOUS
    <2>4. f \in [Tables -> PageBills] /\ \A u \in Tables : f[u].named \subseteq Log
      BY <1>1, <2>3 DEF Inv, FloorTyped, Pages, Committed
    <2>5. screen' \in Pages /\ screen'.floor = f /\ screen'.takings = screen.takings
      BY <2>2, <2>3, <2>4 DEF Inv, FloorTyped, Pages
    <2>6. /\ \A n \in Nat : \A X : n <= clock /\ SeenBefore(n, X) => SeenBefore(n, X)'
          /\ \A r : Sound(r) => Sound(r)'
      <3>1. /\ clock' \in Nat /\ clock <= clock' /\ Log \subseteq Log' /\ missed \subseteq missed'
            /\ \A o \in Log' \ Log : op'[o].at \in Nat /\ op'[o].at > clock - Overlap
            /\ \A o \in screen.takings : o \in screen'.takings \/ o \in missed'
        BY <1>1, <2>1, <2>5 DEF Inv, FloorTyped
      <3> QED BY <2>1, <3>1, StaysSeen
    <2>7. FloorTyped' /\ Committed'
      BY <1>1, <2>1, <2>4, <2>5 DEF Inv, FloorTyped, Committed
    <2>8. (since <= clock)' /\ SeenBefore(since, {})' /\ (\A s \in Pulls \cup {BootRead} : Sound(req[s]))'
      BY <1>1, <2>6 DEF Inv, FloorTyped
    <2> QED BY <2>1, <2>7, <2>8 DEF Inv
  <1>2. ASSUME NEW o \in Ops, Ring(o) PROVE Inv'
    <2> DEFINE t == P[o].table
    <2>1. t \in Tables /\ screen.floor[t] \in PageBills
      BY FloorAssumption DEF Inv, FloorTyped, Pages
    <2>2. ASSUME NEW x \in PageBills, NEW b,
                 b = [x EXCEPT !.src = IF x.src = "none" THEN "here" ELSE x.src,
                               !.lines = x.lines \cup {o}, !.fresh = TRUE]
          PROVE  b \in PageBills /\ b.named = x.named
      BY <2>2 DEF PageBills
    <2>3. PICK b : b = [screen.floor[t] EXCEPT
                          !.src = IF screen.floor[t].src = "none" THEN "here" ELSE screen.floor[t].src,
                          !.lines = screen.floor[t].lines \cup {o}, !.fresh = TRUE]
      OBVIOUS
    <2>4. screen' = [screen EXCEPT !.floor[t] = b] /\ op' = [op EXCEPT ![o].state = "queued"]
          /\ op[o].state = "new" /\ UNCHANGED <<clock, bill, req, since, missed>>
      BY <1>2, <2>3 DEF Ring
    <2>5. b \in PageBills /\ b.named = screen.floor[t].named
      BY <2>1, <2>2, <2>3
    <2>6. op' \in [Ops -> OpRows] /\ op'[o].state = "queued" /\ \A p \in Ops \ {o} : op'[p] = op[p]
      <3>1. ASSUME NEW x \in OpRows, NEW v, v = [x EXCEPT !.state = "queued"]
            PROVE  v \in OpRows /\ v.state = "queued"
        BY <3>1 DEF OpRows
      <3>2. PICK v : v = [op[o] EXCEPT !.state = "queued"]
        OBVIOUS
      <3>3. op' = [op EXCEPT ![o] = v] /\ op \in [Ops -> OpRows]
        BY <2>4, <3>2 DEF Inv, FloorTyped
      <3> QED BY <3>1, <3>2, <3>3
    <2> HIDE DEF t
    <2> QED BY <1>1, <2>1, <2>4, <2>5, <2>6
  <1>3. ASSUME NEW t \in Tables, Calm(t) PROVE Inv'
    <2>1. screen.floor[t] \in PageBills
      BY DEF Inv, FloorTyped, Pages
    <2>2. ASSUME NEW x \in PageBills, NEW b, b = [x EXCEPT !.fresh = FALSE]
          PROVE  b \in PageBills /\ b.named = x.named
      BY <2>2 DEF PageBills
    <2>3. PICK b : b = [screen.floor[t] EXCEPT !.fresh = FALSE]
      OBVIOUS
    <2>4. screen' = [screen EXCEPT !.floor[t] = b] /\ UNCHANGED <<op, clock, bill, req, since, missed>>
      BY <1>3, <2>3 DEF Calm
    <2> QED BY <1>1, <2>1, <2>2, <2>3, <2>4 DEF Inv, FloorTyped
  <1> QED BY <1>2, <1>3

LEMMA ReloadInv == ASSUME Inv, ReloadPage PROVE Inv'
  <1> DEFINE none == [s \in DOMAIN req |-> NoReq]
  <1>1. /\ since' = 0 /\ req' = StartBoot(none) /\ UNCHANGED <<op, clock, bill, screen, missed>>
    BY DEF ReloadPage
  <1>2. none = [u \in Pulls \cup {BootRead} |-> none[u]] /\ \A u \in Pulls \cup {BootRead} : none[u] = NoReq
    BY DEF Inv, FloorTyped
  <1> HIDE DEF none
  <1>3. /\ req' = [u \in Pulls \cup {BootRead} |-> req'[u]]
        /\ \A u \in Pulls \cup {BootRead} : Sound(req'[u])
    BY <1>1, <1>2, BootAsked, AskedSound, NoReqSound DEF Inv
  <1>4. screen' \in Pages /\ missed' \in SUBSET Ops /\ 0 <= clock
        /\ \A t \in Tables : screen'.floor[t].named \subseteq Log
    BY <1>1 DEF Inv, FloorTyped, Committed
  <1>5. SeenBefore(0, {})'
    BY <1>1, <1>4, NothingBefore, Quiet DEF Inv
  <1> QED BY <1>1, <1>3, <1>4, <1>5, PageMoves

LEMMA NextInv == ASSUME Inv, [FloorNext]_floorVars PROVE Inv'
  <1>1. CASE UNCHANGED floorVars
    BY <1>1, RequestMoves DEF floorVars, Inv, FloorTyped
  <1>2. CASE FloorNext
    BY <1>2, OutletInv, AskInv, ReadInv, OtherRequestsInv, LandInv, LandBareInv, HydrateInv,
       EditInv, ReloadInv DEF FloorNext
  <1> QED BY <1>1, <1>2

LEMMA InvAlways == FloorSpec => []Inv
  <1> QED BY InitInv, NextInv, PTL DEF FloorSpec

\* sync.js, PULL_OVERLAP_MS: however late an op is committed and however many pulls are under
\* way, a sale stamped before the window is in the takings, unless its slice was lost or an
\* older bootstrap replaced it.
THEOREM NothingFallsBehind == FloorSpec => []WindowHolds
  <1>1. Inv => WindowHolds
    BY DEF Inv, SeenBefore, WindowHolds, Sales
  <1> QED BY <1>1, InvAlways, PTL

\* kpos-bridge.js: what the merge takes off the screen of a bill that is listed, the outlet had
\* named to this page before.
THEOREM LocalWorkWins == FloorSpec => OwnWorkStays
  <1>1. ASSUME Inv, [FloorNext]_floorVars
        PROVE  \A o \in Here : LET t == P[o].table IN
                 o \in screen.floor[t].lines \ screen'.floor[t].lines /\ ~Done(o) =>
                   screen.floor[t].src = "outlet" /\ screen'.floor[t].src = "none"
    <2> SUFFICES ASSUME NEW o \in Ops, NEW t \in Tables, ~Done(o),
                        o \in screen.floor[t].lines, o \notin screen'.floor[t].lines
                 PROVE  screen.floor[t].src = "outlet" /\ screen'.floor[t].src = "none"
      BY FloorAssumption DEF Here
    <2>1. o \notin Log
      BY DEF Log
    <2>2. ASSUME NEW s \in Pulls \cup {BootRead}, screen'.floor = Floors(req[s])
          PROVE  screen.floor[t].src = "outlet" /\ screen'.floor[t].src = "none"
      <3>1. Sound(req[s])
        BY <1>1, <2>2 DEF Inv
      <3> QED BY <1>1, <2>1, <2>2, <3>1, FloorsKnow
    <2>3. ASSUME NEW s \in Pulls, Land(s) PROVE screen'.floor = Floors(req[s])
      BY <2>3 DEF Land, Inv, FloorTyped, Pages
    <2>4. CASE Hydrate
      BY <2>4, <2>2 DEF Hydrate
    <2>5. ASSUME NEW p \in Ops, Ring(p) PROVE FALSE
      BY <2>5, FloorAssumption DEF Ring, Inv, FloorTyped, Pages, PageBills
    <2>6. ASSUME NEW u \in Tables, Calm(u) PROVE FALSE
      BY <2>6 DEF Calm, Inv, FloorTyped, Pages, PageBills
    <2>7. screen' # screen
      OBVIOUS
    <2> QED BY <1>1, <2>2, <2>3, <2>4, <2>5, <2>6, <2>7
            DEF FloorNext, floorVars, Tick, ReadState, SlowRead, GapPasses, ReloadPage, Begin, Commit, Ask,
                ReadSlice, LandBare, Lose, Answers
  <1> QED BY <1>1, InvAlways, PTL DEF FloorSpec, OwnWorkStays

=============================================================================
