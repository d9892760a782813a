----------------------------- MODULE BackOffice -----------------------------
(***************************************************************************)
(* The back office (src/apply.js): what is paid or posted once a month,    *)
(* card settlements, payments with one entry, and the time clock.          *)
(*                                                                         *)
(* Payloads, beside [kind, month]:                                         *)
(*   payroll, opex, depreciate [for, amt]     for: the month paid for      *)
(*   match [batch, gross, net]     reopen [batch]                          *)
(*   pay, asset, repair, manual [amt]                                      *)
(*   in [cid, emp]     out [cid]                                           *)
(***************************************************************************)
EXTENDS Transactions

CONSTANTS Batches, Punches, Staff

ClaimKinds == {"payroll", "opex", "depreciate"}

\* What the payloads hold.  What is paid or written off for a month is something.
ASSUME OfficeAssumption ==
  /\ \A o \in Kinds(ClaimKinds) : P[o].for \in Months /\ P[o].amt \in Nat \ {0}
  /\ \A o \in Kinds({"match"}) : {P[o].gross, P[o].net} \subseteq Int
  /\ \A o \in Kinds({"match", "reopen"}) : P[o].batch \in Batches
  /\ \A o \in Kinds({"pay", "asset", "repair", "manual"}) : P[o].amt \in Nat
  /\ \A o \in Kinds({"in"}) : P[o].emp \in Staff
  /\ \A o \in Kinds({"in", "out"}) : P[o].cid \in Punches
ClaimRow(k, m) == <<k, m>>
BatchRow(b) == <<"batch", b>>
PunchRow(c) == <<"punch", c>>
Shifts(e) == <<"shifts", e>>     \* names a person in adrift; no row

OfficeRows == [r \in {ClaimRow(k, m) : k \in ClaimKinds, m \in Months} |-> 0]
                @@ [r \in {BatchRow(b) : b \in Batches} |->
                      [state |-> "none", net |-> 0]]
                @@ [r \in {PunchRow(c) : c \in Punches} |->
                      [emp |-> None, state |-> "none"]]

-----------------------------------------------------------------------------
(* Paid once: payroll_run, opex_payment and depreciation_run are claimed   *)
(* before they are booked.                                                 *)

WagesLegs(amt)  == Lines(("6300" :> amt) @@ ("2400" :> -amt))
OpexLegs(amt)   == Lines(("6300" :> amt) @@ ("1020" :> -amt))
WearLegs(amt)   == Lines(("5500" :> amt) @@ ("1510" :> -amt))
ClaimLegs(o) == CASE P[o].kind = "payroll" -> WagesLegs(P[o].amt)
                  [] P[o].kind = "opex" -> OpexLegs(P[o].amt)
                  [] P[o].kind = "depreciate" -> WearLegs(P[o].amt)

\* mutant: the row is written, and nobody asks whether it was there
ClaimAnyway(d) ==
  LET r == ClaimRow(Payload(d).kind, Payload(d).for) IN
  /\ At(d, "claimMonth")
  /\ Writes(d, r, Payload(d).amt, [tx[d] EXCEPT !.legs = ClaimLegs(tx[d].op)])
\* INSERT .. ON CONFLICT waits for another claim of the month; a claim that finds
\* the month taken does nothing (of payroll, it is refused when it had to wait)
ClaimMonth(d) ==
  LET r == ClaimRow(Payload(d).kind, Payload(d).for) IN
  /\ At(d, "claimMonth") /\ Free(d, r)
  /\ IF Val(d, r) # 0 THEN Skip(d)
     ELSE Writes(d, r, Payload(d).amt, [tx[d] EXCEPT !.legs = ClaimLegs(tx[d].op)])

-----------------------------------------------------------------------------
(* Card settlements: acq_match reads what was booked before, without a     *)
(* lock, and books the batch or the difference.                            *)

ReadNet(d) ==
  /\ At(d, "net")
  /\ Goes(d, [tx[d] EXCEPT !.seen = row[BatchRow(Payload(d).batch)].net,
                           !.fresh = row[BatchRow(Payload(d).batch)].state = "none"])

SettledLegs(gross, net) ==
  Lines(("1020" :> net) @@ ("5600" :> gross - net) @@ ("1030" :> -gross))
Correction(net, prior) == Lines(("1020" :> net - prior) @@ ("5600" :> prior - net))

Match(d) ==
  LET p == Payload(d) r == BatchRow(p.batch) was == Val(d, r)
      \* the SELECT of the prior entry comes after the upsert's wait
      legs == IF was.state = "none" THEN SettledLegs(p.gross, p.net)
              ELSE IF tx[d].fresh THEN NoLegs ELSE Correction(p.net, tx[d].seen)
      exact == IF tx[d].fresh THEN was.state = "none" ELSE tx[d].seen = was.net
  IN /\ At(d, "match")
     /\ Writes(d, r, [state |-> "matched", net |-> p.net],
          [tx[d] EXCEPT !.legs = legs, !.drift = IF exact THEN @ ELSE @ \cup {r}])

Reopen(d) ==
  LET r == BatchRow(Payload(d).batch) IN
  /\ At(d, "reopen") /\ Free(d, r)
  /\ IF Val(d, r).state = "none" THEN Skip(d)
     ELSE Writes(d, r, [Val(d, r) EXCEPT !.state = "reopened"], tx[d])

-----------------------------------------------------------------------------
(* Payments that book one entry and claim nothing. *)

VendorLegs(amt) == Lines(("2100" :> amt) @@ ("1020" :> -amt))
AssetLegs(amt)  == Lines(("1510" :> amt) @@ ("2100" :> -amt))
RepairLegs(amt) == Lines(("6300" :> amt) @@ ("2100" :> -amt))
\* by hand, to accounts the till does not own
ManualLegs(amt) == Lines(("6300" :> amt) @@ ("2400" :> -amt))
OneEntry(o) == CASE P[o].kind = "pay" -> VendorLegs(P[o].amt)
                 [] P[o].kind = "asset" -> AssetLegs(P[o].amt)
                 [] P[o].kind = "repair" -> RepairLegs(P[o].amt)
                 [] P[o].kind = "manual" -> ManualLegs(P[o].amt)
                 [] OTHER -> NoLegs

-----------------------------------------------------------------------------
(* The time clock. *)

OpenShifts(e) == {c \in Punches : row[PunchRow(c)] = [emp |-> e, state |-> "in"]}

\* clock_in refuses a second open shift, by a look that locks nothing
LookAtClock(d) ==
  /\ At(d, "shift?") /\ OpenShifts(Payload(d).emp) = {}
  /\ Goes(d, tx[d])

\* the unique name the till gave the punch makes a replay a no-op
ClockIn(d) ==
  LET p == Payload(d) r == PunchRow(p.cid) IN
  /\ At(d, "in") /\ Free(d, r)
  /\ IF Val(d, r).state # "none" THEN Skip(d)
     ELSE Writes(d, r, [emp |-> p.emp, state |-> "in"],
            [tx[d] EXCEPT !.drift =
               IF \/ OpenShifts(p.emp) # {}
                  \/ \E e \in Txs \ {d}, c \in Punches :
                       PunchRow(c) \in DOMAIN tx[e].w /\ tx[e].w[PunchRow(c)].emp = p.emp
               THEN @ \cup {Shifts(p.emp)} ELSE @])

\* by the till's name; a shift the outlet does not hold is refused
ClockOut(d) ==
  LET r == PunchRow(Payload(d).cid) IN
  /\ At(d, "out") /\ row[r].state # "none" /\ Free(d, r)
  /\ IF Val(d, r).state = "out" THEN Skip(d)
     ELSE Writes(d, r, [Val(d, r) EXCEPT !.state = "out"], tx[d])

-----------------------------------------------------------------------------
OfficeSteps(k) ==
  CASE k \in ClaimKinds -> <<"claimMonth", "ensure", "insert", "post">>
    [] k = "match" -> <<"net", "match", "ensure", "insert", "post">>
    [] k = "reopen" -> <<"reopen">>
    [] k \in {"pay", "asset", "repair", "manual"} -> <<"ensure", "insert", "post">>
    [] k = "in" -> <<"shift?", "in">>
    [] k = "out" -> <<"out">>
    [] k \in {"shut", "reopenMonth"} -> <<"period">>
OfficeKinds == ClaimKinds \cup {"match", "reopen", "pay", "asset", "repair", "manual",
                                "in", "out", "shut", "reopenMonth"}

OfficeBegin(d, o) ==
  P[o].kind \in OfficeKinds /\ Begin(d, o, OfficeSteps(P[o].kind), OneEntry(o))

OfficeStatement(d) ==
  \/ ClaimMonth(d) \/ ReadNet(d) \/ Match(d) \/ Reopen(d)
  \/ LookAtClock(d) \/ ClockIn(d) \/ ClockOut(d)

-----------------------------------------------------------------------------
(* What the back office promises. *)

EntriesOf(k, m) == {j \in journal : j.src = k /\ P[j.op].for = m}

\* A month's wages, a cost's month and a month's wear are booked once, at what the
\* claimed row says, however many devices send them (post_payroll: "A PERIOD IS
\* PAID ONCE").
PaidOnce ==
  \A k \in ClaimKinds, m \in Months :
    LET js == EntriesOf(k, m) IN
    IF row[ClaimRow(k, m)] = 0 THEN js = {}
    ELSE Cardinality(js) = 1 /\ \A j \in js : P[j.op].amt = row[ClaimRow(k, m)]

\* What the bank account took in for a batch is the net of its last file, however
\* often it was corrected or reopened; unless two files overlapped.  And a person is
\* on one shift, unless two punches overlapped.
OfficeTies ==
  /\ \A b \in Batches : BatchRow(b) \notin adrift =>
       row[BatchRow(b)].net =
         BookedOn("1020", {j \in journal : j.src = "match" /\ P[j.op].batch = b})
  /\ \A e \in Staff : Shifts(e) \notin adrift => Cardinality(OpenShifts(e)) <= 1

\* What the back office books it books once, and at the amounts its rows say.
OfficeHolds == PaidOnce /\ OfficeTies
=============================================================================
