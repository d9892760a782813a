---------------------------- MODULE AccessProofs ----------------------------
(***************************************************************************)
(* A session that was ended stays out, but for what a look under way put   *)
(* back, and no more PINs are guessed than the outlet's allowance and the  *)
(* requests under way: for any number of requests, terminals, staff and    *)
(* restarts, any life of the cache's entries and any size of the cache.    *)
(***************************************************************************)
EXTENDS Access, TLAPS, SequenceTheorems, FiniteSetTheorems

-----------------------------------------------------------------------------
(* The invariant.                                                          *)

SessionRows == [who : Staff, device : Callers, revoked : BOOLEAN]
DeviceRows == [row : BOOLEAN, code : Nat, revoked : BOOLEAN]

Typed ==
  /\ session \in Seq(SessionRows)
  /\ good \in [Sids -> Nat] /\ echo \in [Sids -> Nat]
  /\ clock \in Nat /\ out \subseteq Sids
  /\ device \in [Terminals -> DeviceRows]
  /\ req = [c \in Clients |-> req[c]]

Over(i) == session[i].revoked \/ (session[i].device # Here /\ device[session[i].device].revoked)

\* What is remembered of a session that was answered for as ended came from a look since.
EndedIsOver == \A i \in out : Over(i)
Echoed == \A i \in out : good[i] <= echo[i]

\* What a request under way carries.
Sound(r) ==
  /\ r.do = "look" => r.sid \in Sids /\ r.late \in BOOLEAN /\ (r.late => r.sid \in out)
  /\ r.do = "looked" => /\ r.sid \in Sids /\ r.late \in BOOLEAN /\ r.refuse \in BOOLEAN
                        /\ r.late => r.refuse
  /\ r.do = "in" => r.sid \in Sids
  /\ r.do = "forget" => /\ r.ends \subseteq Sids /\ (r.drop = All \/ r.ends \subseteq {r.drop})
                        /\ \A i \in r.ends : Over(i)
  /\ r.do \in {"pin", "match", "ok"} => r.device \in Callers
  /\ r.do = "ok" => r.who \in Staff

\* Only what was enrolled was ever deregistered.
Rowed == \A d \in Terminals : device[d].revoked => device[d].row

Inv == Typed /\ EndedIsOver /\ Echoed /\ Rowed /\ \A c \in Clients : Sound(req[c])

LEMMA InitInv == Init => Inv
  BY WindowAssumption DEF Init, Inv, Typed, EndedIsOver, Echoed, Rowed, Sound, Idle, Sids, SessionRows, DeviceRows

-----------------------------------------------------------------------------
(* Steps.                                                                  *)

\* A request goes on, and the rest stays, whatever becomes of buckets, staff and time.
LEMMA RequestMoves ==
  ASSUME Inv, NEW c \in Clients, NEW r, Becomes(c, r), Sound(r), clock' \in Nat,
         UNCHANGED <<session, device, good, echo, out>>
  PROVE  Inv'
  <1>1. /\ req' = [d \in Clients |-> req'[d]] /\ req'[c] = r
        /\ \A d \in Clients \ {c} : req'[d] = req[d]
    BY DEF Becomes, Inv, Typed
  <1>2. \A w : Sound(w)' <=> Sound(w)
    BY DEF Sound, Sids, Over
  <1>3. Typed'
    BY <1>1 DEF Inv, Typed, Sids
  <1>4. (EndedIsOver /\ Echoed /\ Rowed)'
    BY DEF Inv, EndedIsOver, Echoed, Rowed, Over, Sids
  <1>5. \A d \in Clients : Sound(req'[d])
    BY <1>1 DEF Inv
  <1> QED BY <1>2, <1>3, <1>4, <1>5 DEF Inv

LEMMA RowsAreRows ==
  ASSUME Typed
  PROVE  Sids = 1..Len(session) /\ Len(session) \in Nat
         /\ \A i \in Sids : session[i] \in SessionRows /\ session[i].device \in Callers
  <1>1. Sids = 1..Len(session) /\ Len(session) \in Nat /\ \A i \in Sids : session[i] \in SessionRows
    BY DEF Typed, Sids
  <1> QED BY <1>1 DEF SessionRows

\* Sessions are ended: they stay where they are, and stay ended.
LEMMA EndedRows ==
  ASSUME Typed, NEW ends
  PROVE  /\ Ended(ends) \in Seq(SessionRows) /\ DOMAIN Ended(ends) = Sids
         /\ \A i \in Sids : /\ Ended(ends)[i].device = session[i].device
                            /\ Ended(ends)[i].revoked = (session[i].revoked \/ i \in ends)
  <1>1. Sids = 1..Len(session) /\ Len(session) \in Nat /\ \A i \in Sids : session[i] \in SessionRows
    BY RowsAreRows
  <1>2. ASSUME NEW i \in Sids
        PROVE  /\ Ended(ends)[i] \in SessionRows /\ Ended(ends)[i].device = session[i].device
               /\ Ended(ends)[i].revoked = (session[i].revoked \/ i \in ends)
    <2>1. ASSUME NEW r \in SessionRows, NEW v, v = [r EXCEPT !.revoked = r.revoked \/ i \in ends]
          PROVE  v \in SessionRows /\ v.device = r.device /\ v.revoked = (r.revoked \/ i \in ends)
      BY <2>1 DEF SessionRows
    <2>2. Ended(ends)[i] = [session[i] EXCEPT !.revoked = session[i].revoked \/ i \in ends]
      BY DEF Ended
    <2> QED BY <1>1, <2>1, <2>2
  <1>3. Ended(ends) = [i \in 1..Len(session) |-> Ended(ends)[i]]
    BY <1>1 DEF Ended
  <1>4. Ended(ends) \in Seq(SessionRows)
    BY <1>1, <1>2, <1>3
  <1> QED BY <1>1, <1>2, <1>3, <1>4

\* Rows change so that what was over stays over.
LEMMA RowsChange ==
  ASSUME Inv, NEW c \in Clients, NEW r, Becomes(c, r),
         session' \in Seq(SessionRows), Sids' = Sids,
         device' \in [Terminals -> DeviceRows],
         \A i \in Sids : session'[i].device = session[i].device,
         \A i \in Sids : Over(i) => Over(i)',
         Rowed', Sound(r)', UNCHANGED <<clock, good, echo, out>>
  PROVE  Inv'
  <1>1. /\ req' = [d \in Clients |-> req'[d]] /\ req'[c] = r
        /\ \A d \in Clients \ {c} : req'[d] = req[d]
    BY DEF Becomes, Inv, Typed
  <1>2. \A w : Sound(w) => Sound(w)'
    BY DEF Sound
  <1>3. Typed'
    BY <1>1 DEF Inv, Typed
  <1>4. (EndedIsOver /\ Echoed)'
    BY DEF Inv, Typed, EndedIsOver, Echoed
  <1>6. (\A d \in Clients : Sound(req[d]))'
    BY <1>1, <1>2 DEF Inv
  <1> QED BY <1>3, <1>4, <1>6 DEF Inv

\* Where nobody is let in who was not: the requests that end, refuse, or go on to the keypad.
Elsewhere(c) ==
  \/ LookFails(c) \/ Serve(c) \/ SignIn(c) \/ Switch(c) \/ ReadSalts(c) \/ Match(c)
  \/ Charge(c) \/ Lock(c) \/ ChangePin(c) \/ ChargeOwn(c) \/ AskPin(c) \/ SetPin(c) \/ PatchStaff(c)

LEMMA CallInv == ASSUME Inv, NEW c \in Clients, Call(c) PROVE Inv'
  <1>1. PICK i \in Sids : Becomes(c, IF Cached(i) THEN Admitted(i, i \in out, "cache")
                                     ELSE [do |-> "look", sid |-> i, late |-> i \in out])
    BY DEF Call
  <1>2. Sound(Admitted(i, i \in out, "cache")) /\ Sound([do |-> "look", sid |-> i, late |-> i \in out])
    <2>1. Sound(Admitted(i, i \in out, "cache"))
      BY DEF Sound, Admitted
    <2>2. ASSUME NEW b \in BOOLEAN, b => i \in out
          PROVE  Sound([do |-> "look", sid |-> i, late |-> b])
      BY <2>2 DEF Sound
    <2>3. (i \in out) \in BOOLEAN
      OBVIOUS
    <2>4. Sound([do |-> "look", sid |-> i, late |-> i \in out])
      BY <2>2, <2>3, Zenon
    <2> QED BY <2>1, <2>4
  <1> QED BY <1>1, <1>2, RequestMoves DEF Call, Inv, Typed

\* A look at a session that was ended before it began finds it ended.
LEMMA LookInv == ASSUME Inv, NEW c \in Clients, Look(c) PROVE Inv'
  <1> DEFINE s == session[req[c].sid]
             gone == s.revoked \/ (s.device # Here /\ device[s.device].revoked)
             r == [do |-> "looked", sid |-> req[c].sid, late |-> req[c].late, refuse |-> gone]
  <1>1. /\ req[c].sid \in Sids /\ req[c].late \in BOOLEAN
        /\ req[c].late => req[c].sid \in out
    BY DEF Look, Inv, Sound
  <1>2. gone \in BOOLEAN /\ (req[c].late => gone)
    BY <1>1 DEF Inv, EndedIsOver, Over
  <1>3. Sound(r)
    BY <1>1, <1>2 DEF Sound
  <1> QED BY <1>3, RequestMoves DEF Look, Inv, Typed

LEMMA IdleSound == Sound(Idle)
  BY DEF Sound, Idle

\* What is remembered is a look's.
LEMMA DecideInv == ASSUME Inv, NEW c \in Clients, Decide(c) PROVE Inv'
  <1>1. CASE req[c].refuse
    BY <1>1, IdleSound, RequestMoves DEF Decide, Inv, Typed
  <1>2. CASE ~req[c].refuse
    <2> DEFINE i == req[c].sid
               r == Admitted(i, req[c].late, "look")
    <2>1. /\ i \in Sids /\ Becomes(c, r)
          /\ good' = Remember(i)
          /\ echo' = IF i \in out THEN [echo EXCEPT ![i] = clock + TTL] ELSE echo
          /\ UNCHANGED <<clock, session, device, out>>
      BY <1>2 DEF Decide, Inv, Sound
    <2>2. /\ good' \in [Sids -> Nat] /\ good'[i] = clock + TTL /\ clock + TTL \in Nat
          /\ \A j \in Sids \ {i} : good'[j] \in {0, good[j]}
      <3>1. clock + TTL \in Nat
        BY WindowAssumption DEF Inv, Typed
      <3>2. PICK kept : /\ kept = [j \in Sids |-> 0] \/ kept = good
                        /\ Remember(i) = [kept EXCEPT ![i] = clock + TTL]
        BY DEF Remember
      <3>3. good \in [Sids -> Nat] /\ kept \in [Sids -> Nat]
        BY <3>2 DEF Inv, Typed
      <3>4. \A j \in Sids : kept[j] \in {0, good[j]}
        BY <3>2
      <3> HIDE DEF i
      <3> QED BY <2>1, <3>1, <3>2, <3>3, <3>4
    <2>3. /\ echo' \in [Sids -> Nat] /\ (i \in out => echo'[i] = clock + TTL)
          /\ \A j \in Sids \ {i} : echo'[j] = echo[j]
      BY <2>1, <2>2 DEF Inv, Typed
    <2>4. /\ req' = [d \in Clients |-> req'[d]] /\ req'[c] = r
          /\ \A d \in Clients \ {c} : req'[d] = req[d]
      BY <2>1 DEF Becomes, Inv, Typed
    <2>5. Sound(r)
      BY <2>1 DEF Sound, Admitted
    <2> HIDE DEF i, r
    <2>6. \A w : Sound(w)' <=> Sound(w)
      BY <2>1 DEF Sound, Sids, Over
    <2>7. Echoed'
      <3>1. Echoed /\ good \in [Sids -> Nat] /\ echo \in [Sids -> Nat] /\ out \subseteq Sids
        BY DEF Inv, Typed
      <3>2. ASSUME NEW j \in out PROVE good'[j] <= echo'[j]
        <4>1. CASE j = i
          BY <4>1, <3>2, <2>2, <2>3
        <4>2. CASE j # i
          <5>1. j \in Sids \ {i} /\ good[j] \in Nat /\ echo[j] \in Nat /\ good[j] <= echo[j]
            BY <4>2, <3>1, <3>2 DEF Echoed
          <5>2. good'[j] \in {0, good[j]} /\ echo'[j] = echo[j]
            BY <5>1, <2>2, <2>3
          <5> QED BY <5>1, <5>2
        <4> QED BY <4>1, <4>2
      <3>3. out' = out
        BY <2>1
      <3> QED BY <3>2, <3>3 DEF Echoed
    <2>8. Typed'
      BY <2>1, <2>2, <2>3, <2>4 DEF Inv, Typed, Sids
    <2>9. (EndedIsOver /\ Rowed)'
      BY <2>1 DEF Inv, EndedIsOver, Rowed, Over, Sids
    <2> QED BY <2>4, <2>5, <2>6, <2>7, <2>8, <2>9 DEF Inv
  <1> QED BY <1>1, <1>2

\* The keypad, and what changes buckets and staff only.
LEMMA ElsewhereInv == ASSUME Inv, NEW c \in Clients, Elsewhere(c) PROVE Inv'
  <1>1. UNCHANGED <<session, device, good, echo, out>> /\ clock' \in Nat
    BY DEF Elsewhere, LookFails, Serve, SignIn, Switch, ReadSalts, Match, Charge, Lock, ChangePin,
       ChargeOwn, AskPin, SetPin, PatchStaff, Inv, Typed
  <1>2. \E r : Becomes(c, r) /\ Sound(r)
    <2>0. Sound(req[c])
      BY DEF Inv
    <2>1. ASSUME NEW d \in Callers, NEW pin, KeyIn(c, d, pin) PROVE \E r : Becomes(c, r) /\ Sound(r)
      <3>1. Sound([do |-> "pin", device |-> d, pin |-> pin])
        BY <2>1 DEF Sound
      <3> QED BY <2>1, <3>1, IdleSound DEF KeyIn
    <2>2. CASE LookFails(c)
      <3>1. Sound(Admitted(req[c].sid, req[c].late, "open"))
        BY <2>0, <2>2 DEF LookFails, Sound, Admitted
      <3> QED BY <2>2, <3>1 DEF LookFails
    <2>3. CASE Serve(c) \/ Lock(c) \/ ChargeOwn(c) \/ SetPin(c) \/ PatchStaff(c)
      BY <2>3, IdleSound DEF Serve, Lock, ChargeOwn, SetPin, PatchStaff
    <2>4. CASE SignIn(c)
      <3>1. PICK d \in Callers, p \in Pins : Keys(d) /\ KeyIn(c, d, p)
        BY <2>4 DEF SignIn
      <3> QED BY <3>1, <2>1
    <2>5. CASE Switch(c)
      <3>1. session[req[c].sid].device \in Callers
        BY <2>5, <2>0, RowsAreRows DEF Switch, In, Sound, Inv
      <3> QED BY <2>5, <3>1, <2>1 DEF Switch
    <2>6. CASE ReadSalts(c)
      <3>1. ASSUME NEW x PROVE Sound([do |-> "match", device |-> req[c].device, pin |-> req[c].pin,
                                      salts |-> x])
        BY <2>0, <2>6 DEF ReadSalts, Sound
      <3> QED BY <2>6, <3>1, IdleSound DEF ReadSalts
    <2>7. CASE Match(c)
      <3>1. ASSUME NEW s \in Staff PROVE Sound([do |-> "ok", who |-> s, device |-> req[c].device])
        BY <2>0, <2>7 DEF Match, Sound
      <3>2. Sound([do |-> "wrong", device |-> req[c].device])
        BY DEF Sound
      <3> QED BY <2>7, <3>1, <3>2 DEF Match, Hits
    <2>8. CASE Charge(c)
      <3>1. Sound([do |-> "lock"])
        BY DEF Sound
      <3> QED BY <2>8, <3>1, IdleSound DEF Charge
    <2>9. CASE ChangePin(c)
      <3>1. \A d : Sound([do |-> "own", device |-> d])
        BY DEF Sound
      <3> QED BY <2>9, <3>1, IdleSound DEF ChangePin
    <2>10. CASE AskPin(c)
      <3>1. \A s, p : Sound([do |-> "set", who |-> s, pin |-> p])
        BY DEF Sound
      <3> QED BY <2>10, <3>1, IdleSound DEF AskPin
    <2> QED BY <2>2, <2>3, <2>4, <2>5, <2>6, <2>7, <2>8, <2>9, <2>10 DEF Elsewhere
  <1> QED BY <1>1, <1>2, RequestMoves

-----------------------------------------------------------------------------
(* What ends sessions.                                                     *)

LEMMA EndThenInv ==
  ASSUME Inv, NEW c \in Clients, NEW ends \in SUBSET Sids, NEW sid,
         sid = All \/ ends = {sid}, EndThen(c, ends, sid), UNCHANGED device
  PROVE  Inv'
  <1> DEFINE r == [do |-> "forget", ends |-> ends, drop |-> sid]
  <1>1. /\ session' \in Seq(SessionRows) /\ Sids' = Sids
        /\ \A i \in Sids : /\ session'[i].device = session[i].device
                           /\ session'[i].revoked = (session[i].revoked \/ i \in ends)
    BY EndedRows DEF EndThen, Inv, Sids
  <1>2. \A i \in Sids : (Over(i) \/ i \in ends) => Over(i)'
    BY <1>1 DEF Over
  <1>3. Sound(r)'
    BY <1>1, <1>2 DEF Sound
  <1>5. device' \in [Terminals -> DeviceRows] /\ Rowed'
    BY DEF Inv, Typed, Rowed
  <1> HIDE DEF r
  <1>6. Becomes(c, r) /\ UNCHANGED <<clock, good, echo, out>>
    BY DEF EndThen, r
  <1> QED BY <1>1, <1>2, <1>3, <1>5, <1>6, RowsChange

LEMMA EndInv ==
  ASSUME Inv, NEW c \in Clients, SignOut(c) \/ RevokeOthers(c) \/ SignOutDevice(c)
  PROVE  Inv'
  <1>1. CASE SignOut(c)
    <2>1. req[c].sid \in Sids
      BY <1>1 DEF SignOut, In, Inv, Sound
    <2> QED BY <1>1, <2>1, EndThenInv DEF SignOut
  <1>2. CASE RevokeOthers(c)
    BY <1>2, EndThenInv DEF RevokeOthers
  <1>3. CASE SignOutDevice(c)
    <2>1. \A d : OnDevice(d) \in SUBSET Sids
      BY DEF OnDevice
    <2> QED BY <1>3, <2>1, EndThenInv DEF SignOutDevice
  <1> QED BY <1>1, <1>2, <1>3

LEMMA DeregisterInv == ASSUME Inv, NEW c \in Clients, Deregister(c) PROVE Inv'
  <1>1. PICK d \in Terminals :
          /\ device[d].row /\ device' = [device EXCEPT ![d].revoked = TRUE]
          /\ Becomes(c, [do |-> "forget", ends |-> OnDevice(d), drop |-> All])
    BY DEF Deregister
  <1>0. PICK ends : ends = OnDevice(d)
    OBVIOUS
  <1> DEFINE r == [do |-> "forget", ends |-> ends, drop |-> All]
  <1>2. /\ UNCHANGED <<session, clock, good, echo, out>> /\ Sids' = Sids
        /\ session \in Seq(SessionRows) /\ device \in [Terminals -> DeviceRows]
    BY DEF Deregister, Inv, Typed, Sids
  <1>3. /\ device' \in [Terminals -> DeviceRows]
        /\ \A e \in Terminals : /\ device'[e].row = device[e].row /\ device'[e].code = device[e].code
                                /\ device'[e].revoked = (device[e].revoked \/ e = d)
    <2>1. ASSUME NEW w \in DeviceRows, NEW v, v = [w EXCEPT !.revoked = TRUE]
          PROVE  v \in DeviceRows /\ v.row = w.row /\ v.code = w.code /\ v.revoked
      BY <2>1 DEF DeviceRows
    <2>2. device' = [device EXCEPT ![d] = [device[d] EXCEPT !.revoked = TRUE]]
      BY <1>1
    <2>3. PICK v : v = [device[d] EXCEPT !.revoked = TRUE]
      OBVIOUS
    <2>4. device' = [device EXCEPT ![d] = v] /\ v \in DeviceRows /\ v.row = device[d].row
          /\ v.code = device[d].code /\ v.revoked
      BY <2>1, <2>2, <2>3, <1>2
    <2>5. \A e \in Terminals : device[e].revoked \in BOOLEAN
      BY <1>2 DEF DeviceRows
    <2> QED BY <2>4, <2>5, <1>2 DEF DeviceRows
  <1>4. \A i \in Sids : session[i].device \in Callers
    BY RowsAreRows DEF Inv
  <1>5. \A i \in Sids : (Over(i) \/ i \in ends) => Over(i)'
    BY <1>0, <1>2, <1>3, <1>4, HereAssumption DEF Over, OnDevice, Callers
  <1>6. Sound(r)'
    BY <1>0, <1>2, <1>5 DEF Sound, OnDevice
  <1>7. Rowed'
    BY <1>1, <1>3 DEF Inv, Rowed
  <1> HIDE DEF r
  <1>8. Becomes(c, r)
    BY <1>0, <1>1 DEF r
  <1>9. session' \in Seq(SessionRows) /\ \A i \in Sids : session'[i].device = session[i].device
    BY <1>2
  <1> QED BY <1>2, <1>3, <1>5, <1>6, <1>7, <1>8, <1>9, RowsChange

\* A terminal that has no row yet has nobody's session to bring back.
LEMMA EnrolInv == ASSUME Inv, NEW c \in Clients, Enrol(c) PROVE Inv'
  <1>1. /\ UNCHANGED <<session, clock, good, echo, out>> /\ Sids' = Sids /\ Becomes(c, Idle)
        /\ session \in Seq(SessionRows) /\ device \in [Terminals -> DeviceRows] /\ clock \in Nat
    BY DEF Enrol, Inv, Typed, Sids
  <1>2. PICK d \in Terminals : /\ ~device[d].row
          /\ device' = [device EXCEPT ![d] = [row |-> TRUE, code |-> clock + Window, revoked |-> FALSE]]
    BY DEF Enrol
  <1>3. /\ device' \in [Terminals -> DeviceRows] /\ device'[d].row
        /\ \A e \in Terminals \ {d} : device'[e] = device[e]
    <2>1. PICK v : v = [row |-> TRUE, code |-> clock + Window, revoked |-> FALSE]
      OBVIOUS
    <2>2. v \in DeviceRows /\ v.row
      BY <1>1, <2>1, WindowAssumption DEF DeviceRows
    <2>3. device' = [device EXCEPT ![d] = v]
      BY <1>2, <2>1
    <2> QED BY <1>1, <2>2, <2>3
  <1>4. ~device[d].revoked
    BY <1>2 DEF Inv, Rowed
  <1>5. \A i \in Sids : session[i].device \in Callers /\ session' = session
    BY <1>1, RowsAreRows DEF Inv
  <1>6. \A i \in Sids : Over(i) => Over(i)'
    BY <1>3, <1>4, <1>5, HereAssumption DEF Over, Callers
  <1>7. Rowed'
    BY <1>3 DEF Inv, Rowed
  <1>8. Sound(Idle)'
    BY DEF Sound, Idle
  <1> QED BY <1>1, <1>3, <1>5, <1>6, <1>7, <1>8, RowsChange

\* Whatever is taken back, a request stays where it is.
LEMMA WithoutDoes == \A r, back : Without(r, back).do = r.do
  BY DEF Without

\* A claim brings back what the terminal's revocation alone had ended, and with it the answer.
LEMMA ClaimInv == ASSUME Inv, NEW c \in Clients, Claim(c) PROVE Inv'
  <1> PICK d \in Terminals :
        /\ device[d].row
        /\ device' = [device EXCEPT ![d].code = 0, ![d].revoked = FALSE]
        /\ out' = out \ Restored(d)
        /\ req' = [b \in Clients |-> IF b = c THEN Idle ELSE Without(req[b], Restored(d))]
    BY DEF Claim
  <1> PICK back : back = Restored(d)
    OBVIOUS
  <1>1. /\ device[d].row /\ back = Restored(d)
        /\ device' = [device EXCEPT ![d].code = 0, ![d].revoked = FALSE]
        /\ out' = out \ back
        /\ req' = [b \in Clients |-> IF b = c THEN Idle ELSE Without(req[b], back)]
    OBVIOUS
  <1>2. /\ UNCHANGED <<session, clock, good, echo>> /\ Sids' = Sids
        /\ session \in Seq(SessionRows) /\ device \in [Terminals -> DeviceRows]
    BY DEF Claim, Inv, Typed, Sids
  <1>3. /\ device' \in [Terminals -> DeviceRows] /\ device'[d].row
        /\ \A e \in Terminals \ {d} : device'[e] = device[e]
    <2>1. ASSUME NEW w \in DeviceRows, NEW v, v = [w EXCEPT !.code = 0, !.revoked = FALSE]
          PROVE  v \in DeviceRows /\ v.row = w.row
      BY <2>1 DEF DeviceRows
    <2>2. device' = [device EXCEPT ![d] = [device[d] EXCEPT !.code = 0, !.revoked = FALSE]]
      BY <1>1, <1>2
    <2>3. PICK v : v = [device[d] EXCEPT !.code = 0, !.revoked = FALSE]
      OBVIOUS
    <2>4. v \in DeviceRows /\ v.row /\ device' = [device EXCEPT ![d] = v]
      BY <1>1, <1>2, <2>1, <2>2, <2>3
    <2> QED BY <1>2, <2>4
  <1>4. ASSUME NEW i \in Sids, Over(i), i \notin back PROVE Over(i)'
    <2>1. session[i].device \in Callers
      BY RowsAreRows DEF Inv
    <2>2. session[i].device = d => session[i].revoked
      BY <1>1, <1>4 DEF Restored, OnDevice
    <2> QED BY <1>2, <1>3, <1>4, <2>1, <2>2, HereAssumption DEF Over, Callers
  <1>5. ASSUME NEW w, Sound(w) PROVE Sound(Without(w, back))'
    <2>1. PICK v : v = Without(w, back)
      OBVIOUS
    <2> DEFINE late == w.late /\ w.sid \notin back
    <2>2. CASE w.do = "look"
      <3>1. /\ w.sid \in Sids /\ late \in BOOLEAN /\ (late => w.sid \in out')
            /\ v = [do |-> "look", sid |-> w.sid, late |-> late]
        BY <1>1, <1>5, <2>1, <2>2 DEF Without, Sound
      <3> HIDE DEF late
      <3> QED BY <1>2, <2>1, <3>1 DEF Sound
    <2>3. CASE w.do = "looked"
      <3>1. /\ w.sid \in Sids /\ late \in BOOLEAN /\ w.refuse \in BOOLEAN /\ (late => w.refuse)
            /\ v = [do |-> "looked", sid |-> w.sid, late |-> late, refuse |-> w.refuse]
        BY <1>5, <2>1, <2>3 DEF Without, Sound
      <3> HIDE DEF late
      <3> QED BY <1>2, <2>1, <3>1 DEF Sound
    <2>4. CASE w.do = "forget"
      <3> DEFINE ends == w.ends \ back
      <3>1. /\ ends \subseteq Sids /\ (w.drop = All \/ ends \subseteq {w.drop})
            /\ \A i \in ends : i \in Sids /\ i \notin back /\ Over(i)
            /\ v = [do |-> "forget", ends |-> ends, drop |-> w.drop]
        BY <1>5, <2>1, <2>4 DEF Without, Sound
      <3>2. \A i \in ends : Over(i)'
        BY <1>4, <3>1
      <3> HIDE DEF ends
      <3> QED BY <1>2, <2>1, <3>1, <3>2 DEF Sound
    <2>5. CASE w.do \notin {"look", "looked", "forget"}
      <3>1. v = w
        BY <2>1, <2>5 DEF Without
      <3> QED BY <1>2, <1>5, <2>1, <2>5, <3>1 DEF Sound
    <2> QED BY <2>2, <2>3, <2>4, <2>5
  <1>6. Typed'
    BY <1>1, <1>2, <1>3 DEF Inv, Typed
  <1>7. (EndedIsOver /\ Echoed /\ Rowed)'
    BY <1>1, <1>2, <1>3, <1>4 DEF Inv, Typed, EndedIsOver, Echoed, Rowed
  <1>8. \A b \in Clients : Sound(req[b])'
    <2>1. Sound(Idle)'
      BY DEF Sound, Idle
    <2> QED BY <1>1, <1>5, <2>1 DEF Inv
  <1> QED BY <1>6, <1>7, <1>8 DEF Inv

\* The cache forgets before anybody is told.
LEMMA ForgetInv == ASSUME Inv, NEW c \in Clients, Forget(c) PROVE Inv'
  <1> DEFINE ends == req[c].ends
             drop == req[c].drop
  <1>1. /\ ends \subseteq Sids /\ (drop = All \/ ends \subseteq {drop}) /\ \A i \in ends : Over(i)
        /\ good' = Forgotten(drop) /\ out' = out \cup ends /\ Becomes(c, Idle)
        /\ UNCHANGED <<clock, session, device, echo>>
    BY DEF Forget, Inv, Sound
  <1> HIDE DEF ends, drop
  <1>2. /\ req' = [d \in Clients |-> req'[d]] /\ req'[c] = Idle
        /\ \A d \in Clients \ {c} : req'[d] = req[d]
    BY <1>1 DEF Becomes, Inv, Typed
  <1>3. /\ good' \in [Sids -> Nat]
        /\ \A i \in Sids : good'[i] \in {0, good[i]} /\ (i \in ends => good'[i] = 0)
    BY <1>1 DEF Forgotten, Inv, Typed
  <1>4. Typed'
    BY <1>1, <1>2, <1>3 DEF Inv, Typed, Sids
  <1>5. (EndedIsOver /\ Rowed)'
    BY <1>1 DEF Inv, EndedIsOver, Rowed, Over, Sids
  <1>6. Echoed'
    <2>1. Echoed /\ good \in [Sids -> Nat] /\ echo \in [Sids -> Nat] /\ out \subseteq Sids
      BY DEF Inv, Typed
    <2>2. ASSUME NEW j \in out \cup ends PROVE good'[j] <= echo[j]
      BY <2>1, <2>2, <1>1, <1>3 DEF Echoed
    <2> QED BY <1>1, <2>2 DEF Echoed
  <1>7. \A w : Sound(w) => Sound(w)'
    BY <1>1 DEF Sound, Sids, Over
  <1>8. \A d \in Clients : Sound(req'[d])
    BY <1>2, IdleSound DEF Inv
  <1> QED BY <1>4, <1>5, <1>6, <1>7, <1>8 DEF Inv

-----------------------------------------------------------------------------
(* Sessions opened, time and restarts.                                     *)

LEMMA PinOkInv == ASSUME Inv, NEW c \in Clients, PinOk(c) PROVE Inv'
  <1> DEFINE row == [who |-> req[c].who, device |-> req[c].device, revoked |-> FALSE]
  <1>1. /\ req[c].device \in Callers /\ req[c].who \in Staff
        /\ session' = Append(session, row) /\ good' = Append(good, 0) /\ echo' = Append(echo, 0)
        /\ Becomes(c, Idle) /\ UNCHANGED <<clock, device, out>>
    BY DEF PinOk, Inv, Sound
  <1>2. row \in SessionRows
    BY <1>1 DEF SessionRows
  <1>3. row.device = req[c].device
    OBVIOUS
  <1> HIDE DEF row
  <1>4. PICK n \in Nat : n = Len(session) /\ Sids = 1..n
    BY DEF Inv, Typed, Sids
  <1>5. /\ session' \in Seq(SessionRows) /\ Sids' = 1..(n + 1)
        /\ session'[n + 1] = row /\ \A i \in Sids : session'[i] = session[i]
    BY <1>1, <1>2, <1>4 DEF Inv, Typed, Sids
  <1>6. /\ good \in Seq(Nat) /\ Len(good) = n /\ echo \in Seq(Nat) /\ Len(echo) = n
    <2>1. \A f \in [1..n -> Nat] : f \in Seq(Nat) /\ Len(f) = n
      <3>1. ASSUME NEW f \in [1..n -> Nat] PROVE f \in Seq(Nat) /\ Len(f) = n
        <4>1. f \in Seq(Nat)
          BY SeqDef
        <4>2. DOMAIN f = 1..n /\ DOMAIN f = 1..Len(f) /\ Len(f) \in Nat
          BY <4>1, LenProperties
        <4> QED BY <4>1, <4>2
      <3> QED BY <3>1
    <2> QED BY <1>4, <2>1 DEF Inv, Typed
  <1>7. /\ good' \in [Sids' -> Nat] /\ echo' \in [Sids' -> Nat]
        /\ \A i \in Sids : good'[i] = good[i] /\ echo'[i] = echo[i]
    <2>1. ASSUME NEW f \in Seq(Nat), Len(f) = n
          PROVE  Append(f, 0) \in [1..(n + 1) -> Nat] /\ \A i \in 1..n : Append(f, 0)[i] = f[i]
      <3> DEFINE g == Append(f, 0)
      <3>1. /\ g \in Seq(Nat) /\ Len(g) = n + 1 /\ \A i \in 1..n : g[i] = f[i]
        BY <2>1, AppendProperties
      <3> HIDE DEF g
      <3>2. g \in [1..Len(g) -> Nat]
        BY <3>1, LenProperties
      <3> QED BY <3>1, <3>2 DEF g
    <2> QED BY <1>1, <1>4, <1>5, <1>6, <2>1
  <1>8. /\ req' = [d \in Clients |-> req'[d]] /\ req'[c] = Idle
        /\ \A d \in Clients \ {c} : req'[d] = req[d]
    BY <1>1 DEF Becomes, Inv, Typed
  <1>9. Sids \subseteq Sids'
    BY <1>4, <1>5
  <1>10. Typed'
    BY <1>1, <1>5, <1>7, <1>8, <1>9 DEF Inv, Typed
  <1>11. \A i \in Sids : Over(i) <=> Over(i)'
    BY <1>1, <1>5 DEF Over
  <1>12. (EndedIsOver /\ Echoed /\ Rowed)'
    BY <1>1, <1>7, <1>11 DEF Inv, Typed, EndedIsOver, Echoed, Rowed
  <1>14. \A w : Sound(w) => Sound(w)'
    BY <1>1, <1>9, <1>11 DEF Sound
  <1>15. \A d \in Clients : Sound(req'[d])
    BY <1>8, IdleSound DEF Inv
  <1> QED BY <1>10, <1>12, <1>14, <1>15 DEF Inv

LEMMA TimeInv == ASSUME Inv, Tick \/ Restart PROVE Inv'
  <1>1. UNCHANGED <<session, device, echo, out>> /\ clock' \in Nat
    BY DEF Tick, Restart, Inv, Typed
  <1>2. \A w : Sound(w) => Sound(w)'
    BY <1>1 DEF Sound, Sids, Over
  <1>3. (EndedIsOver /\ Rowed)'
    BY <1>1 DEF Inv, EndedIsOver, Rowed, Over, Sids
  <1>4. CASE Tick
    <2>1. UNCHANGED <<good, req>>
      BY <1>4 DEF Tick
    <2> QED BY <1>1, <1>2, <1>3, <2>1 DEF Inv, Typed, Echoed, Sids
  <1>5. CASE Restart
    <2>1. good' = [i \in Sids |-> 0] /\ req' = [c \in Clients |-> Idle]
      BY <1>5 DEF Restart
    <2>2. Typed'
      BY <1>1, <2>1 DEF Inv, Typed, Sids
    <2>3. Echoed'
      BY <1>1, <2>1 DEF Inv, Typed, Echoed
    <2>4. \A d \in Clients : Sound(req'[d])
      BY <2>1, IdleSound
    <2> QED BY <1>2, <1>3, <2>2, <2>3, <2>4 DEF Inv
  <1> QED BY <1>4, <1>5

LEMMA NextInv == ASSUME Inv, [Next]_vars PROVE Inv'
  <1>1. CASE UNCHANGED vars
    <2>1. \A w : Sound(w) <=> Sound(w)'
      BY <1>1 DEF vars, Sound, Sids, Over
    <2> QED BY <1>1, <2>1 DEF vars, Inv, Typed, EndedIsOver, Echoed, Rowed, Sids, Over
  <1>2. CASE Tick \/ Restart
    BY <1>2, TimeInv
  <1>3. ASSUME NEW c \in Clients,
               \/ Call(c) \/ Look(c) \/ Decide(c) \/ Forget(c) \/ PinOk(c) \/ Deregister(c)
               \/ SignOut(c) \/ RevokeOthers(c) \/ SignOutDevice(c) \/ Enrol(c) \/ Claim(c)
               \/ Elsewhere(c)
        PROVE  Inv'
    BY <1>3, CallInv, LookInv, DecideInv, ForgetInv, PinOkInv, DeregisterInv, EndInv, EnrolInv, ClaimInv,
       ElsewhereInv
  <1> QED BY <1>1, <1>2, <1>3 DEF Next, Elsewhere

\* Types, that what was answered for as ended is ended, and that what the cache still holds
\* of it was put there by a look that had begun before.
THEOREM EndedIsRemembered == Spec => []Inv
  <1> QED BY InitInv, NextInv, PTL DEF Spec

-----------------------------------------------------------------------------
(* Who is let in.                                                          *)

LetIn(c) == req[c].do # "in" /\ req'[c].do = "in" /\ req'[c].late /\ req'[c].by # "open"

LEMMA OnlyThese ==
  ASSUME Inv, NEW c \in Clients, [Next]_vars, LetIn(c)
  PROVE  Call(c) \/ Decide(c)
  <1>1. ASSUME NEW d, NEW r, Becomes(d, r), r.do # "in" \/ r.by = "open" PROVE FALSE
    BY <1>1 DEF Becomes, LetIn, Inv, Typed
  <1>2. ~UNCHANGED req
    BY DEF LetIn
  <1>3. \A d : ~Becomes(d, Idle)
    BY <1>1 DEF Idle
  <1>4. ASSUME NEW d \in Clients PROVE ~(Serve(d) \/ Lock(d) \/ ChargeOwn(d) \/ SetPin(d)
                 \/ PatchStaff(d) \/ Enrol(d) \/ Forget(d) \/ PinOk(d))
    BY <1>3 DEF Serve, Lock, ChargeOwn, SetPin, PatchStaff, Enrol, Forget, PinOk
  <1>5. ASSUME NEW d \in Clients PROVE ~LookFails(d)
    BY <1>1 DEF LookFails, Admitted
  <1>6. ASSUME NEW d \in Clients PROVE ~Look(d)
    BY <1>1 DEF Look
  <1>7. \A d, x, y : ~Becomes(d, [do |-> "forget", ends |-> x, drop |-> y])
    BY <1>1
  <1>8. ASSUME NEW d \in Clients
        PROVE ~(SignOut(d) \/ RevokeOthers(d) \/ SignOutDevice(d) \/ Deregister(d))
    BY <1>7 DEF SignOut, RevokeOthers, SignOutDevice, Deregister, EndThen
  <1>9. \A d, x, y : ~Becomes(d, [do |-> "pin", device |-> x, pin |-> y])
    BY <1>1
  <1>10. ASSUME NEW d \in Clients PROVE ~(SignIn(d) \/ Switch(d))
    BY <1>3, <1>9 DEF SignIn, Switch, KeyIn
  <1>11. ASSUME NEW d \in Clients PROVE ~ReadSalts(d)
    <2>1. \A x, y, z : ~Becomes(d, [do |-> "match", device |-> x, pin |-> y, salts |-> z])
      BY <1>1
    <2> QED BY <1>3, <2>1 DEF ReadSalts
  <1>12. ASSUME NEW d \in Clients PROVE ~Match(d)
    <2>1. \A x, y : ~Becomes(d, [do |-> "ok", who |-> x, device |-> y])
      BY <1>1
    <2>2. \A x : ~Becomes(d, [do |-> "wrong", device |-> x])
      BY <1>1
    <2> QED BY <2>1, <2>2 DEF Match
  <1>13. ASSUME NEW d \in Clients PROVE ~(Charge(d) \/ ChangePin(d) \/ AskPin(d))
    <2>1. ~Becomes(d, [do |-> "lock"])
      BY <1>1
    <2>2. \A x : ~Becomes(d, [do |-> "own", device |-> x])
      BY <1>1
    <2>3. \A x, y : ~Becomes(d, [do |-> "set", who |-> x, pin |-> y])
      BY <1>1
    <2> QED BY <1>3, <2>1, <2>2, <2>3 DEF Charge, ChangePin, AskPin
  <1>14. ~Tick
    BY <1>2 DEF Tick
  <1>15. ~Restart
    BY DEF Restart, LetIn, Idle
  <1>16. ASSUME NEW d \in Clients, Call(d) \/ Decide(d) PROVE d = c
    BY <1>16 DEF Call, Decide, Becomes, LetIn, Inv, Typed
  <1>17. ASSUME NEW d \in Clients PROVE ~Claim(d)
    <2>1. SUFFICES ASSUME Claim(d) PROVE FALSE
      OBVIOUS
    <2>2. PICK back : req'[c] = IF c = d THEN Idle ELSE Without(req[c], back)
      BY <2>1 DEF Claim
    <2>3. req'[c].do \in {"idle", req[c].do}
      BY <2>2, WithoutDoes DEF Idle
    <2> QED BY <2>3 DEF LetIn
  <1> QED BY <1>2, <1>4, <1>5, <1>6, <1>8, <1>10, <1>11, <1>12, <1>13, <1>14, <1>15, <1>16, <1>17
          DEF Next, vars

LEMMA LetInByEcho ==
  ASSUME Inv, NEW c \in Clients, [Next]_vars, LetIn(c)
  PROVE  echo[req'[c].sid] > clock
  <1>1. CASE Call(c)
    <2>1. PICK i \in Sids : Becomes(c, IF Cached(i) THEN Admitted(i, i \in out, "cache")
                                       ELSE [do |-> "look", sid |-> i, late |-> i \in out])
      BY <1>1 DEF Call
    <2>2. Cached(i) /\ req'[c] = Admitted(i, i \in out, "cache")
      BY <2>1 DEF Becomes, LetIn, Inv, Typed
    <2>3. i \in out /\ req'[c].sid = i
      <3>1. req'[c].late = (i \in out) /\ req'[c].sid = i
        BY <2>2 DEF Admitted
      <3>2. req'[c].late
        BY DEF LetIn
      <3> QED BY <3>1, <3>2, Zenon
    <2> QED BY <2>2, <2>3 DEF Cached, Inv, Typed, Echoed
  <1>2. CASE Decide(c)
    <2>1. ~req[c].refuse /\ req'[c] = Admitted(req[c].sid, req[c].late, "look")
      BY <1>2 DEF Decide, Becomes, LetIn, Idle, Inv, Typed
    <2>2. req[c].late
      <3>1. req'[c].late = req[c].late
        BY <2>1 DEF Admitted
      <3>2. req'[c].late
        BY DEF LetIn
      <3> QED BY <3>1, <3>2, Zenon
    <2> QED BY <1>2, <2>1, <2>2 DEF Decide, Inv, Sound
  <1> QED BY <1>1, <1>2, OnlyThese

\* revoked.js: a request that begins after its session was ended and its end answered for is let
\* in only by a look that fails, or while a look from before is still remembered, unless a claim
\* enrolled its terminal again meanwhile.
THEOREM RevokedStaysOut == Spec => RevokedIsRefused
  <1>1. ASSUME Inv, [Next]_vars
        PROVE  \A c \in Clients :
                 req[c].do # "in" /\ req'[c].do = "in" /\ req'[c].late /\ req'[c].by # "open"
                   => echo[req'[c].sid] > clock
    BY <1>1, LetInByEcho DEF LetIn
  <1> QED BY <1>1, EndedIsRemembered, PTL DEF Spec, RevokedIsRefused

-----------------------------------------------------------------------------
(* Guessing. A wrong PIN that was compared is on its way to be charged, has *)
(* been charged to the outlet, or is what locks everybody; and while        *)
(* everybody is locked nothing is compared.                                 *)

StaffRows == [pin : Pins \cup {"none"}, salt : Nat, active : BOOLEAN, until : Nat]

\* Nobody the keypad knows can be tried.
Shut == \A s \in Staff : Employed(s) /\ staff[s].active => Locked(s)

\* Requests whose wrong PIN is still to be charged, or to lock the staff.
Due == {c \in Clients : req[c].do \in {"wrong", "lock"}}

\* What a request holds of the staff: salts of people employed, a PIN to set.
Keyed(r) ==
  /\ r.do = "match" => \A s \in Staff : \A x : <<s, x>> \in r.salts => Employed(s)
  /\ r.do = "set" => r.who \in Staff /\ r.pin \in Pins
  /\ r.do \in {"wrong", "own"} => r.device \in Callers

Counts ==
  /\ staff \in [Staff -> StaffRows]
  /\ spent \in [Callers \cup {Outlet} -> Nat] /\ spent[Outlet] <= OutletFails
  /\ compared \in Nat
  /\ \A c \in Clients : Keyed(req[c])

Counted ==
  /\ GuessesBounded
  /\ Shut \/ compared <= spent[Outlet] + Cardinality(Due)

\* Everybody due is a request under way.
LEMMA DueBounded ==
  ASSUME Inv
  PROVE  /\ IsFiniteSet(Due) /\ Cardinality(Due) \in Nat /\ Cardinality(Clients) \in Nat
         /\ Cardinality(Due) <= Cardinality(Clients)
  <1>1. Due \subseteq Clients
    BY DEF Due
  <1> QED BY <1>1, LimitAssumption, FS_Subset, FS_CardinalityType DEF LimitAssumption

\* A request moves on; the others stay where they were.
LEMMA OneMoves ==
  ASSUME Inv, NEW c \in Clients, NEW r, Becomes(c, r)
  PROVE  req'[c] = r /\ \A d \in Clients \ {c} : req'[d] = req[d]
  BY DEF Becomes, Inv, Typed

\* Nothing that is due is added or taken away.
LEMMA DueStays ==
  ASSUME Inv, NEW c \in Clients, NEW r, Becomes(c, r),
         r.do \in {"wrong", "lock"} <=> req[c].do \in {"wrong", "lock"}
  PROVE  Due' = Due
  BY OneMoves DEF Due

\* What is held of the staff stays true while nobody is dismissed.
LEMMA KeyedStays ==
  ASSUME Inv, Counts, NEW c \in Clients, NEW r, Becomes(c, r),
         \A s \in Staff : Employed(s) => Employed(s)', Keyed(r)'
  PROVE  (\A d \in Clients : Keyed(req[d]))'
  <1>1. \A w : Keyed(w) => Keyed(w)'
    BY DEF Keyed
  <1> QED BY <1>1, OneMoves DEF Counts

\* A request moves on that neither compared nor charges.
LEMMA OtherCount ==
  ASSUME Inv, Counts, Counted, NEW c \in Clients, NEW r, Becomes(c, r), Keyed(r),
         r.do \notin {"wrong", "lock"}, req[c].do \notin {"wrong", "lock"},
         UNCHANGED <<clock, staff, spent, compared>>
  PROVE  (Counts /\ Counted)'
  <1>1. Due' = Due
    BY DueStays
  <1>2. (\A s \in Staff : Employed(s) => Employed(s)') /\ (Shut' <=> Shut)
    BY DEF Employed, Shut, Locked
  <1>3. Keyed(r)'
    BY DEF Keyed, Employed
  <1>4. Counts'
    BY <1>2, <1>3, KeyedStays DEF Counts
  <1> QED BY <1>1, <1>2, <1>4 DEF Counted, GuessesBounded

\* Something lets people back in: the count begins again.
LEMMA AnewCount ==
  ASSUME Inv, Inv', Counts, Counted, NEW c \in Clients, NEW r, Becomes(c, r), Keyed(r)',
         staff' \in [Staff -> StaffRows], \A s \in Staff : Employed(s) => Employed(s)',
         spent' = spent, compared' = 0
  PROVE  (Counts /\ Counted)'
  <1>1. Counts'
    BY KeyedStays DEF Counts
  <1>2. Cardinality(Due') \in Nat /\ Cardinality(Clients) \in Nat
    BY DueBounded, LimitAssumption, FS_Subset, FS_CardinalityType DEF Due, LimitAssumption
  <1> QED BY <1>1, <1>2, LimitAssumption DEF Counted, GuessesBounded, Counts, LimitAssumption

\* A PIN is compared, and its request goes on to be charged; while everybody is
\* locked it is compared with nobody's.
LEMMA MatchCount ==
  ASSUME Inv, Counts, Counted, NEW c \in Clients, Match(c)
  PROVE  (Counts /\ Counted)'
  <1> DEFINE hits == Hits(req[c].pin, req[c].salts)
  <1>0. UNCHANGED <<clock, staff, spent>> /\ req[c].do = "match"
    BY DEF Match
  <1>1. CASE Cardinality(hits) = 1
    <2>1. PICK s \in hits : Becomes(c, [do |-> "ok", who |-> s, device |-> req[c].device])
      BY <1>1 DEF Match
    <2>2. compared' = compared
      BY <1>1 DEF Match
    <2>3. Keyed([do |-> "ok", who |-> s, device |-> req[c].device])
      BY DEF Keyed
    <2> HIDE DEF hits
    <2> QED BY <1>0, <2>1, <2>2, <2>3, OtherCount
  <1>2. CASE Cardinality(hits) # 1
    <2>0. PICK k \in Callers : k = req[c].device
      BY <1>0 DEF Inv, Sound
    <2> DEFINE r == [do |-> "wrong", device |-> k]
    <2>1. Becomes(c, r) /\ compared' = compared + (IF CanHit(req[c].salts) THEN 1 ELSE 0)
      BY <1>2, <2>0 DEF Match
    <2>2. Keyed(r)'
      BY DEF Keyed, Callers
    <2>3. (\A s \in Staff : Employed(s) => Employed(s)') /\ (Shut' <=> Shut)
      BY <1>0 DEF Employed, Shut, Locked
    <2>4. Counts'
      BY <1>0, <2>1, <2>2, <2>3, KeyedStays DEF Counts
    <2>5. CASE Shut
      <3>1. ~CanHit(req[c].salts)
        BY <1>0, <2>5 DEF CanHit, Shut, Counts, Keyed
      <3> QED BY <2>1, <2>3, <2>4, <2>5, <3>1 DEF Counted, GuessesBounded, Counts
    <2>6. CASE ~Shut
      <3>1. Due' = Due \cup {c} /\ c \notin Due
        BY <1>0, <2>1, OneMoves DEF Due
      <3>2. Cardinality(Due') = Cardinality(Due) + 1
        BY <3>1, DueBounded, FS_AddElement
      <3>3. Due' \subseteq Clients
        BY DEF Due
      <3>4. Cardinality(Due') <= Cardinality(Clients)
        BY <3>3, LimitAssumption, FS_Subset DEF LimitAssumption
      <3>5. compared' <= spent[Outlet] + Cardinality(Due')
        BY <2>1, <2>6, <3>2, DueBounded DEF Counted, Counts
      <3>6. compared' <= OutletFails + Cardinality(Clients)
        BY <2>4, <1>0, <3>2, <3>4, <3>5, DueBounded, LimitAssumption DEF Counts, LimitAssumption
      <3> QED BY <1>0, <2>4, <3>5, <3>6 DEF Counted, GuessesBounded
    <2> QED BY <2>5, <2>6
  <1> QED BY <1>1, <1>2

\* A bucket loses nothing by a take, and gains one where there is room.
LEMMA TakenGrows ==
  ASSUME NEW b \in [Callers \cup {Outlet} -> Nat], b[Outlet] <= OutletFails, NEW k \in Callers \cup {Outlet}
  PROVE  /\ Taken(b, k) \in [Callers \cup {Outlet} -> Nat]
         /\ b[Outlet] <= Taken(b, k)[Outlet] /\ Taken(b, k)[Outlet] <= OutletFails
         /\ k = Outlet /\ b[Outlet] < OutletFails => Taken(b, k)[Outlet] = b[Outlet] + 1
  BY LimitAssumption DEF Taken, Burst, LimitAssumption

\* A wrong PIN is charged to the outlet, or goes on to lock everybody.
LEMMA ChargeCount ==
  ASSUME Inv, Counts, Counted, NEW c \in Clients, Charge(c)
  PROVE  (Counts /\ Counted)'
  <1>0. UNCHANGED <<clock, staff, compared>> /\ req[c].do = "wrong" /\ req[c].device \in Callers
    BY DEF Charge, Counts, Keyed
  <1>1. PICK b : b = Taken(spent, req[c].device)
    OBVIOUS
  <1>2. /\ b \in [Callers \cup {Outlet} -> Nat]
        /\ spent[Outlet] <= b[Outlet] /\ b[Outlet] <= OutletFails
    BY <1>0, <1>1, TakenGrows DEF Counts
  <1>3. spent' = Taken(b, Outlet)
    BY <1>1 DEF Charge
  <1>4. /\ spent' \in [Callers \cup {Outlet} -> Nat]
        /\ spent[Outlet] <= spent'[Outlet] /\ spent'[Outlet] <= OutletFails
        /\ spent[Outlet] < OutletFails => spent[Outlet] + 1 <= spent'[Outlet]
    <2>1. spent[Outlet] \in Nat /\ b[Outlet] \in Nat /\ OutletFails \in Nat
      BY <1>2, LimitAssumption DEF Counts, LimitAssumption
    <2>2. /\ spent' \in [Callers \cup {Outlet} -> Nat]
          /\ b[Outlet] <= spent'[Outlet] /\ spent'[Outlet] <= OutletFails
          /\ b[Outlet] < OutletFails => spent'[Outlet] = b[Outlet] + 1
      BY <1>2, <1>3, TakenGrows
    <2>3. spent'[Outlet] \in Nat
      BY <2>2
    <2> QED BY <1>2, <2>1, <2>2, <2>3
  <1>5. (\A s \in Staff : Employed(s) => Employed(s)') /\ (Shut' <=> Shut)
    BY <1>0 DEF Employed, Shut, Locked
  <1>6. CASE Room(Outlet)
    <2>1. Becomes(c, Idle) /\ spent[Outlet] < OutletFails
      BY <1>6 DEF Charge, Room, Burst
    <2>2. Keyed(Idle)'
      BY DEF Keyed, Idle
    <2>3. Counts'
      BY <1>0, <1>4, <1>5, <2>1, <2>2, KeyedStays DEF Counts
    <2>4. Due' = Due \ {c} /\ c \in Due
      BY <1>0, <2>1, OneMoves DEF Due, Idle
    <2>5. Cardinality(Due') = Cardinality(Due) - 1
      BY <2>4, DueBounded, FS_RemoveElement
    <2> QED BY <1>0, <1>4, <1>5, <2>1, <2>3, <2>5, DueBounded DEF Counted, GuessesBounded, Counts
  <1>7. CASE ~Room(Outlet)
    <2>1. Becomes(c, [do |-> "lock"])
      BY <1>7 DEF Charge
    <2>2. Keyed([do |-> "lock"])'
      BY DEF Keyed
    <2>3. Counts'
      BY <1>0, <1>4, <1>5, <2>1, <2>2, KeyedStays DEF Counts
    <2>4. Due' = Due
      BY <1>0, <2>1, DueStays
    <2> QED BY <1>0, <1>4, <1>5, <2>3, <2>4, DueBounded DEF Counted, GuessesBounded, Counts
  <1> QED BY <1>6, <1>7

\* The lock leaves nobody to be tried.
LEMMA LockCount ==
  ASSUME Inv, Counts, Counted, NEW c \in Clients, Lock(c)
  PROVE  (Counts /\ Counted)'
  <1>0. UNCHANGED <<clock, spent, compared>> /\ Becomes(c, Idle) /\ clock + Window \in Nat /\ clock + Window > clock
    BY WindowAssumption DEF Lock, Inv, Typed, WindowAssumption
  <1>1. \A s \in Staff : staff'[s] = IF Employed(s) /\ staff[s].active
                                     THEN [staff[s] EXCEPT !.until = clock + Window] ELSE staff[s]
    BY DEF Lock
  <1>2. ASSUME NEW x \in StaffRows, NEW y, y = [x EXCEPT !.until = clock + Window]
        PROVE  y \in StaffRows /\ y.pin = x.pin /\ y.active = x.active /\ y.until > clock
    BY <1>0, <1>2 DEF StaffRows
  <1>3. \A s \in Staff : /\ staff'[s] \in StaffRows
                         /\ staff'[s].pin = staff[s].pin /\ staff'[s].active = staff[s].active
                         /\ Employed(s) /\ staff[s].active => staff'[s].until > clock
    BY <1>1, <1>2 DEF Counts
  <1>4. staff' \in [Staff -> StaffRows]
    BY <1>3 DEF Lock
  <1>5. (\A s \in Staff : Employed(s) => Employed(s)') /\ Shut'
    BY <1>0, <1>3 DEF Employed, Shut, Locked
  <1>6. Keyed(Idle)'
    BY DEF Keyed, Idle
  <1>7. Counts'
    BY <1>0, <1>4, <1>5, <1>6, KeyedStays DEF Counts
  <1> QED BY <1>0, <1>5, <1>7 DEF Counted, GuessesBounded

\* A PIN that is set, a lock that is lifted, somebody suspended: still a row of staff.
LEMMA RowChange ==
  ASSUME NEW x \in StaffRows, NEW p, NEW y,
         \/ p \in Pins /\ y = [[[x EXCEPT !.pin = p] EXCEPT !.salt = x.salt + 1] EXCEPT !.until = 0]
         \/ y = [x EXCEPT !.until = 0]
         \/ y = [x EXCEPT !.active = ~x.active]
  PROVE  y \in StaffRows /\ y.pin \in {x.pin} \cup Pins
  <1>1. CASE p \in Pins /\ y = [[[x EXCEPT !.pin = p] EXCEPT !.salt = x.salt + 1] EXCEPT !.until = 0]
    <2>1. PICK u : u = [x EXCEPT !.pin = p]
      OBVIOUS
    <2>2. u \in StaffRows /\ u.pin = p
      BY <1>1, <2>1 DEF StaffRows
    <2>3. x.salt + 1 \in Nat
      BY DEF StaffRows
    <2>4. PICK v : v = [u EXCEPT !.salt = x.salt + 1]
      OBVIOUS
    <2>5. v \in StaffRows /\ v.pin = p
      BY <2>2, <2>3, <2>4 DEF StaffRows
    <2>6. y = [v EXCEPT !.until = 0]
      BY <1>1, <2>1, <2>4
    <2> QED BY <2>5, <2>6 DEF StaffRows
  <1>2. CASE y = [x EXCEPT !.until = 0]
    BY <1>2 DEF StaffRows
  <1>3. CASE y = [x EXCEPT !.active = ~x.active]
    BY <1>3 DEF StaffRows
  <1> QED BY <1>1, <1>2, <1>3

\* So are all the rows, and nobody is dismissed.
LEMMA StaffChange ==
  ASSUME Counts, NEW s \in Staff, NEW rows,
         \/ \E p \in Pins : rows = WithPin(s, p)
         \/ rows = [staff EXCEPT ![s].until = 0]
         \/ rows = [staff EXCEPT ![s].active = ~@]
  PROVE  /\ rows \in [Staff -> StaffRows]
         /\ \A t \in Staff : Employed(t) => rows[t].pin # "none"
  <1>1. staff \in [Staff -> StaffRows] /\ \A p \in Pins : p # "none"
    BY StaffAssumption DEF Counts, StaffAssumption
  <1>x. PICK x \in StaffRows : x = staff[s]
    BY <1>1
  <1>2. PICK y, p :
          /\ rows = [staff EXCEPT ![s] = y]
          /\ \/ p \in Pins /\ y = [[[x EXCEPT !.pin = p] EXCEPT !.salt = x.salt + 1] EXCEPT !.until = 0]
             \/ y = [x EXCEPT !.until = 0]
             \/ y = [x EXCEPT !.active = ~x.active]
    <2>1. ASSUME NEW p \in Pins
          PROVE  WithPin(s, p)
                   = [staff EXCEPT ![s] = [[[x EXCEPT !.pin = p] EXCEPT !.salt = x.salt + 1] EXCEPT !.until = 0]]
      BY <1>1, <1>x DEF WithPin, StaffRows
    <2>2. /\ [staff EXCEPT ![s].until = 0] = [staff EXCEPT ![s] = [x EXCEPT !.until = 0]]
          /\ [staff EXCEPT ![s].active = ~@] = [staff EXCEPT ![s] = [x EXCEPT !.active = ~x.active]]
      BY <1>1, <1>x
    <2> QED BY <2>1, <2>2
  <1>3. y \in StaffRows /\ y.pin \in {staff[s].pin} \cup Pins
    BY <1>2, <1>x, RowChange
  <1>4. rows \in [Staff -> StaffRows] /\ \A t \in Staff : rows[t].pin \in {staff[t].pin} \cup Pins
    BY <1>1, <1>2, <1>3
  <1> QED BY <1>1, <1>4 DEF Employed

\* The actions that change the staff let somebody in, and count anew.
LEMMA LetBackInCount ==
  ASSUME Inv, Inv', Counts, Counted, NEW c \in Clients, PinOk(c) \/ SetPin(c) \/ PatchStaff(c)
  PROVE  (Counts /\ Counted)'
  <1>0. Becomes(c, Idle) /\ spent' = spent /\ compared' = 0
    BY DEF PinOk, SetPin, PatchStaff
  <1>1. Keyed(Idle)'
    BY DEF Keyed, Idle
  <1>2. PICK s \in Staff : \/ \E p \in Pins : staff' = WithPin(s, p)
                           \/ staff' = [staff EXCEPT ![s].until = 0]
                           \/ staff' = [staff EXCEPT ![s].active = ~@]
    <2>1. CASE SetPin(c)
      BY <2>1 DEF SetPin, Counts, Keyed
    <2>2. CASE PinOk(c)
      BY <2>2 DEF PinOk, Inv, Sound
    <2>3. CASE PatchStaff(c)
      BY <2>3 DEF PatchStaff
    <2> QED BY <2>1, <2>2, <2>3
  <1>3. PICK rows : rows = staff'
    OBVIOUS
  <1>4. rows \in [Staff -> StaffRows] /\ \A t \in Staff : Employed(t) => rows[t].pin # "none"
    BY <1>2, <1>3, StaffChange
  <1> QED BY <1>0, <1>1, <1>3, <1>4, AnewCount DEF Employed

\* One's own PIN: proved, it counts anew; wrong, it is charged to the caller alone.
LEMMA ChangePinCount ==
  ASSUME Inv, Inv', Counts, Counted, NEW c \in Clients, ChangePin(c)
  PROVE  (Counts /\ Counted)'
  <1>0. /\ req[c].do = "in" /\ UNCHANGED <<clock, spent>>
        /\ Actor(c) \in Staff
    <2>1. session[req[c].sid] \in SessionRows
      BY RowsAreRows DEF ChangePin, In, Inv, Sound
    <2> QED BY <2>1 DEF ChangePin, In, Actor, SessionRows
  <1>1. PICK d : d = session[req[c].sid].device
    OBVIOUS
  <1>2. d \in Callers
    BY <1>0, <1>1, RowsAreRows DEF Inv, Sound
  <1>3. PICK s \in Staff, p \in Pins :
          \/ Becomes(c, Idle) /\ UNCHANGED <<staff, compared>>
          \/ Becomes(c, Idle) /\ staff' = WithPin(s, p) /\ compared' = 0
          \/ Becomes(c, [do |-> "own", device |-> d]) /\ UNCHANGED <<staff, compared>>
    BY <1>0, <1>1 DEF ChangePin
  <1>4. /\ Keyed(Idle) /\ Keyed(Idle)' /\ Idle.do = "idle"
        /\ Keyed([do |-> "own", device |-> d])
    BY <1>2 DEF Keyed, Idle
  <1>5. CASE UNCHANGED <<staff, compared>> /\ \E r \in {Idle, [do |-> "own", device |-> d]} : Becomes(c, r)
    BY <1>0, <1>4, <1>5, OtherCount
  <1>6. CASE Becomes(c, Idle) /\ staff' = WithPin(s, p) /\ compared' = 0
    <2>1. PICK rows : rows = WithPin(s, p)
      OBVIOUS
    <2>2. rows \in [Staff -> StaffRows] /\ \A t \in Staff : Employed(t) => rows[t].pin # "none"
      BY <2>1, StaffChange
    <2>3. staff' \in [Staff -> StaffRows] /\ \A t \in Staff : Employed(t) => Employed(t)'
      BY <1>6, <2>1, <2>2 DEF Employed
    <2> QED BY <1>0, <1>4, <1>6, <2>3, AnewCount
  <1> QED BY <1>3, <1>5, <1>6

\* A wrong PIN of one's own charges nobody else.
LEMMA ChargeOwnCount ==
  ASSUME Inv, Counts, Counted, NEW c \in Clients, ChargeOwn(c)
  PROVE  (Counts /\ Counted)'
  <1>0. /\ UNCHANGED <<clock, staff, compared>> /\ req[c].do = "own" /\ req[c].device \in Callers
        /\ Becomes(c, Idle)
    BY DEF ChargeOwn, Counts, Keyed
  <1>1. /\ spent' \in [Callers \cup {Outlet} -> Nat]
        /\ spent[Outlet] <= spent'[Outlet] /\ spent'[Outlet] <= OutletFails
    BY <1>0, TakenGrows DEF ChargeOwn, Counts
  <1>2. (\A s \in Staff : Employed(s) => Employed(s)') /\ (Shut' <=> Shut)
    BY <1>0 DEF Employed, Shut, Locked
  <1>3. Keyed(Idle)' /\ Due' = Due
    BY <1>0, DueStays DEF Keyed, Idle
  <1>4. Counts'
    BY <1>0, <1>1, <1>2, <1>3, KeyedStays DEF Counts
  <1> QED BY <1>0, <1>1, <1>2, <1>3, <1>4, DueBounded DEF Counted, GuessesBounded, Counts

\* The requests that begin, are let in, or read, and those that only end sessions or move terminals.
LEMMA AsideCount ==
  ASSUME Inv, Counts, Counted, NEW c \in Clients,
         \/ Call(c) \/ Look(c) \/ Decide(c) \/ LookFails(c) \/ Serve(c)
         \/ SignOut(c) \/ RevokeOthers(c) \/ SignOutDevice(c) \/ Deregister(c) \/ Forget(c)
         \/ SignIn(c) \/ Switch(c) \/ ReadSalts(c) \/ AskPin(c) \/ Enrol(c)
  PROVE  (Counts /\ Counted)'
  <1>1. UNCHANGED <<clock, staff, spent, compared>>
    BY DEF Call, Look, Decide, LookFails, Serve, SignOut, RevokeOthers, SignOutDevice, EndThen, Deregister, Forget,
           SignIn, Switch, ReadSalts, AskPin, Enrol
  <1>2. Keyed(Idle) /\ Idle.do = "idle"
    BY DEF Keyed, Idle
  <1>3. req[c].do \notin {"wrong", "lock"}
    <2>1. Begin(c) => req[c].do = "idle"
      BY <1>2 DEF Begin
    <2>2. In(c) \/ Rank4(c) => req[c].do = "in"
      BY DEF In, Rank4
    <2>3. CASE Call(c) \/ Look(c) \/ Decide(c) \/ LookFails(c) \/ Serve(c) \/ Forget(c)
      BY <2>1, <2>2, <2>3 DEF Call, Look, Decide, LookFails, Serve, Forget
    <2>4. CASE SignOut(c) \/ RevokeOthers(c) \/ SignOutDevice(c) \/ Deregister(c)
      BY <2>2, <2>4 DEF SignOut, RevokeOthers, SignOutDevice, Deregister
    <2>5. CASE SignIn(c) \/ Switch(c) \/ ReadSalts(c) \/ AskPin(c) \/ Enrol(c)
      BY <2>1, <2>2, <2>5 DEF SignIn, Switch, ReadSalts, AskPin, Enrol
    <2> QED BY <2>3, <2>4, <2>5
  <1>a. ASSUME NEW r, Becomes(c, r), r.do \in {"idle", "in", "look", "looked", "forget", "pin"}
        PROVE  (Counts /\ Counted)'
    <2>1. Keyed(r)
      BY <1>a DEF Keyed
    <2> QED BY <1>1, <1>3, <1>a, <2>1, OtherCount
  <1>4. CASE Call(c) \/ Look(c) \/ Decide(c) \/ LookFails(c)
    <2>1. \A i, l, b : Admitted(i, l, b).do = "in"
      BY DEF Admitted
    <2>2. CASE Call(c)
      <3>1. PICK i \in Sids : \/ Becomes(c, Admitted(i, i \in out, "cache"))
                              \/ Becomes(c, [do |-> "look", sid |-> i, late |-> i \in out])
        BY <2>2 DEF Call
      <3> QED BY <1>a, <2>1, <3>1
    <2>3. CASE Look(c)
      <3>1. PICK r : Becomes(c, r) /\ r.do = "looked"
        BY <2>3 DEF Look
      <3> QED BY <1>a, <3>1
    <2>4. CASE Decide(c)
      <3>1. Becomes(c, Idle) \/ Becomes(c, Admitted(req[c].sid, req[c].late, "look"))
        BY <2>4 DEF Decide
      <3> QED BY <1>2, <1>a, <2>1, <3>1
    <2>5. CASE LookFails(c)
      BY <1>a, <2>1, <2>5 DEF LookFails
    <2> QED BY <1>4, <2>2, <2>3, <2>4, <2>5
  <1>5. CASE Serve(c) \/ Forget(c) \/ Enrol(c)
    BY <1>2, <1>5, <1>a DEF Serve, Forget, Enrol
  <1>6. CASE SignOut(c) \/ RevokeOthers(c) \/ SignOutDevice(c) \/ Deregister(c)
    <2>1. \A e, i : EndThen(c, e, i) => Becomes(c, [do |-> "forget", ends |-> e, drop |-> i])
      BY DEF EndThen
    <2>2. \A e, i : [do |-> "forget", ends |-> e, drop |-> i].do = "forget"
      OBVIOUS
    <2>3. PICK e, i : Becomes(c, [do |-> "forget", ends |-> e, drop |-> i])
      BY <1>6, <2>1 DEF SignOut, RevokeOthers, SignOutDevice, Deregister
    <2> QED BY <1>a, <2>2, <2>3
  <1>b. CASE SignIn(c) \/ Switch(c)
    <2>1. PICK d, p : KeyIn(c, d, p)
      BY <1>b DEF SignIn, Switch
    <2>2. Becomes(c, [do |-> "pin", device |-> d, pin |-> p]) \/ Becomes(c, Idle)
      BY <2>1 DEF KeyIn
    <2> QED BY <1>2, <1>a, <2>2
  <1>7. CASE ReadSalts(c)
    <2> DEFINE open == {s \in Staff : Employed(s) /\ staff[s].active /\ ~Locked(s)}
               salts == {<<s, staff[s].salt>> : s \in open}
               r == [do |-> "match", device |-> req[c].device, pin |-> req[c].pin, salts |-> salts]
    <2>1. Becomes(c, Idle) \/ Becomes(c, r)
      BY <1>7 DEF ReadSalts
    <2>2. \A s \in Staff : \A x : <<s, x>> \in salts => Employed(s)
      OBVIOUS
    <2> HIDE DEF salts
    <2>3. Keyed(r) /\ r.do = "match"
      BY <2>2 DEF Keyed
    <2> QED BY <1>1, <1>2, <1>3, <2>1, <2>3, OtherCount
  <1>8. CASE AskPin(c)
    <2>1. PICK s \in Staff, p \in Pins : \/ Becomes(c, Idle)
                                         \/ Becomes(c, [do |-> "set", who |-> s, pin |-> p])
      BY <1>8 DEF AskPin
    <2>2. Keyed([do |-> "set", who |-> s, pin |-> p])
      BY DEF Keyed
    <2> QED BY <1>1, <1>2, <1>3, <2>1, <2>2, OtherCount
  <1> QED BY <1>4, <1>5, <1>6, <1>7, <1>8, <1>b

\* A claim, too, leaves what was compared and what is due.
LEMMA ClaimCount ==
  ASSUME Inv, Counts, Counted, NEW c \in Clients, Claim(c)
  PROVE  (Counts /\ Counted)'
  <1>1. UNCHANGED <<clock, staff, spent, compared>> /\ req[c].do = "in"
    BY DEF Claim, In
  <1>2. PICK back : req' = [b \in Clients |-> IF b = c THEN Idle ELSE Without(req[b], back)]
    BY DEF Claim
  <1>3. ASSUME NEW w, Keyed(w) PROVE Keyed(Without(w, back))'
    <2>1. PICK v : v = Without(w, back)
      OBVIOUS
    <2>2. CASE w.do \in {"look", "looked", "forget"}
      <3>1. v.do \in {"look", "looked", "forget"}
        BY <2>1, <2>2, WithoutDoes
      <3> QED BY <2>1, <3>1 DEF Keyed
    <2>3. CASE w.do \notin {"look", "looked", "forget"}
      <3>1. v = w
        BY <2>1, <2>3 DEF Without
      <3> QED BY <1>1, <1>3, <2>1, <3>1 DEF Keyed, Employed
    <2> QED BY <2>2, <2>3
  <1>4. Counts'
    <2>1. Keyed(Idle)'
      BY DEF Keyed, Idle
    <2> QED BY <1>1, <1>2, <1>3, <2>1 DEF Counts
  <1>5. \A b \in Clients : req'[b].do \in {"wrong", "lock"} <=> req[b].do \in {"wrong", "lock"}
    BY <1>1, <1>2, WithoutDoes DEF Idle
  <1>6. Due' = Due /\ (Shut' <=> Shut)
    BY <1>1, <1>5 DEF Due, Shut, Employed, Locked
  <1> QED BY <1>1, <1>4, <1>6 DEF Counted, GuessesBounded

\* Time and restarts empty what was counted.
LEMMA TimeCount ==
  ASSUME Inv, Counts, Counted, Tick \/ Restart
  PROVE  (Counts /\ Counted)'
  <1>1. staff' = staff /\ compared' = 0
    BY DEF Tick, Restart
  <1>2. spent' \in [Callers \cup {Outlet} -> Nat] /\ spent'[Outlet] <= OutletFails
    BY LimitAssumption DEF Tick, Restart, Counts, LimitAssumption
  <1>3. \A c \in Clients : Keyed(req[c])'
    <2>1. \A c \in Clients : req'[c] \in {req[c], Idle}
      BY DEF Tick, Restart
    <2>2. \A w : Keyed(w) => Keyed(w)'
      BY <1>1 DEF Keyed, Employed
    <2>3. Keyed(Idle)
      BY DEF Keyed, Idle
    <2> QED BY <2>1, <2>2, <2>3 DEF Counts
  <1>4. Counts'
    BY <1>1, <1>2, <1>3 DEF Counts
  <1>5. Cardinality(Due') \in Nat /\ Cardinality(Clients) \in Nat
    BY LimitAssumption, FS_Subset, FS_CardinalityType DEF Due, LimitAssumption
  <1> QED BY <1>1, <1>4, <1>5, LimitAssumption DEF Counted, GuessesBounded, Counts, LimitAssumption

LEMMA CountInit == Init => Counts /\ Counted
  <1> SUFFICES ASSUME Init PROVE Counts /\ Counted
    OBVIOUS
  <1>1. staff \in [Staff -> StaffRows]
    BY StaffAssumption DEF Init, StaffRows, StaffAssumption
  <1>2. Due = {} /\ Cardinality(Clients) \in Nat /\ Cardinality({}) = 0
    BY LimitAssumption, FS_CardinalityType, FS_EmptySet DEF Init, Due, Idle, LimitAssumption
  <1> QED BY <1>1, <1>2, LimitAssumption
          DEF Init, Counts, Counted, GuessesBounded, Keyed, Idle, LimitAssumption

LEMMA CountStep ==
  ASSUME Inv, Inv', Counts, Counted, [Next]_vars
  PROVE  (Counts /\ Counted)'
  <1>1. CASE UNCHANGED vars
    <2>1. \A w : Keyed(w)' <=> Keyed(w)
      BY <1>1 DEF vars, Keyed, Employed
    <2>2. Due' = Due /\ (Shut' <=> Shut)
      BY <1>1 DEF vars, Due, Shut, Employed, Locked
    <2> QED BY <1>1, <2>1, <2>2 DEF vars, Counts, Counted, GuessesBounded
  <1>2. CASE Tick \/ Restart
    BY <1>2, TimeCount
  <1>3. ASSUME NEW c \in Clients, Match(c) PROVE (Counts /\ Counted)'
    BY <1>3, MatchCount
  <1>4. ASSUME NEW c \in Clients, PinOk(c) \/ SetPin(c) \/ PatchStaff(c) PROVE (Counts /\ Counted)'
    BY <1>4, LetBackInCount
  <1>5. ASSUME NEW c \in Clients, Charge(c) PROVE (Counts /\ Counted)'
    BY <1>5, ChargeCount
  <1>6. ASSUME NEW c \in Clients, Lock(c) PROVE (Counts /\ Counted)'
    BY <1>6, LockCount
  <1>7. ASSUME NEW c \in Clients, ChangePin(c) PROVE (Counts /\ Counted)'
    BY <1>7, ChangePinCount
  <1>8. ASSUME NEW c \in Clients, ChargeOwn(c) PROVE (Counts /\ Counted)'
    BY <1>8, ChargeOwnCount
  <1>9. ASSUME NEW c \in Clients,
               \/ Call(c) \/ Look(c) \/ Decide(c) \/ LookFails(c) \/ Serve(c)
               \/ SignOut(c) \/ RevokeOthers(c) \/ SignOutDevice(c) \/ Deregister(c) \/ Forget(c)
               \/ SignIn(c) \/ Switch(c) \/ ReadSalts(c) \/ AskPin(c) \/ Enrol(c)
        PROVE  (Counts /\ Counted)'
    BY <1>9, AsideCount
  <1>10. ASSUME NEW c \in Clients, Claim(c) PROVE (Counts /\ Counted)'
    BY <1>10, ClaimCount
  <1> QED BY <1>1, <1>2, <1>3, <1>4, <1>5, <1>6, <1>7, <1>8, <1>9, <1>10 DEF Next

\* GuessesBounded: however many callers key wrong PINs at once, the outlet compares no more of
\* them than its allowance and the requests under way before it locks everybody.
THEOREM GuessingIsBounded == Spec => []GuessesBounded
  <1>1. Counted => GuessesBounded
    BY DEF Counted
  <1>2. Inv /\ Inv' /\ Counts /\ Counted /\ [Next]_vars => (Counts /\ Counted)'
    BY CountStep
  <1> QED BY <1>1, <1>2, CountInit, EndedIsRemembered, PTL DEF Spec
=============================================================================
