------------------------------- MODULE Access -------------------------------
(***************************************************************************)
(* Who may act at an outlet: the keypad and its lockout, the sessions it   *)
(* opens, the terminals they are bound to, and the cache that spares most  *)
(* requests a look at the database (routes/auth.js, auth.js, revoked.js,   *)
(* limit.js and the functions of migrations 005, 037, 038 and 051).        *)
(*                                                                         *)
(* One process serves every request and a request gives way at each of its *)
(* awaits, so each of its queries is a step of its own.  A restart empties *)
(* the cache and the buckets and drops the requests under way; the rows    *)
(* stay.  A tick is a slice of LOCK_MINS in which a bucket refills by one  *)
(* token; no token expires within the ticks of a behaviour.                *)
(***************************************************************************)
EXTENDS Integers, Sequences, FiniteSets, TLC

CONSTANTS
  Staff, Admins,             \* everyone the outlet may ever employ
  Pins, Terminals,
  First, Awaiting,           \* who is employed, and what is enrolled unclaimed, at the start
  Clients,                   \* requests under way at once
  TTL, Cap,                  \* of the cache of good sessions
  Window,                    \* LOCK_MINS, in ticks
  CallerTries, OutletFails,  \* CALLER_TRIES, OUTLET_FAILS
  MaxRequests, MaxClock, Restarts

ASSUME WindowAssumption == Window \in Nat \ {0} /\ TTL \in Nat \ {0}
ASSUME StaffAssumption == /\ Admins \subseteq Staff /\ First \in [Staff -> Pins \cup {"none"}]
                          /\ "none" \notin Pins
ASSUME LimitAssumption == CallerTries \in Nat /\ OutletFails \in Nat /\ IsFiniteSet(Clients)

VARIABLES
  clock, begun, restarts,
  staff,         \* chain.staff: [pin, salt, active, until]; until: locked_until
  device,        \* chain.device: [row, code, revoked]; code: when it lapses
  session,       \* chain.session: [who, device, revoked]
  good,          \* revoked.js: until when each session is taken for good
  spent,         \* limit.js: tokens missing from each bucket
  req,           \* the requests under way
  out,           \* history: sessions whose revocation has been answered
  echo,          \* history: until when a look from before that is remembered
  compared       \* history: wrong PINs compared since anything let people back in

vars == <<clock, begun, restarts, staff, device, session, good, spent, req, out, echo, compared>>

Here == "unpaired"                            \* a caller known by its address
Outlet == "outlet"
Callers == Terminals \cup {Here}
ASSUME HereAssumption == Here \notin Terminals
Sids == DOMAIN session
Idle == [do |-> "idle"]
Employed(s) == staff[s].pin # "none"
OnDevice(d) == {i \in Sids : session[i].device = d}
Becomes(c, r) == req' = [req EXCEPT ![c] = r]

(***************************************************************************)
(* limit.js: room looks at a bucket, take spends a token where one is left *)
(***************************************************************************)
Burst(k) == IF k = Outlet THEN OutletFails ELSE CallerTries
Room(k) == spent[k] < Burst(k)
Taken(b, k) == IF b[k] < Burst(k) THEN [b EXCEPT ![k] = @ + 1] ELSE b

Init ==
  /\ clock = 1 /\ begun = 0 /\ restarts = 0
  /\ staff = [s \in Staff |-> [pin |-> First[s], salt |-> 0, active |-> TRUE, until |-> 0]]
  /\ device = [d \in Terminals |-> [row |-> d \in Awaiting, revoked |-> FALSE,
                                  code |-> IF d \in Awaiting THEN 1 + Window ELSE 0]]
  /\ session = <<>> /\ good = <<>>
  /\ spent = [k \in Callers \cup {Outlet} |-> 0]
  /\ req = [c \in Clients |-> Idle]
  /\ out = {} /\ echo = <<>> /\ compared = 0

Begin(c) == req[c] = Idle /\ begun < MaxRequests /\ begun' = begun + 1

(***************************************************************************)
(* The session middleware.  A cached session is taken at its word; any     *)
(* other is looked up, and a look that fails lets the request in.          *)
(***************************************************************************)
Cached(i) == good[i] > clock

Admitted(i, late, by) == [do |-> "in", sid |-> i, late |-> late, by |-> by]

Call(c) ==
  /\ Begin(c)
  /\ \E i \in Sids :
       IF Cached(i) THEN Becomes(c, Admitted(i, i \in out, "cache"))
       ELSE Becomes(c, [do |-> "look", sid |-> i, late |-> i \in out])
  /\ UNCHANGED <<clock, restarts, staff, device, session, good, spent, out, echo, compared>>

\* The two rows, as one transaction reads them.
Look(c) ==
  /\ req[c].do = "look"
  /\ LET s == session[req[c].sid]
         gone == s.revoked \/ (s.device # Here /\ device[s.device].revoked)
     IN Becomes(c, [do |-> "looked", sid |-> req[c].sid, late |-> req[c].late, refuse |-> gone])
  /\ UNCHANGED <<clock, begun, restarts, staff, device, session, good, spent, out, echo, compared>>

Remember(i) ==
  LET kept == IF Cardinality({j \in Sids : good[j] > 0}) >= Cap
              THEN [j \in Sids |-> 0] ELSE good
  IN [kept EXCEPT ![i] = clock + TTL]

Decide(c) ==
  /\ req[c].do = "looked"
  /\ IF req[c].refuse
     THEN Becomes(c, Idle) /\ UNCHANGED <<good, echo>>
     ELSE /\ Becomes(c, Admitted(req[c].sid, req[c].late, "look"))
          /\ good' = Remember(req[c].sid)
          /\ echo' = IF req[c].sid \in out THEN [echo EXCEPT ![req[c].sid] = clock + TTL] ELSE echo
  /\ UNCHANGED <<clock, begun, restarts, staff, device, session, spent, out, compared>>

LookFails(c) ==
  /\ req[c].do = "look"
  /\ Becomes(c, Admitted(req[c].sid, req[c].late, "open"))
  /\ UNCHANGED <<clock, begun, restarts, staff, device, session, good, spent, out, echo, compared>>

In(c) == req[c].do = "in"
Actor(c) == session[req[c].sid].who
Rank4(c) == In(c) /\ Actor(c) \in Admins

\* Any handler that changes nothing here.
Serve(c) ==
  /\ In(c) /\ Becomes(c, Idle)
  /\ UNCHANGED <<clock, begun, restarts, staff, device, session, good, spent, out, echo, compared>>

(***************************************************************************)
(* What ends sessions: signing out, the "lost terminal" button, signing a  *)
(* terminal out and deregistering it.  The rows first; once the            *)
(* transaction has committed, the cache forgets, and then the answer.      *)
(***************************************************************************)
Ended(ends) == [i \in Sids |-> [session[i] EXCEPT !.revoked = @ \/ i \in ends]]

All == 0                                      \* forget() of no one session

EndThen(c, ends, sid) ==
  /\ session' = Ended(ends)
  /\ Becomes(c, [do |-> "forget", ends |-> ends, drop |-> sid])
  /\ UNCHANGED <<clock, begun, restarts, staff, good, spent, out, echo, compared>>

SignOut(c) ==
  In(c) /\ EndThen(c, {req[c].sid}, req[c].sid) /\ UNCHANGED device

RevokeOthers(c) ==
  Rank4(c) /\ EndThen(c, Sids \ {req[c].sid}, All) /\ UNCHANGED device

SignOutDevice(c) ==
  Rank4(c) /\ (\E d \in Terminals : EndThen(c, OnDevice(d), All)) /\ UNCHANGED device

Deregister(c) ==
  /\ Rank4(c)
  /\ \E d \in {e \in Terminals : device[e].row} :
       /\ device' = [device EXCEPT ![d].revoked = TRUE]
       /\ Becomes(c, [do |-> "forget", ends |-> OnDevice(d), drop |-> All])
  /\ UNCHANGED <<clock, begun, restarts, staff, session, good, spent, out, echo, compared>>

\* Mutant: the endpoint that revokes says nothing to the cache.
ForgottenLate(sid) == good

\* forget() drops one entry, or empties the cache as it is now.
Forgotten(sid) == [i \in Sids |-> IF sid \in {i, All} THEN 0 ELSE good[i]]

Forget(c) ==
  /\ req[c].do = "forget"
  /\ good' = Forgotten(req[c].drop)
  /\ out' = out \cup req[c].ends
  /\ Becomes(c, Idle)
  /\ UNCHANGED <<clock, begun, restarts, staff, device, session, spent, echo, compared>>

(***************************************************************************)
(* pinSignIn.  The bucket of the caller is looked at; the terminal and the *)
(* salts are read; the database says who, if exactly one person, keys that *)
(* PIN; a wrong one is charged to the caller and to the outlet, and once   *)
(* the outlet has nothing left everybody is locked.                        *)
(***************************************************************************)
\* A terminal has its row from the day it is enrolled: whether it was claimed is not asked.
Keys(d) == d = Here \/ device[d].row

KeyIn(c, d, pin) ==
  IF Room(d) THEN Becomes(c, [do |-> "pin", device |-> d, pin |-> pin]) ELSE Becomes(c, Idle)

SignIn(c) ==
  /\ Begin(c)
  /\ \E d \in {e \in Callers : Keys(e)}, p \in Pins : KeyIn(c, d, p)
  /\ UNCHANGED <<clock, restarts, staff, device, session, good, spent, out, echo, compared>>

Switch(c) ==
  /\ In(c)
  /\ \E p \in Pins : KeyIn(c, session[req[c].sid].device, p)
  /\ UNCHANGED <<clock, begun, restarts, staff, device, session, good, spent, out, echo, compared>>

Locked(s) == staff[s].until > clock

\* Everyone who may be tried, with the salt the PIN will be hashed with.
ReadSalts(c) ==
  /\ req[c].do = "pin"
  /\ IF req[c].device # Here /\ device[req[c].device].revoked
     THEN Becomes(c, Idle)
     ELSE LET open == {s \in Staff : Employed(s) /\ staff[s].active /\ ~Locked(s)}
          IN Becomes(c, [do |-> "match", device |-> req[c].device, pin |-> req[c].pin,
                         salts |-> {<<s, staff[s].salt>> : s \in open}])
  /\ UNCHANGED <<clock, begun, restarts, staff, device, session, good, spent, out, echo, compared>>

Hits(pin, salts) ==
  {s \in Staff : /\ <<s, staff[s].salt>> \in salts
                 /\ staff[s].active /\ ~Locked(s) /\ staff[s].pin = pin}

CanHit(salts) ==
  \E s \in Staff : <<s, staff[s].salt>> \in salts /\ staff[s].active /\ ~Locked(s)

Match(c) ==
  /\ req[c].do = "match"
  /\ LET hits == Hits(req[c].pin, req[c].salts) IN
     IF Cardinality(hits) = 1
     THEN /\ \E s \in hits : Becomes(c, [do |-> "ok", who |-> s, device |-> req[c].device])
          /\ UNCHANGED compared
     ELSE /\ compared' = compared + (IF CanHit(req[c].salts) THEN 1 ELSE 0)
          /\ Becomes(c, [do |-> "wrong", device |-> req[c].device])
  /\ UNCHANGED <<clock, begun, restarts, staff, device, session, good, spent, out, echo>>

\* pin_ok lifts the lock, whoever set it meanwhile, and the session is opened.
PinOk(c) ==
  /\ req[c].do = "ok"
  /\ staff' = [staff EXCEPT ![req[c].who].until = 0]
  /\ session' = Append(session, [who |-> req[c].who, device |-> req[c].device, revoked |-> FALSE])
  /\ good' = Append(good, 0) /\ echo' = Append(echo, 0)
  /\ compared' = 0
  /\ Becomes(c, Idle)
  /\ UNCHANGED <<clock, begun, restarts, device, spent, out>>

\* Both takes are one turn of the process.
Charge(c) ==
  /\ req[c].do = "wrong"
  /\ spent' = Taken(Taken(spent, req[c].device), Outlet)
  /\ Becomes(c, IF Room(Outlet) THEN Idle ELSE [do |-> "lock"])
  /\ UNCHANGED <<clock, begun, restarts, staff, device, session, good, out, echo, compared>>

\* Mutant: the failure is recorded and nobody is locked for it.
LockCounted(c) ==
  /\ req[c].do = "lock"
  /\ Becomes(c, Idle)
  /\ UNCHANGED <<clock, begun, restarts, staff, device, session, good, spent, out, echo, compared>>

\* pin_failed(outlet, 1, LOCK_MINS)
Lock(c) ==
  /\ req[c].do = "lock"
  /\ staff' = [s \in Staff |-> IF Employed(s) /\ staff[s].active
                                THEN [staff[s] EXCEPT !.until = clock + Window] ELSE staff[s]]
  /\ Becomes(c, Idle)
  /\ UNCHANGED <<clock, begun, restarts, device, session, good, spent, out, echo, compared>>

(***************************************************************************)
(* PINs set: one's own, proved by the current one and charged to the       *)
(* caller alone when that is wrong; and somebody's by an administrator,    *)
(* who is refused a PIN already keyed here.  That is asked first and       *)
(* written after.  A new PIN lifts the person's lock.                      *)
(***************************************************************************)
WithPin(s, p) ==
  [staff EXCEPT ![s].pin = p, ![s].salt = @ + 1, ![s].until = 0]

ChangePin(c) ==
  /\ In(c) /\ LET d == session[req[c].sid].device
                   s == Actor(c) IN
     \E cur, fresh \in Pins :
       /\ cur # fresh
       /\ IF ~Room(d) THEN Becomes(c, Idle) /\ UNCHANGED <<staff, compared>>
          ELSE IF staff[s].active /\ ~Locked(s) /\ staff[s].pin = cur
          THEN staff' = WithPin(s, fresh) /\ compared' = 0 /\ Becomes(c, Idle)
          ELSE Becomes(c, [do |-> "own", device |-> d]) /\ UNCHANGED <<staff, compared>>
  /\ UNCHANGED <<clock, begun, restarts, device, session, good, spent, out, echo>>

ChargeOwn(c) ==
  /\ req[c].do = "own"
  /\ spent' = Taken(spent, req[c].device)
  /\ Becomes(c, Idle)
  /\ UNCHANGED <<clock, begun, restarts, staff, device, session, good, out, echo, compared>>

PinTaken(p, except) == \E s \in Staff \ except : staff[s].pin = p

\* POST /staff for somebody new, PATCH /staff/:id with a pin for the others.
AskPin(c) ==
  /\ Rank4(c)
  /\ \E s \in Staff, p \in Pins :
       Becomes(c, IF PinTaken(p, {s}) THEN Idle ELSE [do |-> "set", who |-> s, pin |-> p])
  /\ UNCHANGED <<clock, begun, restarts, staff, device, session, good, spent, out, echo, compared>>

SetPin(c) ==
  /\ req[c].do = "set"
  /\ staff' = WithPin(req[c].who, req[c].pin)
  /\ compared' = 0
  /\ Becomes(c, Idle)
  /\ UNCHANGED <<clock, begun, restarts, device, session, good, spent, out, echo>>

\* PATCH /staff/:id: unlocking, suspending, reinstating.
PatchStaff(c) ==
  /\ Rank4(c)
  /\ \E s \in {t \in Staff : Employed(t)} :
       staff' \in {[staff EXCEPT ![s].until = 0],
                   [staff EXCEPT ![s].active = ~@]}
  /\ compared' = 0
  /\ Becomes(c, Idle)
  /\ UNCHANGED <<clock, begun, restarts, device, session, good, spent, out, echo>>

(***************************************************************************)
(* Terminals enrolled and claimed, once, with the code read out.  The code *)
(* outlives a deregistration, and a claim takes that back: sessions it had *)
(* ended, and that nobody ended one by one, count as never ended.          *)
(***************************************************************************)
Enrol(c) ==
  /\ Rank4(c)
  /\ \E d \in {e \in Terminals : ~device[e].row} :
       device' = [device EXCEPT ![d] = [row |-> TRUE, code |-> clock + Window, revoked |-> FALSE]]
  /\ Becomes(c, Idle)
  /\ UNCHANGED <<clock, begun, restarts, staff, session, good, spent, out, echo, compared>>

Restored(d) == {i \in OnDevice(d) : ~session[i].revoked}

\* What a request under way remembers of the end of sessions that are back.
Without(r, back) ==
  CASE r.do = "look"   -> [do |-> "look", sid |-> r.sid, late |-> r.late /\ r.sid \notin back]
    [] r.do = "looked" -> [do |-> "looked", sid |-> r.sid, late |-> r.late /\ r.sid \notin back,
                           refuse |-> r.refuse]
    [] r.do = "forget" -> [do |-> "forget", ends |-> r.ends \ back, drop |-> r.drop]
    [] OTHER -> r

Claim(c) ==
  /\ In(c)
  /\ \E d \in {e \in Terminals : device[e].row /\ device[e].code > clock} :
       /\ device' = [device EXCEPT ![d].code = 0, ![d].revoked = FALSE]
       /\ out' = out \ Restored(d)
       /\ req' = [b \in Clients |-> IF b = c THEN Idle ELSE Without(req[b], Restored(d))]
  /\ UNCHANGED <<clock, begun, restarts, staff, session, good, spent, echo, compared>>

(***************************************************************************)
(* Time and restarts                                                       *)
(***************************************************************************)
Tick ==
  /\ clock < MaxClock /\ clock' = clock + 1
  /\ spent' = [k \in DOMAIN spent |-> IF spent[k] > 0 THEN spent[k] - 1 ELSE 0]
  /\ compared' = 0
  /\ UNCHANGED <<begun, restarts, staff, device, session, good, req, out, echo>>

Restart ==
  /\ restarts < Restarts /\ restarts' = restarts + 1
  /\ good' = [i \in Sids |-> 0]
  /\ spent' = [k \in DOMAIN spent |-> 0]
  /\ req' = [c \in Clients |-> Idle]
  /\ compared' = 0
  /\ UNCHANGED <<clock, begun, staff, device, session, out, echo>>

Next ==
  \/ \E c \in Clients :
       \/ Call(c) \/ Look(c) \/ Decide(c) \/ LookFails(c) \/ Serve(c)
       \/ SignOut(c) \/ RevokeOthers(c) \/ SignOutDevice(c) \/ Deregister(c) \/ Forget(c)
       \/ SignIn(c) \/ Switch(c) \/ ReadSalts(c) \/ Match(c) \/ PinOk(c) \/ Charge(c) \/ Lock(c)
       \/ ChangePin(c) \/ ChargeOwn(c) \/ AskPin(c) \/ SetPin(c) \/ PatchStaff(c)
       \/ Enrol(c) \/ Claim(c)
  \/ Tick \/ Restart

Spec == Init /\ [][Next]_vars
-----------------------------------------------------------------------------
\* A request that begins after its session was ended, and after the person who
\* ended it was told so, is let in only by a failed look, or out of the cache
\* for as long as a look from before that answer is remembered: never by an
\* entry the cache already held (revoked.js: forget is called by the endpoints
\* that revoke; TTL bounds what a look under way puts back).  A terminal that is
\* claimed with a code that outlived its deregistration is enrolled again, and its
\* sessions with it: they are ended anew, or not at all.
RevokedIsRefused ==
  [][\A c \in Clients :
       req[c].do # "in" /\ req'[c].do = "in" /\ req'[c].late /\ req'[c].by # "open"
         => echo[req'[c].sid] > clock]_vars

\* However many callers key wrong PINs at once, no more of them are compared with
\* anybody's than the outlet's allowance, the one that finds it spent, and those
\* already on their way: from then on nobody can be tried until time passes, the
\* process restarts, or a right PIN or an administrator lets somebody back in
\* (auth.js, tier two; pin_match skips the locked).
GuessesBounded == compared <= OutletFails + Cardinality(Clients)

=============================================================================
