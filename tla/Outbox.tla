------------------------------- MODULE Outbox -------------------------------
(***************************************************************************)
(* The till's durable queue (app/kashikeyo-api.js): what the operator does *)
(* goes into IndexedDB first, and flush() carries it to whichever outlet   *)
(* the terminal is pointed at.                                             *)
(*                                                                         *)
(* A flight is one run of flush(). Its awaits are steps of their own, so   *)
(* two flights overlap when the second passes the guard before the first   *)
(* has set _flushing. The server is the one OpLog promises: what it        *)
(* acknowledges is in its log, and what is in its log is only ever         *)
(* acknowledged again.                                                     *)
(***************************************************************************)
EXTENDS Naturals, FiniteSets

CONSTANTS
  Op,          \* op ids
  Record,      \* those of op_discarded records, numbered by Date.now()
  Lamport,     \* the number each op carries: tick()'s, or the time for a record
  Install,     \* databases this origin's outlet id may name, one after another
  First,       \* the one it names at the start
  Unnamed,     \* "": no install is known
  Nobody,      \* no session token
  Ended,       \* the token of a session that was ended at the outlet
  Flight,      \* runs of flush() that can be under way at one time
  PUSH_CHUNK,  \* most ops in one push
  DEAD_TRIES,  \* refusals after which an op is parked
  MaxRefusals, \* bound: refusals the outlet gives one op
  MaxFaults,   \* bound: lost answers, reloads, log-outs and ended sessions
  CleanSwitch, \* whether the outlet id changes hands only after a full log-out
  BootAnswers  \* whether the bootstrap that brings a page up always names the install

ASSUME ClockAssumption ==
  /\ Record \subseteq Op /\ Lamport \in [Op -> Nat]
  /\ \A o, p \in Op : Lamport[o] = Lamport[p] => o = p
  /\ \A o \in Op \ Record, p \in Record : Lamport[o] < Lamport[p]
ASSUME NameAssumption == /\ First \in Install /\ Unnamed \notin Install
                         /\ Nobody \notin Install /\ Ended \notin Install /\ Ended # Nobody
ASSUME BoundAssumption == /\ PUSH_CHUNK \in Nat \ {0} /\ DEAD_TRIES \in Nat \ {0}
                          /\ MaxRefusals \in Nat /\ MaxFaults \in Nat
                          /\ CleanSwitch \in BOOLEAN /\ BootAnswers \in BOOLEAN

VARIABLES
  store,     \* IndexedDB: one row per op
  local,     \* localStorage "install"
  known,     \* installId: what the last bootstrap of this page named
  session,   \* the token: the install that issued it, or Nobody or Ended
  started,   \* the bridge's start() has run in this page
  due,       \* a call of flush() is about to be made, or its timer is set
  flushing,  \* _flushing
  flight,    \* the runs of flush() under way
  owing,     \* discarded ops whose record is still to be queued
  live,      \* the install the outlet id names at the server
  log,       \* op_log of each install
  wire,      \* pushes their sender gave up on, still able to arrive
  made,      \* history: ops ever queued
  discarded, \* history: ops an operator gave up
  meant,     \* history: the installs each op was queued against or adopted into
  refusals,  \* history: times the outlet refused each op
  faults     \* history: answers lost, reloads, log-outs and ended sessions so far

page == <<known, started, due, flushing, flight, owing>>
server == <<live, log, wire>>
history == <<made, discarded, meant, refusals, faults>>
vars == <<store, local, session, page, server, history>>

Names == Install \cup {Unnamed}
Tokens == Install \cup {Nobody, Ended}
Rows == [here : BOOLEAN, attempts : Nat, parked : BOOLEAN, install : Names]

Row(attempts, parked, install) ==
  [here |-> TRUE, attempts |-> attempts, parked |-> parked, install |-> install]
NoRow == [here |-> FALSE, attempts |-> 0, parked |-> FALSE, install |-> Unnamed]

\* Where a run of flush() is, with what it still holds: its copy of the rows,
\* the install it fences for and the strangers to park; the push it sent and
\* which of its ops the log lacked then; the answers to write into the store.
Idle == [phase |-> "idle"]
Reading == [phase |-> "reading"]
Fencing(copy, inst, strangers) ==
  [phase |-> "fencing", copy |-> copy, inst |-> inst, strangers |-> strangers]
Sent(copy, batch, fresh, token) ==
  [phase |-> "sent", copy |-> copy, batch |-> batch, fresh |-> fresh, token |-> token]
Answered(copy, acks, errors) ==
  [phase |-> "answered", copy |-> copy, acks |-> acks, errors |-> errors]

Copies == [Op -> Rows]
Flights ==
  {Idle, Reading}
  \cup [phase : {"fencing"}, copy : Copies, inst : Names, strangers : SUBSET Op]
  \cup [phase : {"sent"}, copy : Copies, batch : SUBSET Op, fresh : SUBSET Op, token : Tokens]
  \cup [phase : {"answered"}, copy : Copies, acks : SUBSET Op, errors : SUBSET Op]

Pushes == [batch : SUBSET Op, fresh : SUBSET Op, token : Tokens]
Pushed(f) == [batch |-> flight[f].batch, fresh |-> flight[f].fresh, token |-> flight[f].token]

TypeOK ==
  /\ store \in [Op -> Rows]
  /\ local \in Names /\ known \in Names /\ session \in Tokens
  /\ started \in BOOLEAN /\ due \in BOOLEAN /\ flushing \in BOOLEAN
  /\ flight \in [Flight -> Flights]
  /\ owing \subseteq Op
  /\ live \in Install /\ log \in [Install -> SUBSET Op] /\ wire \subseteq Pushes
  /\ made \subseteq Op /\ discarded \subseteq Op
  /\ meant \in [Op -> SUBSET Names] /\ refusals \in [Op -> 0..MaxRefusals] /\ faults \in 0..MaxFaults

\* this.installId || this.local("install") || ""
Inst == IF known # Unnamed THEN known ELSE local

\* The rows of this install that are still in the replay.
MineUntried(f) == {o \in Op : /\ flight[f].copy[o].here    \* mutant: a refused op is not
                              /\ flight[f].copy[o].attempts = 0   \* sent again
                              /\ ~flight[f].copy[o].parked
                              /\ flight[f].copy[o].install = flight[f].inst}

Mine(f) == {o \in Op : /\ flight[f].copy[o].here
                       /\ ~flight[f].copy[o].parked
                       /\ flight[f].copy[o].install = flight[f].inst}

ForemostUnsorted(S) ==       \* mutant: the latest work goes first
  {o \in S : Cardinality({p \in S : Lamport[p] > Lamport[o]}) < PUSH_CHUNK}

\* sort by lamport, slice(0, PUSH_CHUNK)
Foremost(S) == {o \in S : Cardinality({p \in S : Lamport[p] < Lamport[o]}) < PUSH_CHUNK}

\* What a flight still needs of its copy of the rows.
Copied(f, S) == [o \in Op |-> IF o \in S THEN flight[f].copy[o] ELSE NoRow]

Becomes(f, new) == flight' = [flight EXCEPT ![f] = new]

\* flush()'s finally: the flag is down, and what is left calls for another.
Lands(f) == /\ Becomes(f, Idle)
            /\ flushing' = FALSE
            /\ due' = (due \/ \E o \in Op : store[o].here /\ ~store[o].parked)

Init ==
  /\ store = [o \in Op |-> NoRow]
  /\ local = Unnamed /\ known = Unnamed /\ session = Nobody
  /\ started = FALSE /\ due = FALSE /\ flushing = FALSE
  /\ flight = [f \in Flight |-> Idle]
  /\ owing = {}
  /\ live = First /\ log = [i \in Install |-> {}] /\ wire = {}
  /\ made = {} /\ discarded = {}
  /\ meant = [o \in Op |-> {}] /\ refusals = [o \in Op |-> 0] /\ faults = 0

-----------------------------------------------------------------------------
(* The operator and the terminal.                                          *)

\* queue(): a row stamped with the install this page believes in, and a flush.
Enqueue(o) ==
  /\ o \notin made
  /\ store' = [store EXCEPT ![o] = Row(0, FALSE, Inst)]
  /\ made' = made \cup {o}
  /\ meant' = [meant EXCEPT ![o] = {Inst}]
  /\ due' = TRUE

\* The ops of the floor are numbered one after another by tick().
Queue ==
  /\ \E o \in Op \ Record : /\ Enqueue(o)
                            /\ \A p \in made \ Record : Lamport[p] < Lamport[o]
  /\ UNCHANGED <<local, known, session, started, flushing, flight, owing, server,
                 discarded, refusals, faults>>

\* retryOp(): a person sends a parked op again, and adopts it.
RetryOp ==
  /\ \E o \in Op :
       /\ store[o].here /\ store[o].parked
       /\ LET adopted == IF Inst # Unnamed THEN Inst ELSE store[o].install
          IN  /\ store' = [store EXCEPT ![o] = Row(0, FALSE, adopted)]
              /\ meant' = [meant EXCEPT ![o] = @ \cup {adopted}]
  /\ due' = TRUE
  /\ UNCHANGED <<local, known, session, started, flushing, flight, owing, server,
                 made, discarded, refusals, faults>>

\* discardOp(): the row goes first, the record of it is queued after.
DiscardOp ==
  /\ \E o \in Op :
       /\ store[o].here /\ store[o].parked
       /\ store' = [store EXCEPT ![o] = NoRow]
       /\ owing' = owing \cup {o}
       /\ discarded' = discarded \cup {o}
  /\ UNCHANGED <<local, known, session, started, due, flushing, flight, server,
                 made, meant, refusals, faults>>

RecordDiscard ==
  /\ \E o \in owing, p \in Record :
       /\ Enqueue(p)
       /\ owing' = owing \ {o}
  /\ UNCHANGED <<local, known, session, started, flushing, flight, server,
                 discarded, refusals, faults>>

\* signIn(): a PIN is accepted by whatever install is there, and flushes.
SignIn ==
  /\ session # live
  /\ session' = live
  /\ due' = TRUE
  /\ UNCHANGED <<store, local, known, started, flushing, flight, owing, server, history>>

\* The outlet ends the session, signed out from elsewhere or run out; the till
\* still holds its token.
SessionEnds ==
  /\ session = live
  /\ faults < MaxFaults
  /\ session' = Ended
  /\ faults' = faults + 1
  /\ UNCHANGED <<store, local, known, started, due, flushing, flight, owing, server,
                 made, discarded, meant, refusals>>

\* bootstrap() names the install; an ended token or one of another install is turned away.
Bootstrap ==
  \/ session = live /\ known' = live /\ local' = live /\ UNCHANGED session
  \/ session # live /\ session' = Nobody /\ UNCHANGED <<known, local>>

\* The page comes up with a session: bootstrap(), answered or not, and start().
Boot ==
  /\ ~started /\ session # Nobody
  /\ \/ Bootstrap /\ (BootAnswers => session = live)
     \/ ~BootAnswers /\ UNCHANGED <<known, local, session>>
  /\ started' = TRUE
  /\ due' = TRUE
  /\ UNCHANGED <<store, flushing, flight, owing, server, history>>

\* reread(): a later bootstrap, which starts no flush.
Reread ==
  /\ started /\ session # Nobody
  /\ Bootstrap
  /\ UNCHANGED <<store, started, due, flushing, flight, owing, server, history>>

\* The page is gone and comes back: its memory is lost, a push it had sent is
\* on its way all the same.
Reload ==
  /\ faults < MaxFaults
  /\ faults' = faults + 1
  /\ flight' = [f \in Flight |-> Idle]
  /\ wire' = wire \cup {Pushed(f) : f \in {g \in Flight : flight[g].phase = "sent"}}
  /\ known' = Unnamed /\ started' = FALSE /\ due' = FALSE /\ flushing' = FALSE
  /\ owing' = {}
  /\ UNCHANGED <<store, live, log, made, discarded, meant, refusals>>

Crash == Reload /\ UNCHANGED <<local, session>>

\* The full log-out, wipeLocal(): caches cleared, rows that are owed kept.
WipeLocal ==
  /\ started
  /\ Reload
  /\ local' = Unnamed
  /\ session' = Nobody

\* The origin is pointed at another database, whose outlet has the same id.
SwitchInstall ==
  /\ live = First
  /\ CleanSwitch => local = Unnamed /\ session = Nobody /\ known = Unnamed
  /\ live' \in Install \ {First}
  /\ UNCHANGED <<store, local, session, page, log, wire, history>>

-----------------------------------------------------------------------------
(* flush().                                                                *)

\* Called for a reason, or because the tab came back or somebody pressed replay.
Start(f) ==
  /\ flight[f].phase = "idle"
  /\ ~flushing /\ session # Nobody
  /\ Becomes(f, Reading)
  /\ due' = FALSE
  /\ UNCHANGED <<store, local, known, session, started, flushing, owing, server, history>>

\* The guard: another flight is out, or nobody is signed in.
TurnedAway ==
  /\ due
  /\ flushing \/ session = Nobody
  /\ due' = FALSE
  /\ UNCHANGED <<store, local, known, session, started, flushing, flight, owing, server, history>>

\* Mutant: with no install named the fence does not run, and all rows go.
ReadBeforeNamed(f) ==
  /\ flight[f].phase = "reading"
  /\ Becomes(f, Fencing([o \in Op |-> IF Inst # Unnamed THEN store[o]
                                      ELSE [store[o] EXCEPT !.install = Inst]],
                        Inst, {o \in Op : /\ Inst # Unnamed
                                          /\ store[o].here /\ ~store[o].parked
                                          /\ store[o].install # Inst}))
  /\ UNCHANGED <<store, local, known, session, started, due, flushing, owing, server, history>>

\* await pending(), and the fence: no name, no flight; rows of another install
\* are to be parked.
Read(f) ==
  /\ flight[f].phase = "reading"
  /\ Becomes(f, IF Inst = Unnamed THEN Idle
                ELSE Fencing(store, Inst, {o \in Op : /\ store[o].here /\ ~store[o].parked
                                                      /\ store[o].install # Inst}))
  /\ UNCHANGED <<store, local, known, session, started, due, flushing, owing, server, history>>

\* The flight's own copy of the row is written back, parked.
ParkStranger(f) ==
  /\ flight[f].phase = "fencing"
  /\ \E o \in flight[f].strangers :
       LET row == flight[f].copy[o]
       IN  /\ store' = [store EXCEPT ![o] = Row(row.attempts, TRUE, row.install)]
           /\ Becomes(f, Fencing(flight[f].copy, flight[f].inst, flight[f].strangers \ {o}))
  /\ UNCHANGED <<local, known, session, started, due, flushing, owing, server, history>>

\* Nothing of this install: no push. Otherwise the first PUSH_CHUNK, in order.
Send(f) ==
  /\ flight[f].phase = "fencing"
  /\ flight[f].strangers = {}
  /\ IF Mine(f) = {}
       THEN Becomes(f, Idle) /\ UNCHANGED flushing
       ELSE LET batch == Foremost(Mine(f))
            IN  /\ Becomes(f, Sent(Copied(f, batch), batch, batch \ log[live], session))
                /\ flushing' = TRUE
  /\ UNCHANGED <<store, local, known, session, started, due, owing, server, history>>

\* The outlet goes through a push and refuses R of it. It may refuse only what
\* was not in its log when the push reached it; an overlapping push may have
\* put it there since.
Serves(reached, fresh, R) ==
  /\ R \subseteq fresh
  /\ \A o \in R : refusals[o] < MaxRefusals
  /\ log' = [log EXCEPT ![live] = @ \cup (reached \ R)]
  /\ refusals' = [o \in Op |-> IF o \in R THEN refusals[o] + 1 ELSE refusals[o]]

\* Mutant: every op of an answered push leaves the outbox, refused ones too.
ServeAcksAll(f) ==
  /\ flight[f].phase = "sent"
  /\ flight[f].token = live
  /\ \E R \in SUBSET Op :
       /\ Serves(flight[f].batch, flight[f].fresh, R)
       /\ Becomes(f, Answered(Copied(f, R), flight[f].batch, {}))
  /\ UNCHANGED <<store, local, known, session, started, due, flushing, owing, live, wire,
                 made, discarded, meant, faults>>

Serve(f) ==
  /\ flight[f].phase = "sent"
  /\ flight[f].token = live
  /\ \E R \in SUBSET Op :
       /\ Serves(flight[f].batch, flight[f].fresh, R)
       /\ Becomes(f, Answered(Copied(f, R), flight[f].batch \ R, R))
  /\ UNCHANGED <<store, local, known, session, started, due, flushing, owing, live, wire,
                 made, discarded, meant, faults>>

\* 401: not this install's token, none, or that of an ended session. signOut().
Unauthorised(f) ==
  /\ flight[f].phase = "sent"
  /\ flight[f].token # live \/ session = Ended
  /\ Lands(f)
  /\ session' = Nobody
  /\ UNCHANGED <<store, local, known, started, owing, server, history>>

\* No answer: everything stays queued. The push may have arrived, or may yet.
LoseAnswer(f) ==
  /\ flight[f].phase = "sent"
  /\ faults < MaxFaults
  /\ Lands(f)
  /\ wire' = wire \cup {Pushed(f)}
  /\ faults' = faults + 1
  /\ UNCHANGED <<store, local, known, session, started, owing, live, log,
                 made, discarded, meant, refusals>>

\* A push nobody waits for is applied, as far as the outlet got with it.
ServeLate ==
  /\ \E w \in wire, n \in 0..Cardinality(Op), R \in SUBSET Op :
       /\ w.token = live
       /\ Serves({o \in w.batch : Cardinality({p \in w.batch : Lamport[p] < Lamport[o]}) < n}, w.fresh, R)
       /\ wire' = wire \ {w}
  /\ UNCHANGED <<store, local, session, page, live, made, discarded, meant, faults>>

\* An acknowledged op leaves the outbox.
DeleteAcked(f) ==
  /\ flight[f].phase = "answered"
  /\ \E o \in flight[f].acks :
       /\ store' = [store EXCEPT ![o] = NoRow]
       /\ Becomes(f, Answered(flight[f].copy, flight[f].acks \ {o}, flight[f].errors))
  /\ UNCHANGED <<local, known, session, started, due, flushing, owing, server, history>>

\* A refusal is counted on the flight's own copy of the row, which is written
\* back whole; the last one allowed parks it.
PutRefused(f) ==
  /\ flight[f].phase = "answered"
  /\ flight[f].acks = {}
  /\ \E o \in flight[f].errors :
       LET tries == flight[f].copy[o].attempts + 1
       IN  /\ store' = [store EXCEPT ![o] = Row(tries, tries >= DEAD_TRIES, flight[f].copy[o].install)]
           /\ Becomes(f, Answered(flight[f].copy, {}, flight[f].errors \ {o}))
  /\ UNCHANGED <<local, known, session, started, due, flushing, owing, server, history>>

Finish(f) ==
  /\ flight[f].phase = "answered"
  /\ flight[f].acks = {} /\ flight[f].errors = {}
  /\ Lands(f)
  /\ UNCHANGED <<store, local, known, session, started, owing, server, history>>

Fly(f) == \/ Read(f) \/ ParkStranger(f) \/ Send(f) \/ Serve(f) \/ Unauthorised(f)
          \/ DeleteAcked(f) \/ PutRefused(f) \/ Finish(f)

Next ==
  \/ Queue \/ RetryOp \/ DiscardOp \/ RecordDiscard
  \/ SignIn \/ SessionEnds \/ Boot \/ Reread \/ Crash \/ WipeLocal \/ SwitchInstall
  \/ TurnedAway \/ ServeLate
  \/ \E f \in Flight : Start(f) \/ Fly(f) \/ LoseAnswer(f)

Spec == Init /\ [][Next]_vars

\* Somebody signs in; a page boots, and bootstraps again every five minutes; a
\* call of flush() that is due is made, and goes on. Nobody need press replay.
Fairness ==
  /\ WF_vars(SignIn) /\ WF_vars(Boot) /\ WF_vars(Reread)
  /\ WF_vars(\E f \in Flight : due /\ Start(f))
  /\ \A f \in Flight : WF_vars(Fly(f))

FairSpec == Spec /\ Fairness

-----------------------------------------------------------------------------
(* Properties.                                                             *)

Applied == UNION {log[i] : i \in Install}

\* Work is never lost: whatever was queued is still in the outbox, or an
\* outlet has it, or a person gave it up.
NothingLost == \A o \in made : store[o].here \/ o \in Applied \/ o \in discarded

\* "ANOTHER INSTALL'S OPS NEVER REPLAY HERE": an op reaches only the install
\* it was queued against, or the one a person adopted it into.
FenceHolds == \A i \in Install : \A o \in log[i] : i \in meant[o]

\* What keeps two databases apart when the outlet id changes hands by a full
\* log-out only: every name the terminal holds is that of the install there is,
\* and every row and every push is of an install its op was meant for.
Named == /\ known \in {Unnamed, local} /\ local \in {Unnamed, live}
         /\ session \in {Nobody, Ended, live}
RowsMeant == \A o \in Op : /\ store[o].here => store[o].install \in meant[o]
                           /\ o \notin made => meant[o] = {}
FlightMeant(w) ==
  /\ w.phase \in {"fencing", "sent", "answered"} =>
       \A o \in Op : w.copy[o].here => w.copy[o].install \in meant[o]
  /\ w.phase = "fencing" => /\ local # Unnamed /\ w.inst = live
                            /\ \A o \in w.strangers : w.copy[o].here
  /\ w.phase = "sent" => /\ w.fresh \subseteq w.batch
                         /\ \A o \in w.batch : w.copy[o].here
                         /\ \A o \in w.batch : w.token \in meant[o] \cup {Nobody, Ended}
  /\ w.phase = "answered" => \A o \in w.errors : w.copy[o].here
WireMeant == \A w \in wire : \A o \in w.batch : w.token \in meant[o] \cup {Nobody, Ended}
Apart == Named /\ RowsMeant /\ WireMeant /\ \A f \in Flight : FlightMeant(flight[f])

\* Of the ops tick() numbered, queued against one install and never set aside
\* as another's, a later one is applied ahead of an earlier only if the earlier
\* was refused.
NoOvertaking ==
  \A i \in Install : \A p \in log[i] \ Record, o \in made \ Record :
    meant[o] = {i} /\ meant[p] = {i} /\ Lamport[o] < Lamport[p] =>
      o \in log[i] \/ refusals[o] > 0

\* Once faults stop, everything queued is applied, parked for a person to
\* decide, or given up, with nobody pressing anything: no op waits for ever
\* behind others, or because no flush is due.
Settles == \A o \in Op : o \in made ~> (o \in Applied \/ store[o].parked \/ o \in discarded)

=============================================================================
