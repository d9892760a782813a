------------------------------ MODULE SyncPush ------------------------------
(***************************************************************************)
(* POST /sync/push (src/routes/sync.js): several deliveries being handled  *)
(* at once, each in transactions of at most Chunk ops, at the granularity  *)
(* of the statements that read or write what another delivery can see.     *)
(*                                                                         *)
(* Of PostgreSQL the model keeps what the handler leans on: READ COMMITTED *)
(* reads, a unique key whose uncommitted holder makes a second writer      *)
(* wait, deadlock detection, savepoints, and a deferred constraint that    *)
(* fires at COMMIT unless SET CONSTRAINTS IMMEDIATE has fired it earlier.  *)
(***************************************************************************)
EXTENDS Naturals, Sequences

CONSTANTS
  Op,         \* op ids
  Req,        \* deliveries the server can be handling at one time
  Lamport,    \* the number each op carries; ties are possible
  Posts,      \* ops whose handler writes a journal: header first, then lines
  Unbalanced, \* those among them whose journal does not balance when done
  Ready,      \* ops whose result carries an order-ready notice
  Chunk,      \* CHUNK: ops per transaction
  MaxPush     \* longest delivery, the 200-op cap

ASSUME LamportAssumption == Lamport \in [Op -> Nat]
ASSUME KindAssumption == Unbalanced \subseteq Posts /\ Posts \subseteq Op /\ Ready \subseteq Op
ASSUME ChunkAssumption == Chunk \in Nat \ {0} /\ MaxPush \in Nat

VARIABLES
  log,     \* op_log, committed: the ids in it
  books,   \* committed books: how many times each op's effects are in them
  acked,   \* ops some device has been answered about without an error
  noticed, \* order-ready notices sent for each op (0, 1, or 2 for "more")
  pc,      \* where each delivery's handler is
  batch,   \* the ops of the delivery, in the order the device sent them
  done,    \* positions of batch already dealt with
  chunk,   \* how many of them belong to the transaction now open
  inBatch, \* inThisBatch: ids met so far in this delivery
  txn,     \* the open transaction's own, uncommitted, changes
  sp,      \* the transaction as the savepoint saved it
  out,     \* answers of the open chunk
  results  \* answers of the chunks already committed

vars == <<log, books, acked, noticed, pc, batch, done, chunk, inBatch, txn, sp, out, results>>
shared == <<log, books, acked, noticed>>

Errors == {"refused", "unbalanced", "aborted"}
Verdicts == {"ok", "replay", "duplicate"} \cup Errors

Deliveries == UNION {[1..n -> Op] : n \in 0..MaxPush}

Transactions == [work : [Op -> Nat], log : SUBSET Op, pend : SUBSET Op, immediate : BOOLEAN]

\* A transaction that has written nothing, its checks deferred as declared.
NoWork == [work |-> [o \in Op |-> 0], log |-> {}, pend |-> {}, immediate |-> FALSE]

\* SET CONSTRAINTS; the work of one op; its row in op_log.
SetImmediate(t, m) == [work |-> t.work, log |-> t.log, pend |-> t.pend, immediate |-> m]
Worked(t, o) == [work |-> [t.work EXCEPT ![o] = @ + 1], log |-> t.log,
                 pend |-> t.pend \cup ({o} \cap Unbalanced), immediate |-> t.immediate]
Logged(t, o) == [work |-> t.work, log |-> t.log \cup {o}, pend |-> t.pend, immediate |-> t.immediate]

TypeOK ==
  /\ log \subseteq Op /\ acked \subseteq Op
  /\ books \in [Op -> Nat]
  /\ noticed \in [Op -> 0..2]
  /\ pc \in [Req -> {"idle", "next", "apply", "insert", "check", "answer"}]
  /\ batch \in [Req -> Seq(Op)]
  /\ done \in [Req -> SUBSET Nat]
  /\ chunk \in [Req -> Nat]
  /\ inBatch \in [Req -> SUBSET Op]
  /\ txn \in [Req -> Transactions]
  /\ sp \in [Req -> Transactions]
  /\ out \in [Req -> SUBSET (Op \X Verdicts)]
  /\ results \in [Req -> SUBSET (Op \X Verdicts)]

-----------------------------------------------------------------------------
(* The order the ops are taken in: lamport, then the device's own order.   *)

Before(b, i, j) == \/ Lamport[b[i]] < Lamport[b[j]]
                   \/ Lamport[b[i]] = Lamport[b[j]] /\ i < j

\* i is the position the handler is at: the least of those not dealt with.
IsNext(r, i) ==
  /\ i \in DOMAIN batch[r] \ done[r]
  /\ \A j \in DOMAIN batch[r] \ done[r] : j # i => Before(batch[r], i, j)

\* o is the op in hand.
InHand(r, o) == \E i \in DOMAIN batch[r] : IsNext(r, i) /\ batch[r][i] = o

\* Ops in an open transaction's op_log rows are locked against the others.
Blocks(s, r) == /\ s # r
                /\ pc[r] = "insert"
                /\ \E o \in txn[s].log : InHand(r, o)

\* r is one of a ring of deliveries each waiting for another of the ring.
Deadlocked(r) ==
  \E S \in SUBSET Req :
    /\ r \in S
    /\ \A s \in S : (\E t \in S : Blocks(t, s)) /\ (\E t \in S : Blocks(s, t))

\* The op in hand is answered, and the handler goes on to the next.
Answered(r, o, verdict) ==
  /\ out' = [out EXCEPT ![r] = @ \cup {<<o, verdict>>}]
  /\ done' = [done EXCEPT ![r] = @ \cup {i \in DOMAIN batch[r] : IsNext(r, i)}]
  /\ chunk' = [chunk EXCEPT ![r] = @ + 1]
  /\ pc' = [pc EXCEPT ![r] = "next"]

RollBackToSavepoint(r) == txn' = [txn EXCEPT ![r] = sp[r]]

Init ==
  /\ log = {} /\ books = [o \in Op |-> 0] /\ acked = {} /\ noticed = [o \in Op |-> 0]
  /\ pc = [r \in Req |-> "idle"]
  /\ batch = [r \in Req |-> <<>>]
  /\ done = [r \in Req |-> {}]
  /\ chunk = [r \in Req |-> 0]
  /\ inBatch = [r \in Req |-> {}]
  /\ txn = [r \in Req |-> NoWork]
  /\ sp = [r \in Req |-> NoWork]
  /\ out = [r \in Req |-> {}]
  /\ results = [r \in Req |-> {}]

-----------------------------------------------------------------------------
\* A device delivers any batch: new ops, old ones, the same one twice.
Arrive(r) ==
  /\ pc[r] = "idle"
  /\ \E b \in Deliveries : batch' = [batch EXCEPT ![r] = b]
  /\ pc' = [pc EXCEPT ![r] = "next"]
  /\ UNCHANGED <<shared, done, chunk, inBatch, txn, sp, out, results>>

\* The loop head. An op met before in this delivery is answered on the spot;
\* SELECT result FROM op_log shows what is committed now and what this very
\* transaction has written; unseen, it gets its SAVEPOINT, all checks deferred.
Look(r) ==
  /\ pc[r] = "next"
  /\ chunk[r] < Chunk
  /\ \E o \in Op :
       /\ InHand(r, o)
       /\ inBatch' = [inBatch EXCEPT ![r] = @ \cup {o}]
       /\ \/ o \in inBatch[r] /\ Answered(r, o, "duplicate") /\ UNCHANGED <<txn, sp>>
          \/ /\ o \in (log \cup txn[r].log) \ inBatch[r]
             /\ Answered(r, o, "replay")
             /\ UNCHANGED <<txn, sp>>
          \/ /\ o \notin log \cup txn[r].log \cup inBatch[r]
             /\ sp' = [sp EXCEPT ![r] = txn[r]]
             /\ txn' = [txn EXCEPT ![r] = SetImmediate(@, FALSE)]
             /\ pc' = [pc EXCEPT ![r] = "apply"]
             /\ UNCHANGED <<done, chunk, out>>
  /\ UNCHANGED <<shared, batch, results>>

\* applyOp ran to its end. With checks immediate, the header of a journal is
\* judged before its lines are written.
Apply(r) ==
  /\ pc[r] = "apply"
  /\ \E o \in Op :
       /\ InHand(r, o)
       /\ IF txn[r].immediate /\ o \in Posts
            THEN Answered(r, o, "unbalanced") /\ RollBackToSavepoint(r)
            ELSE /\ txn' = [txn EXCEPT ![r] = Worked(@, o)]
                 /\ pc' = [pc EXCEPT ![r] = "insert"]
                 /\ UNCHANGED <<done, chunk, out>>
  /\ UNCHANGED <<shared, batch, inBatch, sp, results>>

\* applyOp threw: a constraint, a guard of the handler, a row that is missing,
\* or its twin in another transaction holding a unique key of the domain.
Refuse(r) ==
  /\ pc[r] = "apply"
  /\ \E o \in Op : InHand(r, o) /\ Answered(r, o, "refused")
  /\ RollBackToSavepoint(r)
  /\ UNCHANGED <<shared, batch, inBatch, sp, results>>

\* Mutant: a conflict is answered as a replay without undoing the work.
InsertKeepsWork(r) ==
  /\ pc[r] = "insert"
  /\ \A s \in Req : ~Blocks(s, r)
  /\ \E o \in Op :
       /\ InHand(r, o)
       /\ IF o \in log
            THEN Answered(r, o, "replay") /\ UNCHANGED txn
            ELSE /\ txn' = [txn EXCEPT ![r] = Logged(@, o)]
                 /\ pc' = [pc EXCEPT ![r] = "check"]
                 /\ UNCHANGED <<done, chunk, out>>
  /\ UNCHANGED <<shared, batch, inBatch, sp, results>>

\* INSERT INTO op_log ... ON CONFLICT DO NOTHING, once nobody holds the key.
Insert(r) ==
  /\ pc[r] = "insert"
  /\ \A s \in Req : ~Blocks(s, r)
  /\ \E o \in Op :
       /\ InHand(r, o)
       /\ IF o \in log
            THEN Answered(r, o, "replay") /\ RollBackToSavepoint(r)
            ELSE /\ txn' = [txn EXCEPT ![r] = Logged(@, o)]
                 /\ pc' = [pc EXCEPT ![r] = "check"]
                 /\ UNCHANGED <<done, chunk, out>>
  /\ UNCHANGED <<shared, batch, inBatch, sp, results>>

\* The wait for the key ends in an error: a deadlock the database breaks, or
\* the statement timeout.
AbortWait(r) ==
  /\ \E s \in Req : Blocks(s, r)
  /\ \E o \in Op : InHand(r, o) /\ Answered(r, o, "aborted")
  /\ RollBackToSavepoint(r)
  /\ UNCHANGED <<shared, batch, inBatch, sp, results>>

\* Mutants: the forced check is left out; its failure is answered as a success;
\* the notice is sent from inside the transaction.
CheckLeftOut(r) ==
  /\ pc[r] = "check"
  /\ \E o \in Op : InHand(r, o) /\ Answered(r, o, "ok")
  /\ UNCHANGED <<shared, batch, inBatch, txn, sp, results>>

\* SET CONSTRAINTS ALL IMMEDIATE, then RELEASE SAVEPOINT.
Check(r) ==
  /\ pc[r] = "check"
  /\ \E o \in Op :
       /\ InHand(r, o)
       /\ IF txn[r].pend = {}
            THEN /\ Answered(r, o, "ok")
                 /\ txn' = [txn EXCEPT ![r] = SetImmediate(@, TRUE)]
            ELSE /\ Answered(r, o, "unbalanced")
                 /\ RollBackToSavepoint(r)
  /\ UNCHANGED <<shared, batch, inBatch, sp, results>>

-----------------------------------------------------------------------------

Cap(n) == IF n > 2 THEN 2 ELSE n

\* Answers that carry a result carry its notice with it, stored ones too.
Notices(part) == {o \in Ready : <<o, "ok">> \in part \/ <<o, "replay">> \in part}

\* The chunk is full or the delivery is finished.
AtCommitWhenFull(r) == pc[r] = "next" /\ chunk[r] = Chunk    \* mutant: the last, short chunk

AtCommit(r) == pc[r] = "next" /\ (chunk[r] = Chunk \/ DOMAIN batch[r] \subseteq done[r])

\* COMMIT. What is still deferred is checked here, and would lose the chunk.
Committed(r) ==
  /\ AtCommit(r)
  /\ txn[r].pend = {}
  /\ log' = log \cup txn[r].log
  /\ books' = [o \in Op |-> books[o] + txn[r].work[o]]
  /\ UNCHANGED acked

\* The chunk committed and said so: its notices go out, and the handler opens
\* the next chunk or answers.
Commit(r) ==
  /\ Committed(r)
  /\ noticed' = [o \in Op |-> Cap(noticed[o] + IF o \in Notices(out[r]) THEN 1 ELSE 0)]
  /\ results' = [results EXCEPT ![r] = @ \cup out[r]]
  /\ out' = [out EXCEPT ![r] = {}]
  /\ txn' = [txn EXCEPT ![r] = NoWork]
  /\ sp' = [sp EXCEPT ![r] = NoWork]
  /\ chunk' = [chunk EXCEPT ![r] = 0]
  /\ pc' = [pc EXCEPT ![r] = IF DOMAIN batch[r] \subseteq done[r] THEN "answer" ELSE "next"]
  /\ UNCHANGED <<batch, done, inBatch>>

\* The delivery's handler is gone, with everything it held in memory.
Forget(r) ==
  /\ pc' = [pc EXCEPT ![r] = "idle"]
  /\ batch' = [batch EXCEPT ![r] = <<>>]
  /\ done' = [done EXCEPT ![r] = {}]
  /\ chunk' = [chunk EXCEPT ![r] = 0]
  /\ inBatch' = [inBatch EXCEPT ![r] = {}]
  /\ txn' = [txn EXCEPT ![r] = NoWork]
  /\ sp' = [sp EXCEPT ![r] = NoWork]
  /\ out' = [out EXCEPT ![r] = {}]
  /\ results' = [results EXCEPT ![r] = {}]

\* The COMMIT took effect and the server never learned it: the connection or
\* the process died in between. Nobody is answered and nobody is noticed.
CommitUnheard(r) == Committed(r) /\ Forget(r) /\ UNCHANGED noticed

\* A statement, the connection or the process failed: ROLLBACK, and a 5xx for
\* the whole delivery, the chunks already committed with it.
Fail(r) == pc[r] # "idle" /\ Forget(r) /\ UNCHANGED shared

\* res.json: the device is told. An op with two answers counts as refused if
\* either of them is an error.
Answer(r) ==
  /\ pc[r] = "answer"
  /\ acked' = acked \cup {o \in Op : /\ \E v \in Verdicts : <<o, v>> \in results[r]
                                     /\ \A v \in Errors : <<o, v>> \notin results[r]}
  /\ Forget(r)
  /\ UNCHANGED <<log, books, noticed>>

Step(r) == Look(r) \/ Apply(r) \/ Refuse(r) \/ Insert(r)
           \/ Check(r) \/ Commit(r) \/ Answer(r)

Next == \E r \in Req : Arrive(r) \/ Step(r) \/ AbortWait(r) \/ CommitUnheard(r) \/ Fail(r)

Spec == Init /\ [][Next]_vars

\* A handler goes on, and its wait for a key ends: with the key, or, by the
\* statement timeout at the latest, with an error.
Fairness == \A r \in Req : WF_vars(Step(r) \/ AbortWait(r))

FairSpec == Spec /\ Fairness

-----------------------------------------------------------------------------
(* Properties.                                                             *)

\* The books hold each op's effects exactly as often as op_log says it was
\* applied: once or never, whatever is retried, duplicated or cut short.
ExactlyOnce == \A o \in Op : books[o] = IF o \in log THEN 1 ELSE 0

\* A device is told "applied" or "replay" only of an op whose effects are
\* committed, so the row it then deletes from its outbox is never the last copy.
AckedIsBooked == acked \subseteq log

\* One unbalanced journal never reaches the chunk's COMMIT, where it would
\* take 24 good ops down with it on every retry.
PoisonContained == \A r \in Req : AtCommit(r) => txn[r].pend = {}

\* With distinct lamports two deliveries never wait for each other: both take
\* their ops in the same order, the chunk boundary included.
NoDeadlock == \A r \in Req : ~Deadlocked(r)

\* The till's order is the order of work: an op is written only once every op
\* of its delivery with a smaller lamport has had its answer, so a line is
\* never tried before the ticket it belongs to.
TakenInOrder ==
  \A r \in Req : \A i, j \in DOMAIN batch[r] :
    batch[r][i] \in txn[r].log /\ Lamport[batch[r][j]] < Lamport[batch[r][i]] => j \in done[r]

\* Every delivery ends: the answer, or a failure the device retries after.
EveryDeliveryEnds == \A r \in Req : pc[r] # "idle" ~> pc[r] = "idle"

\* What an open delivery may hold, from which the promises above follow.
\* (a) An op_log row is written by one transaction and never twice.
KeysHeldOnce(r) ==
  /\ txn[r].log \cap log = {}
  /\ sp[r].log \subseteq txn[r].log
  /\ \A s \in Req \ {r} : txn[r].log \cap txn[s].log = {}

\* (b) A transaction's effects are those of the op_log rows it wrote, except
\* between an op's work and its row, where the savepoint still has them apart.
Tally(t) == \A o \in Op : t.work[o] = IF o \in t.log THEN 1 ELSE 0

WorkIsLogged(r) ==
  /\ Tally(sp[r])
  /\ pc[r] # "insert" => Tally(txn[r])
  /\ pc[r] \in {"apply", "insert"} =>
       /\ txn[r].log = sp[r].log
       /\ \A o \in Op : InHand(r, o) => o \notin txn[r].log
  /\ pc[r] = "insert" =>
       \A o \in Op : InHand(r, o) => txn[r].work = [sp[r].work EXCEPT ![o] = @ + 1]
  /\ pc[r] = "check" => \A o \in Op : InHand(r, o) => o \in txn[r].log

\* (c) An answer without an error has its row behind it: committed, or in the
\* open transaction where no rollback to the savepoint can reach it.
Busy == {"apply", "insert", "check"}
Says(part, o, V) == \E v \in V : <<o, v>> \in part

AnswersHold(r) ==
  \A o \in Op :
    /\ Says(results[r], o, {"ok", "replay"}) => o \in log
    /\ Says(out[r], o, {"ok", "replay"}) =>
         o \in log \cup (IF pc[r] \in Busy THEN sp[r].log ELSE txn[r].log)
    /\ Says(results[r] \cup out[r], o, {"duplicate"}) => o \in inBatch[r]
    /\ o \in inBatch[r] => \/ pc[r] \in Busy /\ InHand(r, o)
                           \/ Says(results[r] \cup out[r], o, Verdicts \ {"duplicate"})
    /\ pc[r] = "answer" => out[r] = {}

OpenWork == \A r \in Req : KeysHeldOnce(r) /\ WorkIsLogged(r) /\ AnswersHold(r)

\* The handler implements the promise of OpLog: what is committed is the promise's log and
\* books, and what devices were answered is what it has acknowledged.
Promise == INSTANCE OpLog WITH Op <- Op, log <- log, books <- books, acked <- acked
PromiseKept == Promise!Spec
=============================================================================
