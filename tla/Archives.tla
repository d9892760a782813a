------------------------------ MODULE Archives ------------------------------
(***************************************************************************)
(* The archive shelf (src/backup.js): a run backs up every live business's *)
(* database in turn and prunes what is past its retention; by hand an      *)
(* archive is restored into a database beside the live one or over it, and *)
(* a business is pointed at the database that was restored.  A run is part *)
(* of the server or of a command of its own; either may stop at any step.  *)
(***************************************************************************)
EXTENDS Businesses

CONSTANT MaxRows    \* rows of chain.backup

VARIABLES
  shelf,      \* chain.backup, in the order begun: [db, st, file, kept, ver, shops]
  run,        \* backupAll: [on, todo, row, at]
  sweep,      \* prune: [on, old, spared, row]
  rest,       \* restore: [on, row, into]
  swap,       \* adopt: [on, b, was, db]
  named,      \* databases chain.audit names as what a business was moved from
  moved       \* databases a business was moved from, and what one registered over them took

arcVars == <<shelf, run, sweep, rest, swap, named, moved>>

NoRun == [on |-> FALSE, todo |-> {}, row |-> 0, at |-> ""]
NoSweep == [on |-> FALSE, old |-> {}, spared |-> {}, row |-> 0]
NoRest == [on |-> FALSE, row |-> 0, into |-> 0]
NoSwap == [on |-> FALSE, b |-> 0, was |-> 0, db |-> 0]

ArcInit ==
  /\ shelf = <<>> /\ run = NoRun /\ sweep = NoSweep /\ rest = NoRest /\ swap = NoSwap
  /\ named = {} /\ moved = {}

Rows == 1..Len(shelf)

-----------------------------------------------------------------------------
(* backupOne: the row is on the shelf before the dump, and says how it ended. *)

StartBackup ==
  /\ ~run.on /\ Begin
  /\ run' = [NoRun EXCEPT !.on = TRUE, !.at = "next",
                          !.todo = {biz[b].db : b \in {x \in Ids : biz[x].st = "live"}}]
  /\ UNCHANGED <<bizVars, shelf, sweep, rest, swap, named, moved>>

BeginRow ==
  /\ run.on /\ run.at = "next" /\ run.todo # {} /\ Len(shelf) < MaxRows
  /\ \E d \in run.todo :
       /\ shelf' = Append(shelf, [db |-> d, st |-> "begun", file |-> FALSE, kept |-> TRUE,
                                  ver |-> 0, shops |-> Unmade.shops])
       /\ run' = [run EXCEPT !.todo = @ \ {d}, !.row = Len(shelf) + 1, !.at = "dump"]
  /\ UNCHANGED <<bizVars, sweep, rest, swap, named, moved, ops>>

Dump ==
  /\ run.on /\ run.at = "dump"
  /\ LET d == shelf[run.row].db IN
       shelf' = [shelf EXCEPT ![run.row] = [@ EXCEPT !.shops = base[d].shops, !.ver = base[d].ver,
                                                     !.file = TRUE]]
  /\ run' = [run EXCEPT !.at = "mark"]
  /\ UNCHANGED <<bizVars, sweep, rest, swap, named, moved, ops>>

MarkGood ==
  /\ run.on /\ run.at = "mark"
  /\ shelf' = [shelf EXCEPT ![run.row].st = "good"]
  /\ run' = [run EXCEPT !.at = "next"]
  /\ UNCHANGED <<bizVars, sweep, rest, swap, named, moved, ops>>

\* The dump or its store failed: the run says so and goes on with the next database.
MarkBad ==
  /\ run.on /\ run.at = "dump" /\ Begin
  /\ shelf' = [shelf EXCEPT ![run.row].st = "bad"]
  /\ run' = [run EXCEPT !.at = "next"]
  /\ UNCHANGED <<bizVars, sweep, rest, swap, named, moved>>

EndBackup ==
  /\ run.on /\ run.at = "next" /\ run.todo = {} /\ run' = NoRun
  /\ UNCHANGED <<bizVars, shelf, sweep, rest, swap, named, moved, ops>>

-----------------------------------------------------------------------------
(* prune: what is past retention is listed, then what is spared, then one at a time the  *)
(* file goes and the row follows it.  A backup under way is not past any retention.       *)

Ended(r) == ~(run.on /\ run.row = r /\ run.at \in {"dump", "mark"})

StartPrune ==
  /\ ~sweep.on /\ Begin
  /\ \E k \in Rows :
       /\ \A r \in 1..k : Ended(r)
       /\ sweep' = [NoSweep EXCEPT !.on = TRUE, !.old = {r \in 1..k : shelf[r].kept}, !.row = -1]
  /\ UNCHANGED <<bizVars, shelf, run, rest, swap, named, moved>>

GoodOf(d) == {r \in Rows : shelf[r].kept /\ shelf[r].st = "good" /\ shelf[r].db = d}

\* Mutant: the newest row of each database is spared, however it ended.
NewestOfAny ==
  {Max({r \in Rows : shelf[r].kept /\ shelf[r].db = d}) :
     d \in {x \in Databases : \E r \in Rows : shelf[r].kept /\ shelf[r].db = x}}

\* The newest good archive of each database is never removed, however old.
Spared == {Max(GoodOf(d)) : d \in {x \in Databases : GoodOf(x) # {}}}

Spare ==
  /\ sweep.on /\ sweep.row = -1
  /\ sweep' = [sweep EXCEPT !.spared = Spared, !.row = 0]
  /\ UNCHANGED <<bizVars, shelf, run, rest, swap, named, moved, ops>>

Unlink ==
  /\ sweep.on /\ sweep.row = 0 /\ sweep.old \ sweep.spared # {}
  /\ LET r == Max(sweep.old \ sweep.spared) IN
       /\ shelf' = [shelf EXCEPT ![r].file = FALSE]
       /\ sweep' = [sweep EXCEPT !.old = @ \ {r}, !.row = r]
  /\ UNCHANGED <<bizVars, run, rest, swap, named, moved, ops>>

DeleteRow ==
  /\ sweep.on /\ sweep.row > 0
  /\ shelf' = [shelf EXCEPT ![sweep.row].kept = FALSE]
  /\ sweep' = [sweep EXCEPT !.row = 0]
  /\ UNCHANGED <<bizVars, run, rest, swap, named, moved, ops>>

EndPrune ==
  /\ sweep.on /\ sweep.row = 0 /\ sweep.old \subseteq sweep.spared /\ sweep' = NoSweep
  /\ UNCHANGED <<bizVars, shelf, run, rest, swap, named, moved, ops>>

-----------------------------------------------------------------------------
(* restore: the newest good archive of a database, or one named by its id, into a database *)
(* that does not exist yet, or over one that does when that was asked for.                *)

StartRestore ==
  /\ ~rest.on /\ Begin
  /\ \E r \in Rows, d \in Databases :
       /\ shelf[r].kept /\ shelf[r].st = "good" /\ shelf[r].file
       /\ d \in Copies \/ (d = shelf[r].db /\ base[d].made)          \* beside it, or --over
       /\ d \in Copies => ~base[d].made
       /\ rest' = [on |-> TRUE, row |-> r, into |-> d]
       /\ base' = [base EXCEPT ![d].made = TRUE]
  /\ UNCHANGED <<biz, dir, seq, handle, former, job, lock, srv, routes, look, shelf, run, sweep,
                 swap, named, moved>>

\* pg_restore, then every outlet of the copy gets its role again: under the role lock, or
\* without it where it cannot be had, once nobody else holds the role.
Restored ==
  /\ rest.on /\ ((LockFree /\ UNCHANGED ops) \/ Begin)
  /\ \A v \in Workers : RoleHeld(v) => shelf[rest.row].shops[job[v].o] = NoName
  /\ base' = [base EXCEPT ![rest.into].ver = shelf[rest.row].ver,
                          ![rest.into].shops = shelf[rest.row].shops]
  /\ rest' = NoRest
  /\ UNCHANGED <<biz, dir, seq, handle, former, job, lock, srv, routes, look, shelf, run, sweep,
                 swap, named, moved>>

\* The database a restored one is an archive of.
Origin(d) == {shelf[r].db : r \in {x \in Rows : shelf[x].st = "good" /\ shelf[x].shops = base[d].shops}}

\* adopt: the business is pointed at a database that was restored of its own ...
StartAdopt ==
  /\ ~swap.on /\ ~rest.on /\ Begin
  /\ \E b \in Ids, d \in Copies :
       /\ biz[b].st = "live" /\ base[d].made /\ base[d].ver # 0 /\ biz[b].db \in Origin(d)
       /\ \A c \in Ids : biz[c].db # d
       /\ biz' = [biz EXCEPT ![b].db = d, ![b].ver = base[d].ver]
       /\ swap' = [on |-> TRUE, b |-> b, was |-> biz[b].db, db |-> d]
       /\ moved' = moved \cup {biz[b].db} \cup (IF biz[b].db \in moved THEN {d} ELSE {})
  /\ UNCHANGED <<base, dir, seq, handle, former, job, lock, srv, routes, look, shelf, run, sweep,
                 rest, named>>

\* ... and the audit trail names the one it was moved from.  The caches that are cleared are
\* the command's own: the server keeps the route it has.
EndAdopt ==
  /\ swap.on
  /\ named' = named \cup {swap.was} /\ swap' = NoSwap
  /\ UNCHANGED <<bizVars, shelf, run, sweep, rest, moved, ops>>

\* A command, or the server's own schedule, stops where it is.
Stop ==
  /\ Begin
  /\ \/ run.on /\ run' = NoRun /\ UNCHANGED <<sweep, rest, swap>>
     \/ sweep.on /\ sweep' = NoSweep /\ UNCHANGED <<run, rest, swap>>
     \/ swap.on /\ swap' = NoSwap /\ UNCHANGED <<run, sweep, rest>>
     \/ rest.on /\ rest' = NoRest /\ UNCHANGED <<run, sweep, swap>>
  /\ UNCHANGED <<bizVars, shelf, named, moved>>

\* The server stops with whatever it was doing, and starts again.
ServerStops ==
  /\ Begin /\ Restart(srv.head)
  /\ run' = NoRun /\ sweep' = NoSweep
  /\ UNCHANGED <<shelf, rest, swap, named, moved>>

ArcNext ==
  \/ StartBackup \/ BeginRow \/ Dump \/ MarkGood \/ MarkBad \/ EndBackup
  \/ StartPrune \/ Spare \/ Unlink \/ DeleteRow \/ EndPrune
  \/ StartRestore \/ Restored \/ StartAdopt \/ EndAdopt \/ Stop \/ ServerStops
=============================================================================
