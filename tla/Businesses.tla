----------------------------- MODULE Businesses -----------------------------
(***************************************************************************)
(* Many businesses on one cluster (src/business.js, src/provision.js,      *)
(* src/scripts/migrate.js, src/db.js): a database each, a registry beside  *)
(* them that names every database, says which business an outlet belongs   *)
(* to and holds the store addresses, and one server that routes by it.     *)
(* A business is built in steps, an outlet is provisioned in steps under a *)
(* cluster-wide lock, and a deploy restarts the server, which moves every  *)
(* database to the new head before it listens.                             *)
(***************************************************************************)
EXTENDS Integers, Sequences, FiniteSets, FiniteSetsExt

CONSTANTS
  Ids,        \* business ids; business b's own database is named b
  Copies,     \* names a restored archive can be given
  Outlets,    \* outlet ids, 1..n: the registry's sequence
  Asked,      \* the outlets whose requests are followed
  Names,      \* store addresses
  Workers,    \* requests that build or provision at the same time
  MaxHead,    \* the build's migrations, at most
  MaxOps      \* bound on operations begun, of every kind

Pending == 0
NoName == "no name"
Databases == Ids \cup Copies

ASSUME RegistryAssumption ==
  /\ Ids \subseteq Nat \ {0} /\ 1 \in Ids /\ Copies \cap (Ids \cup {Pending}) = {}
  /\ Outlets \subseteq Nat \ {0} /\ 1 \in Outlets /\ 0 \notin Workers
  /\ Names # {} /\ NoName \notin Names /\ MaxHead \in Nat

VARIABLES
  biz,        \* chain.business: [st, db, ver]
  base,       \* the cluster's databases: [made, ver, shops]
  dir,        \* chain.outlet_directory: outlet -> business, 0 if unknown
  seq,        \* chain.outlet_id_seq
  handle,     \* chain.handle: name -> outlet, 0 if free
  former,     \* chain.handle_history: name -> outlet, 0 if none
  job,        \* what each worker is in the middle of
  lock,       \* the role lock: [by: its holder, 0 if free; bare: who went on without it;
              \* loose: outlets whose id was allocated while somebody was registering it, and
              \* one of the two had no lock]
  srv,        \* the server: [head, up, fleet, dark: the registry cannot be read]
  routes,     \* the server's routing cache: outlet -> a set of at most one route
  look,       \* routing queries under way: outlet -> a set of at most one answer
  ops         \* operations begun

bizVars == <<biz, base, dir, seq, handle, former, job, lock, srv, routes, look>>

Idle == [op |-> "none", at |-> "", b |-> 0, db |-> 0, o |-> 0, n |-> NoName]
Unmade == [made |-> FALSE, ver |-> 0, shops |-> [o \in Outlets |-> NoName]]
Unknown == [st |-> "none", db |-> Pending, ver |-> 0]

(* The install as it stands: one live business whose first outlet trades. *)
BizInit ==
  /\ biz = [b \in Ids |-> IF b = 1 THEN [st |-> "live", db |-> 1, ver |-> 1] ELSE Unknown]
  /\ LET n == CHOOSE x \in Names : TRUE IN
       /\ base = [d \in Databases |->
                    IF d = 1 THEN [made |-> TRUE, ver |-> 1,
                                   shops |-> [Unmade.shops EXCEPT ![1] = n]]
                    ELSE Unmade]
       /\ handle = [m \in Names |-> IF m = n THEN 1 ELSE 0]
  /\ dir = [o \in Outlets |-> IF o = 1 THEN 1 ELSE 0]
  /\ seq = 1
  /\ former = [m \in Names |-> 0]
  /\ job = [w \in Workers |-> Idle] /\ lock = [by |-> 0, bare |-> {}, loose |-> {}]
  /\ srv = [head |-> 1, up |-> TRUE, fleet |-> {}, dark |-> FALSE]
  /\ routes = [o \in Outlets |-> {}] /\ look = [o \in Outlets |-> {}]

Begin == ops < MaxOps /\ ops' = ops + 1
Shops(d) == {o \in Outlets : base[d].shops[o] # NoName}
Go(w, at) == [job EXCEPT ![w].at = at]
Done(w) == [job EXCEPT ![w] = Idle]
Free == {b \in Ids : biz[b].st = "none"}

-----------------------------------------------------------------------------
(* createBusiness.  The row is written first, under a name that only one row may have. *)

Register(w) ==
  /\ srv.up /\ job[w] = Idle /\ Free # {} /\ Begin
  /\ \A b \in Ids : biz[b].st = "none" \/ biz[b].db # Pending
  /\ LET b == Min(Free) IN
       /\ biz' = [biz EXCEPT ![b] = [st |-> "building", db |-> Pending, ver |-> 0]]
       /\ job' = [job EXCEPT ![w] = [Idle EXCEPT !.op = "build", !.at = "name", !.b = b]]
  /\ UNCHANGED <<base, dir, seq, handle, former, lock, srv, routes, look>>

\* Mutant: the row learns the database's name when the business goes live.
NamedLate(b) == biz[b].db
\* UPDATE chain.business SET db_name, before there is such a database.
NamedFirst(b) == b

NameDatabase(w) ==
  /\ job[w].op = "build" /\ job[w].at = "name"
  /\ biz' = [biz EXCEPT ![job[w].b].db = NamedFirst(job[w].b)]
  /\ job' = Go(w, "create")
  /\ UNCHANGED <<base, dir, seq, handle, former, lock, srv, routes, look, ops>>

CreateDatabase(w) ==
  /\ job[w].op = "build" /\ job[w].at = "create"
  /\ base' = [base EXCEPT ![job[w].b].made = TRUE]
  /\ job' = Go(w, "migrate")
  /\ UNCHANGED <<biz, dir, seq, handle, former, lock, srv, routes, look, ops>>

MigrateNew(w) ==
  /\ job[w].op = "build" /\ job[w].at = "migrate"
  /\ base' = [base EXCEPT ![job[w].b].ver = srv.head]
  /\ job' = Go(w, "live")
  /\ UNCHANGED <<biz, dir, seq, handle, former, lock, srv, routes, look, ops>>

GoLive(w) ==
  /\ job[w].op = "build" /\ job[w].at = "live"
  /\ biz' = [biz EXCEPT ![job[w].b] = [st |-> "live", db |-> job[w].b,
                                       ver |-> base[job[w].b].ver]]
  /\ job' = Done(w)
  /\ UNCHANGED <<base, dir, seq, handle, former, lock, srv, routes, look, ops>>

\* A step failed: the row says so and keeps the name.
BuildFails(w) ==
  /\ job[w].op = "build" /\ job[w].at \in {"create", "migrate", "live"} /\ Begin
  /\ biz' = [biz EXCEPT ![job[w].b].st = "failed"]
  /\ job' = Done(w)
  /\ UNCHANGED <<base, dir, seq, handle, former, lock, srv, routes, look>>

Build(w) == Register(w) \/ NameDatabase(w) \/ CreateDatabase(w) \/ MigrateNew(w) \/ GoLive(w)
              \/ BuildFails(w)

-----------------------------------------------------------------------------
(* provisionOutlet: an outlet's schema, role, directory entry and address.  The business *)
(* database's part is one transaction; every write to the registry stands on its own.    *)

Provision(w) ==
  /\ srv.up /\ job[w] = Idle /\ Begin
  /\ \E b \in Ids, o \in Outlets \cup {0} :         \* 0: the id is allocated
       /\ biz[b].st = "live"
       /\ job' = [job EXCEPT ![w] = [Idle EXCEPT !.op = "outlet", !.at = "lock",
                                     !.db = biz[b].db, !.o = o]]
  /\ UNCHANGED <<biz, base, dir, seq, handle, former, lock, srv, routes, look>>

\* Mutant: nobody waits for the role lock.
FreeAnyway == TRUE
LockFree == lock.by = 0

\* withRoleLock: held until the transaction has ended.
TakeLock(w) ==
  /\ job[w].op = "outlet" /\ job[w].at = "lock" /\ LockFree
  /\ lock' = [by |-> w, bare |-> lock.bare, loose |-> lock.loose] /\ job' = Go(w, "id")
  /\ UNCHANGED <<biz, base, dir, seq, handle, former, srv, routes, look, ops>>

\* The maintenance database cannot be reached: the transaction goes on without the lock.
SkipLock(w) ==
  /\ job[w].op = "outlet" /\ job[w].at = "lock" /\ Begin
  /\ lock' = [by |-> lock.by, bare |-> lock.bare \cup {w}, loose |-> lock.loose]
  /\ job' = Go(w, "id")
  /\ UNCHANGED <<biz, base, dir, seq, handle, former, srv, routes, look>>

\* The lock's connection dies, and the transaction is not told.
LoseLock(w) ==
  /\ lock.by = w /\ Begin
  /\ lock' = [by |-> 0, bare |-> lock.bare \cup {w}, loose |-> lock.loose]
  /\ UNCHANGED <<biz, base, dir, seq, handle, former, job, srv, routes, look>>

Release(w) ==
  [by |-> IF lock.by = w THEN 0 ELSE lock.by, bare |-> lock.bare \ {w}, loose |-> lock.loose]

\* Rolled back: the registry keeps what it was told.
Rollback(w) ==
  /\ job' = Done(w) /\ lock' = Release(w)
  /\ UNCHANGED <<biz, base, dir, seq, handle, former, srv, routes, look, ops>>

\* businessForDb: a database the registry has never heard of is registered as a business.
OwnersOf(d) == {b \in Ids : biz[b].st # "none" /\ biz[b].db = d}
BusinessForDb(w) ==
  LET d == job[w].db IN
  IF OwnersOf(d) # {}
  THEN job' = [Go(w, "shell") EXCEPT ![w].b = Min(OwnersOf(d))] /\ UNCHANGED biz
  ELSE /\ Free # {}
       /\ job' = [Go(w, "shell") EXCEPT ![w].b = Min(Free)]
       /\ biz' = [biz EXCEPT ![Min(Free)] = [st |-> "live", db |-> d, ver |-> base[d].ver]]

WhoseDb(w) ==
  /\ job[w].op = "outlet" /\ job[w].at = "id" /\ BusinessForDb(w)
  /\ UNCHANGED <<base, dir, seq, handle, former, lock, srv, routes, look, ops>>

\* Somebody has been told that nobody has the outlet, and is about to register it.
Registering(v, o) == job[v].op = "outlet" /\ job[v].at = "upsert" /\ job[v].o = o

\* The id is allocated meanwhile, and one of the two has no lock.
Unseen(w, o) ==
  IF \E v \in Workers \ {w} : Registering(v, o) /\ (v \in lock.bare \/ w \in lock.bare)
  THEN {o} ELSE {}

\* nextOutletId when no id was given.
TakeId(w) ==
  /\ job[w].op = "outlet" /\ job[w].at = "shell"
  /\ IF job[w].o # 0 THEN job' = Go(w, "held") /\ UNCHANGED <<dir, seq, lock>>
     ELSE LET o == seq + 1 IN
       /\ o \in Outlets /\ seq' = o
       /\ IF dir[o] = 0
          THEN /\ dir' = [dir EXCEPT ![o] = job[w].b]
               /\ job' = [Go(w, "held") EXCEPT ![w].o = o]
               /\ lock' = [by |-> lock.by, bare |-> lock.bare,
                           loose |-> lock.loose \cup Unseen(w, o)]
          ELSE job' = Done(w) /\ lock' = Release(w) /\ UNCHANGED dir
  /\ UNCHANGED <<biz, base, handle, former, srv, routes, look, ops>>

\* An outlet's role is the cluster's: its catalog row is held from CREATE or ALTER ROLE to the
\* end of the transaction, whichever databases two transactions are in.
RoleHeld(v) == job[v].op = "outlet" /\ job[v].at \in {"upsert", "pass", "choose", "claim", "commit"}
RoleFree(w) == \A v \in Workers \ {w} : RoleHeld(v) => job[v].o # job[w].o

\* chain.provision_outlet, which waits for the role or dies of it (ProvisionFails), and
\* registerOutlet: another business's outlet is refused.
Held(w) ==
  /\ job[w].op = "outlet" /\ job[w].at = "held" /\ RoleFree(w)
  /\ IF dir[job[w].o] \in {0, job[w].b}
     THEN job' = Go(w, "upsert") /\ UNCHANGED <<biz, base, dir, seq, handle, former, lock, srv,
                                                routes, look, ops>>
     ELSE Rollback(w)

\* The upsert touches no row of another business ...
Upsert(w) ==
  /\ job[w].op = "outlet" /\ job[w].at = "upsert"
  /\ dir' = [dir EXCEPT ![job[w].o] = IF @ = 0 THEN job[w].b ELSE @]
  /\ job' = Go(w, "pass")
  /\ UNCHANGED <<biz, base, seq, handle, former, lock, srv, routes, look, ops>>

\* ... and the sequence is moved past the id.
Pass(w) ==
  /\ job[w].op = "outlet" /\ job[w].at = "pass"
  /\ seq' = Max({seq + 1, job[w].o})
  /\ job' = Go(w, "choose")
  /\ UNCHANGED <<biz, base, dir, handle, former, lock, srv, routes, look, ops>>

\* handle_why: no other store has the name, and none gave it up.
Usable(n, o) == handle[n] \in {0, o} /\ former[n] \in {0, o}

\* claimHandle: the name that was asked for, or the first that is free.
Choose(w) ==
  /\ job[w].op = "outlet" /\ job[w].at = "choose"
  /\ \/ \E n \in Names : /\ Usable(n, job[w].o)
                         /\ job' = [Go(w, "claim") EXCEPT ![w].n = n]
                         /\ UNCHANGED <<biz, base, dir, seq, handle, former, lock, srv, routes,
                                        look, ops>>
     \/ (\E n \in Names : ~Usable(n, job[w].o)) /\ Rollback(w)

\* claim_handle: looked at again, and claimed in the registry.
ClaimHandle(o, n) ==
  /\ handle' = [m \in Names |-> IF m = n THEN o ELSE IF handle[m] = o THEN 0 ELSE handle[m]]
  /\ former' = [former EXCEPT ![n] = 0]

Claim(w) ==
  /\ job[w].op = "outlet" /\ job[w].at = "claim"
  /\ IF Usable(job[w].n, job[w].o)
     THEN /\ ClaimHandle(job[w].o, job[w].n) /\ job' = Go(w, "commit")
          /\ UNCHANGED <<biz, base, dir, seq, lock, srv, routes, look, ops>>
     ELSE Rollback(w)

\* COMMIT, and the outlet's pools and route are forgotten.
Commit(w) ==
  /\ job[w].op = "outlet" /\ job[w].at = "commit"
  /\ base' = [base EXCEPT ![job[w].db].shops[job[w].o] = job[w].n]
  /\ routes' = [routes EXCEPT ![job[w].o] = {}]
  /\ job' = Done(w) /\ lock' = Release(w)
  /\ UNCHANGED <<biz, dir, seq, handle, former, srv, look, ops>>

\* A statement fails; what the registry was told stays.
ProvisionFails(w) ==
  /\ job[w].op = "outlet" /\ job[w].at \in {"shell", "held", "upsert", "pass", "claim", "commit"}
  /\ ops < MaxOps /\ ops' = ops + 1 /\ job' = Done(w) /\ lock' = Release(w)
  /\ UNCHANGED <<biz, base, dir, seq, handle, former, srv, routes, look>>

ProvisionOutlet(w) ==
  \/ Provision(w) \/ TakeLock(w) \/ SkipLock(w) \/ LoseLock(w) \/ WhoseDb(w) \/ TakeId(w)
  \/ Held(w) \/ Upsert(w) \/ Pass(w) \/ Choose(w) \/ Claim(w) \/ Commit(w) \/ ProvisionFails(w)

\* PATCH /handle: rename_handle keeps the name given up; the database's copy follows.
Rename ==
  /\ srv.up /\ Begin
  /\ \E o \in Outlets, was, n \in Names :
       /\ handle[was] = o /\ n # was /\ Usable(n, o) /\ dir[o] # 0
       /\ handle' = [handle EXCEPT ![was] = 0, ![n] = o]
       /\ former' = [former EXCEPT ![n] = 0, ![was] = o]
       /\ base' = [base EXCEPT ![biz[dir[o]].db].shops[o] = n]
       /\ base[biz[dir[o]].db].shops[o] # NoName
  /\ UNCHANGED <<biz, dir, seq, job, lock, srv, routes, look>>

-----------------------------------------------------------------------------
(* The server's routes. *)

RowOf(o) ==
  IF dir[o] = 0 THEN {}
  ELSE {[b |-> dir[o], db |-> biz[dir[o]].db, st |-> biz[dir[o]].st, ver |-> biz[dir[o]].ver,
         fresh |-> TRUE]}

\* Mutant: a route that was found once is good for ever.
EverGood(r) == TRUE
\* Thirty seconds.
Fresh(r) == r.fresh

Missing(o) == \A r \in routes[o] : ~Fresh(r)

\* routeFor: a request of an outlet whose route is missing or old asks the registry ...
AskRoute(o) ==
  /\ srv.up /\ ~srv.dark /\ Missing(o) /\ look[o] = {}
  /\ look' = [look EXCEPT ![o] = {RowOf(o)}]
  /\ UNCHANGED <<biz, base, dir, seq, handle, former, job, lock, srv, routes, ops>>

\* ... and keeps the answer, whatever was forgotten meanwhile.
KeepRoute(o) ==
  /\ look[o] # {}
  /\ routes' = [routes EXCEPT ![o] = UNION look[o]]
  /\ look' = [look EXCEPT ![o] = {}]
  /\ UNCHANGED <<biz, base, dir, seq, handle, former, job, lock, srv, ops>>

Expire(o) ==
  /\ \E r \in routes[o] : r.fresh
  /\ routes' = [routes EXCEPT ![o] = {[r EXCEPT !.fresh = FALSE] : r \in @}]
  /\ UNCHANGED <<biz, base, dir, seq, handle, former, job, lock, srv, look, ops>>

\* The registry cannot be read, from one query to the next: some under way are lost with it.
RegistryGoes ==
  /\ ~srv.dark /\ Begin /\ srv' = [srv EXCEPT !.dark = TRUE]
  /\ \E lost \in SUBSET Asked : look' = [o \in Outlets |-> IF o \in lost THEN {} ELSE look[o]]
  /\ UNCHANGED <<biz, base, dir, seq, handle, former, job, lock, routes>>

RegistryBack ==
  /\ srv.dark /\ srv' = [srv EXCEPT !.dark = FALSE]
  /\ UNCHANGED <<biz, base, dir, seq, handle, former, job, lock, routes, look, ops>>

\* requireAtHead: a request that finds a route goes to its database, if it is live and at
\* head; one that has grown old will do while the registry cannot be asked.
Serves(o, d) ==
  \E r \in routes[o] : (Fresh(r) \/ srv.dark) /\ r.db = d /\ r.st = "live" /\ r.ver >= srv.head

-----------------------------------------------------------------------------
(* A restart: every request under way is gone, the caches are empty, and boot moves the  *)
(* fleet to head, business by business, before it listens.                               *)

Restart(head) ==
  /\ job' = [w \in Workers |-> Idle] /\ lock' = [by |-> 0, bare |-> {}, loose |-> lock.loose]
  /\ routes' = [o \in Outlets |-> {}] /\ look' = [o \in Outlets |-> {}]
  /\ srv' = [head |-> head, up |-> FALSE, dark |-> srv.dark,
             fleet |-> {[b |-> b, db |-> biz[b].db, at |-> "todo"] :
                          b \in {x \in Ids : biz[x].st \in {"live", "building"}}}]
  /\ UNCHANGED <<biz, base, dir, seq, handle, former>>

Deploy == srv.up /\ srv.head < MaxHead /\ Begin /\ Restart(srv.head + 1)

\* fleet: one database is migrated, then its row is stamped by the business's id.
FleetMoves ==
  /\ \E f \in srv.fleet :
       /\ f.at = "todo"
       /\ srv' = [srv EXCEPT !.fleet = (@ \ {f}) \cup
                    IF f.db # Pending /\ base[f.db].made THEN {[f EXCEPT !.at = "stamp"]} ELSE {}]
       /\ base' = IF f.db # Pending /\ base[f.db].made
                  THEN [base EXCEPT ![f.db].ver = srv.head] ELSE base
  /\ UNCHANGED <<biz, dir, seq, handle, former, job, lock, routes, look, ops>>

FleetStamps ==
  /\ \E f \in srv.fleet :
       /\ f.at = "stamp"
       /\ srv' = [srv EXCEPT !.fleet = @ \ {f}]
       /\ biz' = [biz EXCEPT ![f.b].ver = base[f.db].ver]
  /\ UNCHANGED <<base, dir, seq, handle, former, job, lock, routes, look, ops>>

\* One that will not migrate stays where it is, and so does its row.
FleetFails ==
  /\ Begin /\ \E f \in srv.fleet : srv' = [srv EXCEPT !.fleet = @ \ {f}]
  /\ UNCHANGED <<biz, base, dir, seq, handle, former, job, lock, routes, look>>

Listen ==
  /\ ~srv.up /\ srv.fleet = {}
  /\ srv' = [srv EXCEPT !.up = TRUE]
  /\ UNCHANGED <<biz, base, dir, seq, handle, former, job, lock, routes, look, ops>>

BizNext ==
  \/ \E w \in Workers : Build(w) \/ ProvisionOutlet(w)
  \/ \E o \in Asked : AskRoute(o) \/ KeepRoute(o) \/ Expire(o)
  \/ RegistryGoes \/ RegistryBack
  \/ Rename \/ Deploy \/ FleetMoves \/ FleetStamps \/ FleetFails \/ Listen
=============================================================================
