------------------------------ MODULE Installs ------------------------------
(***************************************************************************)
(* The operator's panel (panel/server.js, panel/railway.js): an install on *)
(* infrastructure of its own is made part by part over the platform's API, *)
(* in the background, while notes of how far it got are written to its row *)
(* and nobody waits for them; and what the operator sells it is kept on    *)
(* the row and carried to the install whenever somebody looks.  One        *)
(* install.  The panel's database answers before the platform does: notes  *)
(* have landed when a call that was made after them is answered.           *)
(***************************************************************************)
EXTENDS Naturals, Sequences, FiniteSets

CONSTANTS
  Viewers,    \* dashboards that load at the same time
  Licences,   \* what can be sold: [kind, ends]
  MaxFaults   \* bound on what goes wrong, and on edits

VARIABLES
  row,        \* panel.install: [st, made, live, sold]
  cloud,      \* the parts that exist on the platform
  build,      \* provision(): [at, step, made, roll]
  notes,      \* updates of the row under way that nobody waits for
  held,       \* the licence the install has
  view,       \* dashboards: what they read and have not acted on
  faults

insVars == <<row, cloud, build, notes, held, view, faults>>

Steps == <<"project", "database", "volume", "database-url", "app", "domain", "settings", "live">>
\* createProject, createService, createVolume, createDomain; the others make nothing.
Makes(s) == {Steps[s]} \ {"database-url", "settings", "live"}
Off == [at |-> "off", step |-> 0, made |-> {}, roll |-> FALSE]
NoView == [at |-> "none"]

InsInit ==
  /\ \E l \in Licences :
       /\ row = [st |-> "none", made |-> {}, live |-> FALSE, sold |-> l]
       /\ held = l
  /\ cloud = {} /\ build = Off /\ notes = {}
  /\ view = [v \in Viewers |-> NoView] /\ faults = 0

Fault == faults < MaxFaults /\ faults' = faults + 1
Note(st, made) == [st |-> st, made |-> made]
-----------------------------------------------------------------------------
\* POST /installs/provision: the row first, and the answer; then the parts.
ProvisionInstall ==
  /\ row.st = "none" /\ build.at = "off"
  /\ row' = [row EXCEPT !.st = "starting"]
  /\ \E roll \in BOOLEAN : build' = [Off EXCEPT !.at = "run", !.step = 1, !.roll = roll]
  /\ notes' = {Note(Steps[1], {})}
  /\ UNCHANGED <<cloud, held, view, faults>>

\* A note lands: state and parts, as they were when it was written.
Land ==
  /\ \E n \in notes : /\ notes' = notes \ {n}
                      /\ row' = [row EXCEPT !.st = n.st, !.made = n.made]
  /\ UNCHANGED <<cloud, build, held, view, faults>>

\* The call reaches the platform.
Ask ==
  /\ build.at = "run"
  /\ cloud' = cloud \cup Makes(build.step)
  /\ build' = [build EXCEPT !.at = "asked"]
  /\ UNCHANGED <<row, notes, held, view, faults>>

\* It is answered: the part is named, and the next step begins.
Answered ==
  /\ build.at = "asked" /\ notes = {} /\ build.step < Len(Steps)
  /\ LET made == build.made \cup Makes(build.step) IN
       /\ build' = [build EXCEPT !.at = "run", !.step = @ + 1, !.made = made]
       /\ notes' = {Note(Steps[build.step], made), Note(Steps[build.step + 1], made)}
  /\ UNCHANGED <<row, cloud, held, view, faults>>

\* The first deploy succeeded: the row has its address and its keys.
Lives ==
  /\ build.at = "asked" /\ notes = {} /\ build.step = Len(Steps)
  /\ build' = Off /\ notes' = {Note("live", build.made)}
  /\ row' = [row EXCEPT !.st = "live", !.made = build.made, !.live = TRUE]
  /\ UNCHANGED <<cloud, held, view, faults>>

\* A step fails: refused, or done and its answer lost, or waited for in vain.
Fails ==
  /\ build.at \in {"run", "asked"} /\ notes = {} /\ Fault
  /\ notes' = {Note("step-failed", build.made)}
  /\ build' = [build EXCEPT !.at = IF @ = "run" \/ ~build.roll THEN "failed" ELSE "undo"]
  /\ UNCHANGED <<row, cloud, held, view>>

\* With rollback, the project is deleted, when there is one and the call succeeds.
Undo ==
  /\ build.at = "undo"
  /\ cloud' \in {cloud, IF "project" \in build.made THEN {} ELSE cloud}
  /\ build' = [build EXCEPT !.at = "failed"]
  /\ UNCHANGED <<row, notes, held, view, faults>>

\* What was made is on the error, for the row.
SayWhy ==
  /\ build.at = "failed" /\ build' = Off
  /\ notes' = notes \cup {Note("failed", build.made)}
  /\ UNCHANGED <<row, cloud, held, view, faults>>

\* The panel stops: what was on its way is gone.
PanelStops ==
  /\ Fault /\ build' = Off /\ notes' = {} /\ view' = [v \in Viewers |-> NoView]
  /\ UNCHANGED <<row, cloud, held>>
-----------------------------------------------------------------------------
\* PATCH /installs/:id sells something else.
Sell ==
  /\ row.st # "none" /\ Fault
  /\ \E l \in Licences \ {row.sold} : row' = [row EXCEPT !.sold = l]
  /\ UNCHANGED <<cloud, build, notes, held, view>>

\* The install's database is restored from an archive that holds another licence.
RestoredThere ==
  /\ row.live /\ Fault /\ \E l \in Licences \ {held} : held' = l
  /\ UNCHANGED <<row, cloud, build, notes, view>>

\* GET /overview in dedicated mode: rows are read, then the installs are asked, and one that
\* is live and has something else is pushed what was read.
Look(v) ==
  /\ view[v].at = "none" /\ row.live
  /\ view' = [view EXCEPT ![v] = [at |-> "probe", want |-> row.sold]]
  /\ UNCHANGED <<row, cloud, build, notes, held, faults>>

\* Mutant: when only the trial's end differs, nothing does.
DiffersInKind(want, got) == want.kind # got.kind
\* licenceDiffers
Differs(want, got) == want # got

ProbeInstall(v) ==
  /\ view[v].at = "probe"
  /\ view' = [view EXCEPT ![v] = IF Differs(@.want, held) THEN [@ EXCEPT !.at = "push"]
                                 ELSE NoView]
  /\ UNCHANGED <<row, cloud, build, notes, held, faults>>

\* pushLicence
Push(v) ==
  /\ view[v].at = "push" /\ held' = view[v].want /\ view' = [view EXCEPT ![v] = NoView]
  /\ UNCHANGED <<row, cloud, build, notes, faults>>

\* The install does not answer; the next look tries again.
Unanswered(v) ==
  /\ view[v].at \in {"probe", "push"} /\ Fault /\ view' = [view EXCEPT ![v] = NoView]
  /\ UNCHANGED <<row, cloud, build, notes, held>>

InsNext ==
  \/ ProvisionInstall \/ Land \/ Ask \/ Answered \/ Lives \/ Fails \/ Undo \/ SayWhy \/ PanelStops
  \/ Sell \/ RestoredThere
  \/ \E v \in Viewers : Look(v) \/ ProbeInstall(v) \/ Push(v) \/ Unanswered(v)
-----------------------------------------------------------------------------
(* Wherever building an install stops, by a failure, a lost answer, a rollback or with the  *)
(* panel itself, the row names all of what exists but at most the last two parts            *)
(* (panel/server.js: "an orphan is impossible to create silently").                         *)
FewUnnamed == Cardinality(cloud \ row.made) =< 2

(* What the operator sells is what the install has, in the end: a dashboard that pushes     *)
(* what it read too early is put right by one that loads later (panel/server.js:            *)
(* "SELF-HEALING rather than scheduled").                                                    *)
LicenceArrives == <>[](row.live => held = row.sold)
=============================================================================
