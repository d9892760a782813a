---------------------------- MODULE EstateProofs ----------------------------
(***************************************************************************)
(* The owner's account, the setting up of a store, the archive shelf, the  *)
(* cluster and an install, for any number of requests and pages at once,   *)
(* any businesses and any number of troubles: a password nobody proved     *)
(* opens nothing, no step of a setup lands in a database of somebody else, *)
(* no prune takes the last good archive, no outlet trades in two live      *)
(* databases, and what stands is named where an operator looks.            *)
(***************************************************************************)
EXTENDS Estate, SequenceTheorems, FiniteSetTheorems, WellFoundedInduction, TLAPS

-----------------------------------------------------------------------------
(* The account of one address.                                             *)

AccountRows == [on : BOOLEAN, verified : BOOLEAN, pw : {"none", "early", "own"}, code : BOOLEAN,
                tries : Nat, failed : Nat, locked : BOOLEAN, known : BOOLEAN]

Kinds == {"none", "signup", "code", "verify", "signin", "password", "provider", "business"}
Ats == {"", "read", "issue", "proved", "link", "in", "build"}
Requests == [kind : Kinds, at : Ats, seen : AccountRows]

AccTyped ==
  /\ acct \in AccountRows
  /\ req \in [Clients -> Requests]

\* A row that is proved, or has a code, is there; and what is proved has no early password.
RowStands == /\ acct.verified \/ acct.code => acct.on
             /\ acct.verified => acct.pw # "early"

\* What a request saw of the row is still so, and one that has proved the address has settled
\* the password.
Stands(c) ==
  /\ req[c].seen.on \/ req[c].seen.code \/ req[c].seen.verified => acct.on
  /\ req[c].seen.verified => acct.verified
  /\ req[c].at \in {"issue", "proved"} => acct.on
  /\ req[c].at = "proved" => acct.pw # "early"

AccInv == AccTyped /\ RowStands /\ \A c \in Clients : Stands(c)

LEMMA AccInitInv == AccInit => AccInv
  <1> SUFFICES ASSUME AccInit PROVE AccInv
    OBVIOUS
  <1>1. NoRow \in AccountRows /\ ~NoRow.on /\ ~NoRow.verified /\ ~NoRow.code
    BY DEF NoRow, AccountRows
  <1>2. Quiet \in Requests /\ Quiet.at = "" /\ Quiet.seen = NoRow
    BY <1>1 DEF Quiet, Requests, Kinds, Ats
  <1> QED BY <1>1, <1>2 DEF AccInit, AccInv, AccTyped, RowStands, Stands

\* A row only comes to be, comes to be proved, and loses an early password.
Grows ==
  /\ acct' \in AccountRows
  /\ acct.on => acct'.on
  /\ acct.verified => acct'.verified
  /\ acct.on /\ acct.pw # "early" => acct'.pw # "early"
  /\ acct'.verified \/ acct'.code => acct'.on
  /\ acct'.verified => acct'.pw # "early"

\* One request moves on, from the row it saw, and the row grows.
Moved(c, at) ==
  /\ \A d \in Clients \ {c} : req'[d] = req[d]
  /\ req' \in [Clients -> Requests]
  /\ \/ req'[c] = Quiet
     \/ req'[c].seen = req[c].seen /\ req'[c].at = at

LEMMA MovedInv ==
  ASSUME AccInv, NEW c \in Clients, NEW at, Grows, Moved(c, at),
         at \in {"issue", "proved"} => acct'.on,
         at = "proved" => acct'.pw # "early"
  PROVE  AccInv'
  <1>1. AccTyped' /\ RowStands'
    BY DEF Grows, Moved, AccTyped, RowStands
  <1>2. ASSUME NEW d \in Clients \ {c} PROVE Stands(d)'
    BY <1>2 DEF AccInv, Stands, Grows, Moved
  <1>3. Stands(c)'
    <2>1. CASE req'[c] = Quiet
      <3>1. Quiet.at = "" /\ ~Quiet.seen.on /\ ~Quiet.seen.code /\ ~Quiet.seen.verified
        BY DEF Quiet, NoRow
      <3> QED BY <2>1, <3>1 DEF Stands
    <2>2. CASE req'[c].seen = req[c].seen /\ req'[c].at = at
      BY <2>2 DEF AccInv, Stands, Grows
    <2> QED BY <2>1, <2>2 DEF Moved
  <1> QED BY <1>1, <1>2, <1>3 DEF AccInv

\* The row as it is, is grown.
LEMMA Still == ASSUME AccInv, UNCHANGED acct PROVE Grows
  BY DEF AccInv, AccTyped, RowStands, Grows

\* Moving on and ending, as moves.
LEMMA GoesMoves ==
  ASSUME AccInv, NEW c \in Clients, NEW at \in Ats, Goes(c, at)
  PROVE  Moved(c, at)
  <1>1. req[c] \in Requests
    BY DEF AccInv, AccTyped
  <1>2. [req[c] EXCEPT !.at = at] \in Requests /\ [req[c] EXCEPT !.at = at].seen = req[c].seen
        /\ [req[c] EXCEPT !.at = at].at = at
    BY <1>1 DEF Requests
  <1>3. req' = [req EXCEPT ![c] = [req[c] EXCEPT !.at = at]]
    BY DEF Goes
  <1> QED BY <1>2, <1>3 DEF AccInv, AccTyped, Moved

LEMMA EndsMoves ==
  ASSUME AccInv, NEW c \in Clients, Ends(c)
  PROVE  Moved(c, "")
  <1>1. NoRow \in AccountRows
    BY DEF NoRow, AccountRows
  <1>2. Quiet \in Requests
    BY <1>1 DEF Quiet, Requests, Kinds, Ats
  <1> QED BY <1>2 DEF AccInv, AccTyped, Ends, Moved

\* One request goes on, or ends, while the row grows.
LEMMA GoesInv ==
  ASSUME AccInv, NEW c \in Clients, Grows,
         \/ Ends(c)
         \/ Goes(c, "link") \/ Goes(c, "in") \/ Goes(c, "build")
         \/ Goes(c, "issue") /\ acct'.on
         \/ Goes(c, "proved") /\ acct'.on /\ acct'.pw # "early"
  PROVE  AccInv'
  <1> USE DEF Ats
  <1>1. CASE Ends(c)
    BY <1>1, EndsMoves, MovedInv
  <1>2. CASE Goes(c, "link")
    BY <1>2, GoesMoves, MovedInv
  <1>3. CASE Goes(c, "in")
    BY <1>3, GoesMoves, MovedInv
  <1>4. CASE Goes(c, "build")
    BY <1>4, GoesMoves, MovedInv
  <1>5. CASE Goes(c, "issue") /\ acct'.on
    BY <1>5, GoesMoves, MovedInv
  <1>6. CASE Goes(c, "proved") /\ acct'.on /\ acct'.pw # "early"
    BY <1>6, GoesMoves, MovedInv
  <1> QED BY <1>1, <1>2, <1>3, <1>4, <1>5, <1>6

LEMMA AccStep == AccInv /\ AccNext => AccInv'
  <1> SUFFICES ASSUME AccInv, AccNext PROVE AccInv'
    OBVIOUS
  <1> USE DEF On, Saw
  <1>0. acct \in AccountRows /\ RowStands
    BY DEF AccInv, AccTyped
  <1>1. CASE LockPasses
    <2>1. Grows /\ UNCHANGED req
      BY <1>0, <1>1 DEF LockPasses, AccountRows, Grows, RowStands
    <2> QED BY <2>1 DEF AccInv, AccTyped, RowStands, Stands, Grows
  <1>2. ASSUME NEW c \in Clients, NEW k \in Kinds, Call(c, k) PROVE AccInv'
    <2>1. /\ UNCHANGED acct
          /\ req' = [req EXCEPT ![c] = [kind |-> k, at |-> "read", seen |-> acct]]
      BY <1>2 DEF Call
    <2>2. /\ req'[c] = [kind |-> k, at |-> "read", seen |-> acct]
          /\ \A d \in Clients \ {c} : req'[d] = req[d]
          /\ req' \in [Clients -> Requests]
      BY <1>0, <2>1 DEF AccInv, AccTyped, Requests, Ats
    <2>3. Stands(c)'
      BY <1>0, <2>1, <2>2 DEF Stands, RowStands
    <2> QED BY <2>1, <2>2, <2>3 DEF AccInv, AccTyped, RowStands, Stands
  <1>3. ASSUME NEW c \in Clients, Cut(c) PROVE AccInv'
    BY <1>3, Still, GoesInv DEF Cut
  <1>4. ASSUME NEW c \in Clients, IssueCode(c) PROVE AccInv'
    <2>1. acct.on
      BY <1>4 DEF IssueCode, AccInv, Stands
    <2>2. Grows
      BY <1>0, <1>4, <2>1 DEF IssueCode, AccountRows, Grows, RowStands
    <2> QED BY <1>4, <2>2, GoesInv DEF IssueCode
  <1>5. ASSUME NEW c \in Clients, Signup(c) \/ AskCode(c) PROVE AccInv'
    <2>1. CASE Saw(c).on /\ UNCHANGED acct /\ Goes(c, "issue")
      BY <2>1, Still, GoesInv DEF AccInv, Stands
    <2>2. CASE UNCHANGED acct /\ Ends(c)
      BY <2>2, Still, GoesInv
    <2>3. ASSUME ~acct.on, Goes(c, "issue"), NEW pw \in {"none", "early"},
                 acct' = [NoRow EXCEPT !.on = TRUE, !.pw = pw]
          PROVE  AccInv'
      <3>1. /\ acct' \in AccountRows /\ acct'.on /\ ~acct'.verified /\ ~acct'.code
        BY <2>3 DEF NoRow, AccountRows
      <3>2. Grows
        BY <1>0, <2>3, <3>1 DEF Grows, RowStands
      <3> QED BY <2>3, <3>1, <3>2, GoesInv
    <2> QED BY <1>5, <2>1, <2>2, <2>3 DEF Signup, AskCode
  <1>6. ASSUME NEW c \in Clients, Verify(c) PROVE AccInv'
    <2>0. Saw(c).code => acct.on
      BY DEF AccInv, Stands
    <2>1. CASE UNCHANGED acct /\ Ends(c)
      BY <2>1, Still, GoesInv
    <2>2. CASE acct' = ClearCode(FALSE) /\ Ends(c)
      <3>1. Grows
        BY <1>0, <2>2 DEF ClearCode, AccountRows, Grows, RowStands
      <3> QED BY <2>2, <3>1, GoesInv
    <2>3. CASE acct.on /\ acct' = [acct EXCEPT !.tries = @ + 1] /\ Ends(c)
      <3>1. Grows
        BY <1>0, <2>3 DEF AccountRows, Grows, RowStands
      <3> QED BY <2>3, <3>1, GoesInv
    <2>4. CASE Saw(c).code /\ Saw(c).verified /\ UNCHANGED acct /\ Goes(c, "proved")
      BY <1>0, <2>4, Still, GoesInv DEF AccInv, Stands, RowStands
    <2>5. ASSUME acct.on, NEW typed \in {"none", "own"}, acct' = [acct EXCEPT !.pw = FirstProof(typed)],
                 Goes(c, "proved")
          PROVE  AccInv'
      <3>1. Grows /\ acct'.on /\ acct'.pw # "early"
        BY <1>0, <2>5 DEF FirstProof, AccountRows, Grows, RowStands
      <3> QED BY <2>5, <3>1, GoesInv
    <2> QED BY <1>6, <2>0, <2>1, <2>2, <2>3, <2>4, <2>5 DEF Verify
  <1>7. ASSUME NEW c \in Clients, VerifyEnds(c) PROVE AccInv'
    <2>1. acct.on /\ acct.pw # "early"
      BY <1>7 DEF VerifyEnds, AccInv, Stands
    <2>2. Grows
      BY <1>0, <1>7, <2>1 DEF VerifyEnds, ClearCode, AccountRows, Grows, RowStands
    <2> QED BY <1>7, <2>2, GoesInv DEF VerifyEnds
  <1>8. ASSUME NEW c \in Clients, Signin(c) PROVE AccInv'
    <2>1. Ends(c)
      BY <1>8 DEF Signin
    <2>2. CASE UNCHANGED acct
      BY <2>1, <2>2, Still, GoesInv
    <2>3. CASE acct' = [acct EXCEPT !.failed = Saw(c).failed + 1,
                                    !.locked = Saw(c).failed + 1 >= LockTries \/ @]
      <3>1. Saw(c).failed + 1 \in Nat
        <4>1. req[c] \in Requests
          BY DEF AccInv, AccTyped
        <4> QED BY <4>1 DEF Requests, AccountRows
      <3>2. Grows
        BY <1>0, <2>3, <3>1 DEF AccountRows, Grows, RowStands
      <3> QED BY <2>1, <3>2, GoesInv
    <2>4. CASE acct' = [acct EXCEPT !.failed = 0, !.locked = FALSE]
      <3>1. Grows
        BY <1>0, <2>4 DEF AccountRows, Grows, RowStands
      <3> QED BY <2>1, <3>1, GoesInv
    <2> QED BY <1>8, <2>2, <2>3, <2>4 DEF Signin
  <1>9. ASSUME NEW c \in Clients, SetPassword(c) PROVE AccInv'
    <2>1. Grows
      BY <1>0, <1>9 DEF SetPassword, AccountRows, Grows, RowStands
    <2> QED BY <1>9, <2>1, GoesInv DEF SetPassword
  <1>10. ASSUME NEW c \in Clients, Provider(c) PROVE AccInv'
    <2>1. CASE UNCHANGED acct /\ (Goes(c, "in") \/ Goes(c, "link") \/ Ends(c))
      BY <2>1, Still, GoesInv
    <2>2. CASE ~acct.on /\ acct' = [NoRow EXCEPT !.on = TRUE, !.verified = TRUE] /\ Goes(c, "link")
      <3>1. Grows
        BY <1>0, <2>2 DEF NoRow, AccountRows, Grows, RowStands
      <3> QED BY <2>2, <3>1, GoesInv
    <2>3. CASE Saw(c).on /\ acct' = [acct EXCEPT !.verified = TRUE, !.pw = "none"] /\ Goes(c, "link")
      <3>1. acct.on
        BY <2>3 DEF AccInv, Stands
      <3>2. Grows
        BY <1>0, <2>3, <3>1 DEF AccountRows, Grows, RowStands
      <3> QED BY <2>3, <3>2, GoesInv
    <2> QED BY <1>10, <2>1, <2>2, <2>3 DEF Provider
  <1>11. ASSUME NEW c \in Clients, ProviderEnds(c) PROVE AccInv'
    <2>1. Grows
      BY <1>0, <1>11 DEF ProviderEnds, AccountRows, Grows, RowStands
    <2> QED BY <1>11, <2>1, GoesInv DEF ProviderEnds
  <1>12. ASSUME NEW c \in Clients, Business(c) \/ Link(c) PROVE AccInv'
    BY <1>12, Still, GoesInv DEF Business, Link
  <1> QED BY <1>1, <1>2, <1>3, <1>4, <1>5, <1>6, <1>7, <1>8, <1>9, <1>10, <1>11, <1>12 DEF AccNext, Kinds

THEOREM AccountInvariance == Spec => []AccInv
  <1>1. AccInv /\ [Next]_estVars => AccInv'
    <2>1. AccInv /\ UNCHANGED accVars => AccInv'
      BY DEF accVars, AccInv, AccTyped, RowStands, Stands
    <2>2. [Next]_estVars => AccNext \/ UNCHANGED accVars
      BY DEF Next, estVars, ClusterNext
    <2> QED BY <2>1, <2>2, AccStep
  <1>2. Init => AccInv
    BY AccInitInv DEF Init
  <1> QED BY <1>1, <1>2, PTL DEF Spec

\* A password typed before its address was proved opens nothing afterwards
\* (VerifiedPasswordIsProven).
THEOREM ProvenAlways == Spec => []VerifiedPasswordIsProven
  <1>1. AccInv => VerifiedPasswordIsProven
    BY DEF AccInv, RowStands, VerifiedPasswordIsProven
  <1> QED BY AccountInvariance, <1>1, PTL
-----------------------------------------------------------------------------
(* Whose databases a setup writes to.                                      *)

Page(w) == w = [asked |-> w.asked, acct |-> w.acct, token |-> w.token, cur |-> w.cur, at |-> w.at,
                db |-> w.db, saw |-> w.saw]
Records(f) == f = [company |-> f.company, credit |-> f.credit, gst |-> f.gst, outlet |-> f.outlet,
                   rates |-> f.rates, staff |-> f.staff, parts |-> f.parts, by |-> f.by]

OnbTyped ==
  /\ setting \in Situations
  /\ firm = [b \in Firms \cup {Own} |-> firm[b]] /\ \A b \in Firms \cup {Own} : Records(firm[b])
  /\ panel = [p \in Panels |-> panel[p]] /\ \A p \in Panels : Page(panel[p])

\* A session opens a store of theirs, and a request under way goes to one.
PagesAtHome ==
  \A p \in Panels : /\ panel[p].token \in Rightful(p) \cup {Nowhere}
                    /\ panel[p].db \in Rightful(p) \cup {Nowhere}

ByPages == \A b \in Firms \cup {Own} : firm[b].by \subseteq Panels

OnbInv == OnbTyped /\ PagesAtHome /\ ByPages /\ AtHome

LEMMA OnbInitInv == OnbInit => OnbInv
  <1> SUFFICES ASSUME OnbInit PROVE OnbInv
    OBVIOUS
  <1>1. /\ Page(Closed) /\ Closed.token = Nowhere /\ Closed.db = Nowhere
        /\ Records(NoFirm) /\ NoFirm.by = {}
    BY DEF Page, Closed, Records, NoFirm
  <1> QED BY <1>1 DEF OnbInit, OnbInv, OnbTyped, PagesAtHome, ByPages, AtHome

\* Which business a request is about: one of theirs, or the process's own.
LEMMA PickedIsTheirs ==
  ASSUME OnbInv, NEW p \in Panels, NEW b \in Picked(p), Admitted(p)
  PROVE  b \in Rightful(p)
  <1>1. CASE Anonymous(p)
    BY <1>1 DEF Picked, Rightful, Admitted, Anonymous, Unaccounted
  <1>2. CASE ~Anonymous(p)
    <2>1. Owns(p) # {} => \E m \in Owns(p) : \A c \in Owns(p) : c <= m
      BY SituationAssumption DEF OnbInv, OnbTyped, Owns
    <2>2. Newest(Owns(p)) \in Owns(p)
      BY <1>2, <2>1 DEF Newest, Anonymous
    <2> QED BY <1>2, <2>2 DEF Picked, Rightful
  <1> QED BY <1>1, <1>2

\* One page changes.
OnePage(p) ==
  /\ panel' = [q \in Panels |-> panel'[q]] /\ \A q \in Panels \ {p} : panel'[q] = panel[q]
  /\ Page(panel'[p]) /\ (panel[p].acct # "held" => panel'[p].acct # "held")

\* The records of the database its request goes to change, and they are by the page too.
ItsRecords(p) ==
  \/ UNCHANGED firm
  \/ \E f : /\ Records(f) /\ f.by \subseteq firm[panel[p].db].by \cup {p}
            /\ firm' = [firm EXCEPT ![panel[p].db] = f]

\* An account that did not count once is remembered, so nobody loses what is theirs.
LEMMA TheirsStays ==
  ASSUME NEW p \in Panels, UNCHANGED setting, OnePage(p)
  PROVE  \A q \in Panels : Rightful(q) \subseteq Rightful(q)'
  BY DEF Rightful, Owns, Unaccounted, Coded, OnePage

LEMMA StepInv ==
  ASSUME OnbInv, NEW p \in Panels, UNCHANGED setting, OnePage(p), ItsRecords(p),
         panel'[p].token \in Rightful(p) \cup {Nowhere}, panel'[p].db \in Rightful(p) \cup {Nowhere}
  PROVE  OnbInv'
  <1>1. \A q \in Panels : Rightful(q) \subseteq Rightful(q)'
    BY TheirsStays
  <1>2. PagesAtHome'
    BY <1>1 DEF OnbInv, PagesAtHome, OnePage
  <1>0. DOMAIN firm = Firms \cup {Own}
    BY DEF OnbInv, OnbTyped
  <1>3. CASE UNCHANGED firm
    <2>1. OnbTyped'
      BY <1>3 DEF OnbInv, OnbTyped, OnePage
    <2>2. ByPages'
      BY <1>3 DEF OnbInv, ByPages
    <2>3. AtHome'
      BY <1>0, <1>1, <1>3 DEF OnbInv, ByPages, AtHome
    <2> QED BY <1>2, <2>1, <2>2, <2>3 DEF OnbInv
  <1>4. ASSUME NEW f, Records(f), f.by \subseteq firm[panel[p].db].by \cup {p},
               firm' = [firm EXCEPT ![panel[p].db] = f]
        PROVE  OnbInv'
    <2>1. /\ firm' = [b \in Firms \cup {Own} |-> firm'[b]]
          /\ \A b \in Firms \cup {Own} : firm'[b] = IF b = panel[p].db THEN f ELSE firm[b]
      BY <1>4 DEF OnbInv, OnbTyped
    <2>2. OnbTyped'
      BY <1>4, <2>1 DEF OnbInv, OnbTyped, OnePage
    <2>3. panel[p].db # Nowhere => panel[p].db \in Rightful(p)
      BY DEF OnbInv, PagesAtHome
    <2>4. DOMAIN firm' = Firms \cup {Own}
      BY <2>1
    <2>5. ASSUME NEW b \in Firms \cup {Own}, NEW q \in firm'[b].by
          PROVE  q \in Panels /\ b \in Rightful(q)
      <3>1. CASE b = panel[p].db
        BY <1>0, <1>4, <2>1, <2>3, <2>5, <3>1, OnboardingAssumption
        DEF OnbInv, ByPages, AtHome, Own, Nowhere
      <3>2. CASE b # panel[p].db
        BY <1>0, <2>1, <2>5, <3>2 DEF OnbInv, ByPages, AtHome
      <3> QED BY <3>1, <3>2
    <2>6. AtHome'
      BY <1>1, <2>4, <2>5 DEF AtHome
    <2>7. ByPages'
      BY <2>5 DEF ByPages
    <2> QED BY <1>2, <2>2, <2>6, <2>7 DEF OnbInv
  <1> QED BY <1>3, <1>4 DEF ItsRecords

LEMMA PageRecord == OnbInv => \A p \in Panels : Page(panel[p])
  BY DEF OnbInv, OnbTyped

\* A request moves on, or is refused, and writes or does not.
LEMMA MovesPage ==
  ASSUME OnbInv, NEW p \in Panels, NEW at, Moves(p, at)
  PROVE  OnePage(p) /\ panel'[p].token = panel[p].token /\ panel'[p].db = panel[p].db
  BY DEF OnbInv, OnbTyped, Page, Moves, OnePage

LEMMA RefusedPage ==
  ASSUME OnbInv, NEW p \in Panels, Refused(p)
  PROVE  OnePage(p) /\ panel'[p].token = panel[p].token /\ panel'[p].db = Nowhere
  <1> DEFINE w == [panel[p] EXCEPT !.at = "away", !.db = Nowhere, !.saw = FALSE]
  <1>1. panel' = [panel EXCEPT ![p] = w]
    BY DEF Refused
  <1>2. Page(w) /\ w.acct = panel[p].acct /\ w.token = panel[p].token /\ w.db = Nowhere
    <2>1. ASSUME NEW r, Page(r), NEW v, v = [r EXCEPT !.at = "away", !.db = Nowhere, !.saw = FALSE]
          PROVE  Page(v) /\ v.acct = r.acct /\ v.token = r.token /\ v.db = Nowhere
      BY <2>1 DEF Page
    <2> QED BY <2>1, PageRecord
  <1> HIDE DEF w
  <1> QED BY <1>1, <1>2 DEF OnbInv, OnbTyped, OnePage

LEMMA RequestInv ==
  ASSUME OnbInv, NEW p \in Panels, UNCHANGED setting, ItsRecords(p),
         Refused(p) \/ \E at : Moves(p, at)
  PROVE  OnbInv'
  BY MovesPage, RefusedPage, StepInv DEF OnbInv, PagesAtHome

LEMMA WritesRecords ==
  ASSUME OnbInv, NEW p \in Panels, NEW f, Records(f), f.by = firm[panel[p].db].by, Writes(p, f)
  PROVE  ItsRecords(p)
  <1> DEFINE g == [f EXCEPT !.by = @ \cup {p}]
  <1>1. Records(g) /\ g.by = firm[panel[p].db].by \cup {p}
    BY DEF Records
  <1>2. firm' = [firm EXCEPT ![panel[p].db] = g]
    BY DEF Writes
  <1> QED BY <1>1, <1>2 DEF ItsRecords

\* The page's own steps: it is opened, linked, gone back on, signed in or out, and saved.
LEMMA PageStep ==
  ASSUME OnbInv, NEW p \in Panels,
         \/ Load(p) \/ Relink(p) \/ Back(p) \/ LoseToken(p) \/ Lapse(p) \/ Renew(p) \/ Save(p)
         \/ \E b \in Firms \cup {Own} : SignIn(p, b)
  PROVE  OnbInv'
  <1>0. panel[p].token \in Rightful(p) \cup {Nowhere} /\ panel[p].db \in Rightful(p) \cup {Nowhere}
    BY DEF OnbInv, PagesAtHome
  <1>1. CASE Load(p)
    <2>1. PICK a, t, c :
            LET w == [panel[p] EXCEPT !.asked = a, !.at = t, !.cur = c]
            IN  panel' = [panel EXCEPT ![p] = w]
      <3>1. CASE panel' = [panel EXCEPT ![p].asked = 0]
        <4> DEFINE w == [panel[p] EXCEPT !.asked = 0, !.at = panel[p].at, !.cur = panel[p].cur]
        <4>1. w = [panel[p] EXCEPT !.asked = 0]
          BY PageRecord DEF Page
        <4> HIDE DEF w
        <4>2. panel' = [panel EXCEPT ![p] = w]
          BY <3>1, <4>1
        <4> QED BY <4>2 DEF w
      <3>2. CASE Picked(p) # {}
        <4>1. PICK b \in Picked(p) : panel' = [panel EXCEPT
                ![p].asked = IF Anonymous(p) THEN @ ELSE b,
                ![p].at = IF Complete(b) THEN "left" ELSE "form",
                ![p].cur = IF Complete(b) THEN 1 ELSE FirstUndone(b)]
          BY <1>1, <3>2 DEF Load
        <4> DEFINE a == IF Anonymous(p) THEN panel[p].asked ELSE b
                   t == IF Complete(b) THEN "left" ELSE "form"
                   c == IF Complete(b) THEN 1 ELSE FirstUndone(b)
        <4>2. panel' = [panel EXCEPT ![p] = [panel[p] EXCEPT !.asked = a, !.at = t, !.cur = c]]
          BY <4>1
        <4> HIDE DEF a, t, c
        <4> QED BY <4>2
      <3> QED BY <1>1, <3>1, <3>2 DEF Load
    <2> DEFINE w == [panel[p] EXCEPT !.asked = a, !.at = t, !.cur = c]
    <2>2. Page(w) /\ w.acct = panel[p].acct /\ w.token = panel[p].token /\ w.db = panel[p].db
      <3>1. ASSUME NEW r, Page(r), NEW v, v = [r EXCEPT !.asked = a, !.at = t, !.cur = c]
            PROVE  Page(v) /\ v.acct = r.acct /\ v.token = r.token /\ v.db = r.db
        BY <3>1 DEF Page
      <3> QED BY <3>1, PageRecord
    <2> HIDE DEF w
    <2>3. OnePage(p) /\ panel'[p] = w
      BY <2>1, <2>2 DEF w, OnbInv, OnbTyped, OnePage
    <2> QED BY <1>0, <1>1, <2>2, <2>3, StepInv DEF Load, ItsRecords
  <1>2. CASE Relink(p)
    <2>1. OnePage(p) /\ panel'[p].token = panel[p].token /\ panel'[p].db = panel[p].db
      BY <1>2 DEF Relink, OnbInv, OnbTyped, Page, OnePage
    <2> QED BY <1>0, <1>2, <2>1, StepInv DEF Relink, ItsRecords
  <1>3. CASE Back(p)
    <2>1. OnePage(p) /\ panel'[p].token = panel[p].token /\ panel'[p].db = panel[p].db
      BY <1>3 DEF Back, OnbInv, OnbTyped, Page, OnePage
    <2> QED BY <1>0, <1>3, <2>1, StepInv DEF Back, ItsRecords
  <1>4. CASE LoseToken(p)
    <2>1. OnePage(p) /\ panel'[p].token = Nowhere /\ panel'[p].db = panel[p].db
      BY <1>4 DEF LoseToken, OnbInv, OnbTyped, Page, OnePage
    <2> QED BY <1>0, <1>4, <2>1, StepInv DEF LoseToken, ItsRecords
  <1>5. CASE Save(p)
    BY <1>5, RequestInv DEF Save, ItsRecords
  <1>6. ASSUME NEW b \in Firms \cup {Own}, SignIn(p, b) PROVE OnbInv'
    <2>1. OnePage(p) /\ panel'[p].token = b /\ panel'[p].db = panel[p].db
      BY <1>6 DEF SignIn, OnbInv, OnbTyped, Page, OnePage
    <2>2. b \in Rightful(p)
      BY <1>6 DEF SignIn, OnbInv, OnbTyped, AtHome, Rightful
    <2> QED BY <1>0, <1>6, <2>1, <2>2, StepInv DEF SignIn, ItsRecords
  <1>7. CASE Lapse(p)
    <2>1. OnePage(p) /\ panel'[p].token = panel[p].token /\ panel'[p].db = panel[p].db
      BY <1>7 DEF Lapse, OnbInv, OnbTyped, Page, OnePage
    <2> QED BY <1>0, <1>7, <2>1, StepInv DEF Lapse, ItsRecords
  <1>8. CASE Renew(p)
    <2>1. OnePage(p) /\ panel'[p].token = panel[p].token /\ panel'[p].db = panel[p].db
      BY <1>8 DEF Renew, OnbInv, OnbTyped, Page, OnePage
    <2> QED BY <1>0, <1>8, <2>1, StepInv DEF Renew, ItsRecords
  <1> QED BY <1>1, <1>2, <1>3, <1>4, <1>5, <1>6, <1>7, <1>8

\* What a step saves are records with something more in them, and who they are by as it was.
LEMMA WhatIsWritten ==
  ASSUME OnbInv, NEW p \in Panels,
         Company(p) \/ Outlet(p) \/ ClaimOwner(p) \/ OwnerSet(p) \/ Tax(p) \/ Part(p)
  PROVE  UNCHANGED firm \/ \E f : Records(f) /\ f.by = Db(p).by /\ Writes(p, f)
  <1>0. CASE panel[p].db \notin Firms \cup {Own}
    <2>1. UNCHANGED firm \/ \E f : Writes(p, f)
      BY DEF Company, Outlet, ClaimOwner, OwnerSet, Tax, Part
    <2>2. ASSUME NEW f, Writes(p, f) PROVE UNCHANGED firm
      <3> DEFINE g == [f EXCEPT !.by = @ \cup {p}]
      <3>1. firm' = [firm EXCEPT ![panel[p].db] = g]
        BY <2>2 DEF Writes
      <3> HIDE DEF g
      <3> QED BY <1>0, <3>1 DEF OnbInv, OnbTyped
    <2> QED BY <2>1, <2>2
  <1> SUFFICES ASSUME Records(Db(p))
               PROVE  UNCHANGED firm \/ \E f : Records(f) /\ f.by = Db(p).by /\ Writes(p, f)
    BY <1>0 DEF OnbInv, OnbTyped, Db
  <1>1. CASE Company(p)
    <2>0. PICK gst \in BOOLEAN :
            Writes(p, [Db(p) EXCEPT !.company = TRUE, !.gst = gst, !.credit = Credit(p, Db(p)),
                                    !.rates = IF gst THEN @ ELSE @ \ {"rate"}])
      BY <1>1, Zenon DEF Company
    <2>1. PICK y :
            Writes(p, [Db(p) EXCEPT !.company = TRUE, !.gst = gst, !.credit = Credit(p, Db(p)),
                                    !.rates = y])
      BY <2>0, Zenon
    <2>2. ASSUME NEW r, Records(r), NEW x, NEW v,
                 v = [r EXCEPT !.company = TRUE, !.gst = gst, !.credit = x, !.rates = y]
          PROVE  Records(v) /\ v.by = r.by
      BY <2>2 DEF Records
    <2> QED BY <2>1, <2>2
  <1>2. CASE Outlet(p)
    <2>1. CASE UNCHANGED firm
      BY <2>1
    <2>2. CASE Writes(p, Db(p))
      BY <2>2
    <2>3. ASSUME NEW x, NEW y, Writes(p, [Db(p) EXCEPT !.outlet = TRUE, !.parts = x, !.rates = y])
          PROVE  \E f : Records(f) /\ f.by = Db(p).by /\ Writes(p, f)
      <3>1. ASSUME NEW r, Records(r), NEW v, v = [r EXCEPT !.outlet = TRUE, !.parts = x, !.rates = y]
            PROVE  Records(v) /\ v.by = r.by
        BY <3>1 DEF Records
      <3> QED BY <2>3, <3>1
    <2> QED BY <1>2, <2>1, <2>2, <2>3 DEF Outlet
  <1>3. CASE ClaimOwner(p)
    <2>1. ASSUME NEW r, Records(r), NEW v, v = [r EXCEPT !.staff = @ + 1]
          PROVE  Records(v) /\ v.by = r.by
      BY <2>1 DEF Records
    <2> QED BY <1>3, <2>1 DEF ClaimOwner
  <1>4. CASE OwnerSet(p)
    <2>1. ASSUME NEW r, Records(r), NEW x, NEW v, v = [r EXCEPT !.credit = x]
          PROVE  Records(v) /\ v.by = r.by
      BY <2>1 DEF Records
    <2> QED BY <1>4, <2>1 DEF OwnerSet
  <1>5. CASE Tax(p)
    <2>1. ASSUME NEW r, Records(r), NEW x, NEW v, v = [r EXCEPT !.rates = @ \cup x]
          PROVE  Records(v) /\ v.by = r.by
      BY <2>1 DEF Records
    <2> QED BY <1>5, <2>1 DEF Tax
  <1>6. CASE Part(p)
    <2>1. ASSUME NEW r, Records(r), NEW x, NEW v, v = [r EXCEPT !.parts = @ \cup x]
          PROVE  Records(v) /\ v.by = r.by
      BY <2>1 DEF Records
    <2> QED BY <1>6, <2>1 DEF Part
  <1> QED BY <1>1, <1>2, <1>3, <1>4, <1>5, <1>6

\* A request's steps: it is resolved to a database, reads, writes there, and is answered.
LEMMA RequestStep ==
  ASSUME OnbInv, NEW p \in Panels, Handle(p) \/ CutOff(p)
  PROVE  OnbInv'
  <1>0. panel[p].token \in Rightful(p) \cup {Nowhere} /\ panel[p].db \in Rightful(p) \cup {Nowhere}
    BY DEF OnbInv, PagesAtHome
  <1>1. CASE CutOff(p)
    BY <1>1, RequestInv DEF CutOff, ItsRecords
  <1>2. CASE Resolve(p)
    <2>1. CASE Refused(p)
      BY <1>2, <2>1, RequestInv DEF Resolve, ItsRecords
    <2>2. ASSUME NEW b, panel' = [panel EXCEPT ![p].db = b, ![p].at = "look"], b \in Rightful(p) \cup {Nowhere}
          PROVE  OnbInv'
      <3> DEFINE w == [panel[p] EXCEPT !.db = b, !.at = "look"]
      <3>1. panel' = [panel EXCEPT ![p] = w]
        BY <2>2
      <3>2. Page(w) /\ w.acct = panel[p].acct /\ w.token = panel[p].token /\ w.db = b
        <4>1. ASSUME NEW r, Page(r), NEW v, v = [r EXCEPT !.db = b, !.at = "look"]
              PROVE  Page(v) /\ v.acct = r.acct /\ v.token = r.token /\ v.db = b
          BY <4>1 DEF Page
        <4> QED BY <4>1, PageRecord
      <3> HIDE DEF w
      <3>3. OnePage(p) /\ panel'[p] = w
        BY <3>1, <3>2 DEF OnbInv, OnbTyped, OnePage
      <3> QED BY <1>0, <1>2, <2>2, <3>2, <3>3, StepInv DEF Resolve, ItsRecords
    <2>3. ASSUME NEW read \in BOOLEAN,
                 NEW b \in IF Step(p) \in Open THEN IF read THEN Picked(p) ELSE Unread(p)
                           ELSE {panel[p].token} \ {Nowhere},
                 Step(p) \in Open => Admitted(p)
          PROVE  b \in Rightful(p)
      BY <1>0, <2>3, PickedIsTheirs DEF Unread
    <2> QED BY <1>2, <2>1, <2>2, <2>3 DEF Resolve
  <1>3. CASE ReadFirst(p)
    <2>1. CASE Refused(p)
      BY <1>3, <2>1, RequestInv DEF ReadFirst, ItsRecords
    <2>2. ASSUME NEW x, panel' = [panel EXCEPT ![p].at = "write", ![p].saw = x] PROVE OnbInv'
      <3> DEFINE w == [panel[p] EXCEPT !.at = "write", !.saw = x]
      <3>1. panel' = [panel EXCEPT ![p] = w]
        BY <2>2
      <3>2. Page(w) /\ w.acct = panel[p].acct /\ w.token = panel[p].token /\ w.db = panel[p].db
        <4>1. ASSUME NEW r, Page(r), NEW v, v = [r EXCEPT !.at = "write", !.saw = x]
              PROVE  Page(v) /\ v.acct = r.acct /\ v.token = r.token /\ v.db = r.db
          BY <4>1 DEF Page
        <4> QED BY <4>1, PageRecord
      <3> HIDE DEF w
      <3>3. OnePage(p) /\ panel'[p] = w
        BY <3>1, <3>2 DEF OnbInv, OnbTyped, OnePage
      <3> QED BY <1>0, <1>3, <3>2, <3>3, StepInv DEF ReadFirst, ItsRecords
    <2> QED BY <1>3, <2>1, <2>2 DEF ReadFirst
  <1>4. CASE Answer(p)
    <2>1. PICK t, a, c :
            /\ panel' = [panel EXCEPT ![p].db = Nowhere, ![p].saw = FALSE, ![p].token = t, ![p].at = a, ![p].cur = c]
            /\ t \in {panel[p].token, panel[p].db}
      BY <1>4 DEF Answer
    <2> DEFINE w == [panel[p] EXCEPT !.db = Nowhere, !.saw = FALSE, !.token = t, !.at = a, !.cur = c]
    <2>2. panel' = [panel EXCEPT ![p] = w]
      BY <2>1
    <2>3. Page(w) /\ w.acct = panel[p].acct /\ w.token = t /\ w.db = Nowhere
      <3>1. ASSUME NEW r, Page(r), NEW v, v = [r EXCEPT !.db = Nowhere, !.saw = FALSE, !.token = t, !.at = a, !.cur = c]
            PROVE  Page(v) /\ v.acct = r.acct /\ v.token = t /\ v.db = Nowhere
        BY <3>1 DEF Page
      <3> QED BY <3>1, PageRecord
    <2> HIDE DEF w
    <2>4. OnePage(p) /\ panel'[p] = w
      BY <2>2, <2>3 DEF OnbInv, OnbTyped, OnePage
    <2> QED BY <1>0, <1>4, <2>1, <2>3, <2>4, StepInv DEF Answer, ItsRecords
  <1>5. CASE Session(p)
    BY <1>5, RequestInv DEF Session, ItsRecords
  <1>6. CASE Company(p) \/ Outlet(p) \/ ClaimOwner(p) \/ OwnerSet(p) \/ Tax(p) \/ Part(p)
    <2>1. UNCHANGED setting /\ (Refused(p) \/ \E at : Moves(p, at))
      BY <1>6 DEF Company, Outlet, ClaimOwner, OwnerSet, Tax, Part
    <2>2. \/ UNCHANGED firm
          \/ \E f : Records(f) /\ f.by = Db(p).by /\ Writes(p, f)
      BY <1>6, WhatIsWritten
    <2>3. ItsRecords(p)
      BY <2>2, WritesRecords DEF ItsRecords, Db
    <2> QED BY <2>1, <2>3, RequestInv
  <1> QED BY <1>1, <1>2, <1>3, <1>4, <1>5, <1>6 DEF Handle

LEMMA OnbStep == OnbInv /\ OnbNext => OnbInv'
  <1> SUFFICES ASSUME OnbInv, OnbNext PROVE OnbInv'
    OBVIOUS
  <1>1. ASSUME NEW p \in Panels, Gst(p) PROVE OnbInv'
    <2> DEFINE b == panel[p].token
    <2>1. PICK g, y : firm' = [firm EXCEPT ![b].gst = g, ![b].rates = y]
      BY <1>1 DEF Gst
    <2>2. UNCHANGED <<setting, panel>>
      BY <1>1 DEF Gst
    <2>3. ASSUME NEW c \in Firms \cup {Own} PROVE Records(firm'[c]) /\ firm'[c].by = firm[c].by
      <3>1. ASSUME NEW r, Records(r), NEW v, v = [r EXCEPT !.gst = g, !.rates = y]
            PROVE  Records(v) /\ v.by = r.by
        BY <3>1 DEF Records
      <3>2. firm' = [firm EXCEPT ![b] = [firm[b] EXCEPT !.gst = g, !.rates = y]]
        BY <2>1
      <3> DEFINE v == [firm[b] EXCEPT !.gst = g, !.rates = y]
      <3>3. Records(firm[c]) /\ (b = c => Records(v) /\ v.by = firm[c].by)
        BY <3>1 DEF OnbInv, OnbTyped
      <3> HIDE DEF b, v
      <3> QED BY <3>2, <3>3 DEF v, OnbInv, OnbTyped
    <2>4. DOMAIN firm' = Firms \cup {Own} /\ firm' = [c \in Firms \cup {Own} |-> firm'[c]]
      BY <2>1 DEF OnbInv, OnbTyped
    <2>5. \A q : Rightful(q)' = Rightful(q)
      BY <2>2 DEF Rightful, Owns, Unaccounted, Coded
    <2>6. OnbTyped'
      BY <2>2, <2>3, <2>4 DEF OnbInv, OnbTyped
    <2>7. AtHome' /\ PagesAtHome' /\ ByPages'
      BY <2>2, <2>3, <2>4, <2>5 DEF OnbInv, OnbTyped, AtHome, PagesAtHome, ByPages
    <2> QED BY <2>6, <2>7 DEF OnbInv
  <1> QED BY <1>1, PageStep, RequestStep DEF OnbNext

THEOREM SetupInvariance == Spec => []OnbInv
  <1>1. OnbInv /\ [Next]_estVars => OnbInv'
    <2>1. OnbInv /\ UNCHANGED onbVars => OnbInv'
      BY DEF onbVars, OnbInv, OnbTyped, PagesAtHome, ByPages, AtHome, Rightful, Owns,
         Unaccounted, Coded
    <2>2. [Next]_estVars => OnbNext \/ UNCHANGED onbVars
      BY DEF Next, estVars, ClusterNext
    <2> QED BY <2>1, <2>2, OnbStep
  <1>2. Init => OnbInv
    BY OnbInitInv DEF Init
  <1> QED BY <1>1, <1>2, PTL DEF Spec

\* No step of a setup is written into a database of somebody else (AtHome).
THEOREM AlwaysAtHome == Spec => []AtHome
  BY SetupInvariance, PTL DEF OnbInv

-----------------------------------------------------------------------------
(* The archive shelf.                                                      *)

Archive(x) == x = [db |-> x.db, st |-> x.st, file |-> x.file, kept |-> x.kept, ver |-> x.ver,
                   shops |-> x.shops]

ShelfTyped ==
  /\ \E T : shelf \in Seq(T)
  /\ \A r \in Rows : Archive(shelf[r])
  /\ run = [on |-> run.on, todo |-> run.todo, row |-> run.row, at |-> run.at]
  /\ sweep = [on |-> sweep.on, old |-> sweep.old, spared |-> sweep.spared, row |-> sweep.row]
  /\ sweep.old \subseteq Rows /\ sweep.row \in Rows \cup {0, -1}

\* The archive being written is the last on the shelf, and no sweep has it in view.
Writing == run.on /\ run.at \in {"dump", "mark"}

RunIsLast ==
  Writing => /\ run.row = Len(shelf) /\ run.row \in Rows
             /\ shelf[run.row].kept /\ shelf[run.row].st = "begun"
             /\ run.row \notin sweep.old /\ run.row # sweep.row
             /\ run.at = "mark" => shelf[run.row].file

\* r is the newest good archive of d.
Top(d, r) == r \in GoodOf(d) /\ \A q \in GoodOf(d) : q <= r

\* The newest good archive has its file, and no sweep is about to take it.
TopStays ==
  \A d \in Databases, r \in Rows :
    Top(d, r) => /\ shelf[r].file /\ r # sweep.row
                 /\ sweep.row # -1 => r \notin sweep.old \ sweep.spared

OnceGood ==
  \A d \in Databases : (\E r \in Rows : shelf[r].db = d /\ shelf[r].st = "good") => GoodOf(d) # {}

ShelfInv == ShelfTyped /\ RunIsLast /\ TopStays /\ OnceGood

LEMMA ShelfInitInv == ArcInit => ShelfInv
  <1> SUFFICES ASSUME ArcInit PROVE ShelfInv
    OBVIOUS
  <1>1. shelf \in Seq({}) /\ Rows = {}
    BY DEF ArcInit, Rows
  <1>2. ~run.on /\ sweep.old = {} /\ sweep.row = 0
    BY DEF ArcInit, NoRun, NoSweep
  <1>3. ShelfTyped
    <2>1. /\ run = [on |-> run.on, todo |-> run.todo, row |-> run.row, at |-> run.at]
          /\ sweep = [on |-> sweep.on, old |-> sweep.old, spared |-> sweep.spared, row |-> sweep.row]
      BY DEF ArcInit, NoRun, NoSweep
    <2> QED BY <1>1, <1>2, <2>1 DEF ShelfTyped
  <1> QED BY <1>1, <1>2, <1>3 DEF ShelfInv, RunIsLast, Writing, TopStays, OnceGood

\* Of some rows one is the last.
LEMMA LastOf ==
  ASSUME ShelfTyped, NEW S \in SUBSET Rows, S # {} PROVE \E r \in S : \A q \in S : r >= q
  <1>1. Len(shelf) \in Nat
    BY LenProperties DEF ShelfTyped
  <1> DEFINE R == OpToRel(<, Nat)
             Age(r) == Len(shelf) - r
             T == {Age(r) : r \in S}
  <1>2. \A r \in S : r \in 1..Len(shelf)
    BY DEF Rows
  <1>3. T \subseteq Nat /\ T # {}
    BY <1>1, <1>2
  <1>4. IsWellFoundedOn(R, Nat)
    BY NatLessThanWellFounded, Zenon
  <1>5. PICK x \in T : \A y \in T : ~(<<y, x>> \in R)
    <2> HIDE DEF R, T
    <2> QED BY <1>3, <1>4, WFMin
  <1>6. \A y \in T : ~(y < x)
    BY <1>3, <1>5 DEF OpToRel
  <1>7. PICK r \in S : x = Age(r)
    BY <1>5
  <1>8. \A q \in S : ~(Age(q) < Age(r))
    BY <1>6, <1>7
  <1> QED BY <1>1, <1>2, <1>7, <1>8

\* Of good archives one is the newest.
LEMMA TopExists ==
  ASSUME ShelfTyped, NEW d, GoodOf(d) # {} PROVE \E r \in GoodOf(d) : Top(d, r)
  <1>1. GoodOf(d) \in SUBSET Rows
    BY DEF GoodOf
  <1>2. \A r \in Rows : r \in Int
    BY LenProperties DEF ShelfTyped, Rows
  <1> QED BY <1>1, <1>2, LastOf DEF Top

LEMMA TopIsSpared ==
  ASSUME ShelfTyped, NEW d \in Databases, NEW r \in Rows, Top(d, r) PROVE r \in Spared
  <1>1. Len(shelf) \in Nat
    BY LenProperties DEF ShelfTyped
  <1>2. \A q \in GoodOf(d) : q \in 1..Len(shelf)
    BY DEF GoodOf, Rows
  <1>3. Max(GoodOf(d)) = r
    BY <1>1, <1>2 DEF Top, Max
  <1> QED BY <1>3 DEF Spared, Top

-----------------------------------------------------------------------------
(* What a step writes on the shelf.                                        *)

\* A row is put at the end.
LEMMA RowPut ==
  ASSUME ShelfTyped, NEW x, Archive(x), shelf' = Append(shelf, x)
  PROVE  /\ \E T : shelf' \in Seq(T)
         /\ Len(shelf) \in Nat /\ Len(shelf') = Len(shelf) + 1 /\ shelf'[Len(shelf) + 1] = x
         /\ \A r \in Rows : shelf'[r] = shelf[r]
         /\ \A r \in Rows' : Archive(shelf'[r])
  <1>1. PICK T : shelf \in Seq(T)
    BY DEF ShelfTyped
  <1>2. Len(shelf) \in Nat /\ shelf \in [1..Len(shelf) -> T]
    BY <1>1, LenProperties
  <1>3. shelf \in Seq(T \cup {x})
    BY <1>1, <1>2, SeqDef
  <1>4. /\ Len(shelf') = Len(shelf) + 1 /\ shelf'[Len(shelf) + 1] = x
        /\ \A r \in Rows : shelf'[r] = shelf[r]
        /\ shelf' \in Seq(T \cup {x})
    BY <1>2, <1>3 DEF Rows
  <1>5. \A r \in Rows' : r \in Rows \/ r = Len(shelf) + 1
    BY <1>2, <1>4 DEF Rows
  <1>6. \A r \in Rows' : Archive(shelf'[r])
    BY <1>4, <1>5 DEF ShelfTyped
  <1> QED BY <1>2, <1>4, <1>6

\* A row is written.
LEMMA RowSet ==
  ASSUME ShelfTyped, NEW x, Archive(x), NEW i \in Rows, shelf' = [shelf EXCEPT ![i] = x]
  PROVE  /\ \E T : shelf' \in Seq(T)
         /\ Len(shelf) \in Nat /\ Len(shelf') = Len(shelf) /\ shelf'[i] = x
         /\ \A r \in Rows \ {i} : shelf'[r] = shelf[r]
         /\ \A r \in Rows' : Archive(shelf'[r])
  <1>1. PICK T : shelf \in Seq(T)
    BY DEF ShelfTyped
  <1>2. Len(shelf) \in Nat /\ shelf \in [1..Len(shelf) -> T] /\ i \in 1..Len(shelf)
    BY <1>1, LenProperties DEF Rows
  <1>3. shelf' \in [1..Len(shelf) -> T \cup {x}]
    BY <1>2
  <1>4. shelf' \in Seq(T \cup {x})
    BY <1>2, <1>3, SeqDef
  <1>5. Len(shelf') = Len(shelf)
    BY <1>2, <1>3, <1>4, LenProperties
  <1>6. shelf'[i] = x /\ \A r \in Rows \ {i} : shelf'[r] = shelf[r]
    BY <1>2 DEF Rows
  <1> QED BY <1>2, <1>4, <1>5, <1>6 DEF ShelfTyped, Rows

\* Where the rows keep what they are and who holds them.
LEMMA SameTops ==
  ASSUME Len(shelf') = Len(shelf),
         \A r \in Rows : /\ shelf'[r].db = shelf[r].db
                         /\ shelf'[r].kept <=> shelf[r].kept
                         /\ shelf'[r].st = "good" <=> shelf[r].st = "good"
  PROVE  /\ Rows' = Rows
         /\ \A d : GoodOf(d)' = GoodOf(d) /\ \A r : Top(d, r)' <=> Top(d, r)
         /\ OnceGood => OnceGood'
  <1>1. Rows' = Rows
    BY DEF Rows
  <1>2. \A d : GoodOf(d)' = GoodOf(d)
    BY <1>1 DEF GoodOf
  <1> QED BY <1>1, <1>2 DEF Top, OnceGood

\* Steps that leave the shelf alone.
LEMMA ShelfAlone ==
  ASSUME ShelfInv, UNCHANGED shelf,
         run' = [on |-> run'.on, todo |-> run'.todo, row |-> run'.row, at |-> run'.at],
         sweep' = [on |-> sweep'.on, old |-> sweep'.old, spared |-> sweep'.spared,
                   row |-> sweep'.row],
         Writing' => Writing /\ run'.row = run.row /\ run'.at = run.at,
         sweep'.old \subseteq Rows, sweep'.row \in {0, -1},
         Writing => sweep'.old \subseteq sweep.old \/ run.row \notin sweep'.old,
         sweep'.row # -1 =>
           \A d \in Databases, r \in Rows : Top(d, r) => r \notin sweep'.old \ sweep'.spared
  PROVE  ShelfInv'
  <1>1. /\ Rows' = Rows /\ \A d : \A r : Top(d, r)' <=> Top(d, r)
        /\ OnceGood'
    BY SameTops DEF ShelfInv
  <1>2. \A r \in Rows : r # 0 /\ r # -1
    BY DEF Rows
  <1>3. ShelfTyped'
    BY <1>1 DEF ShelfInv, ShelfTyped
  <1>4. RunIsLast'
    BY <1>1, <1>2 DEF ShelfInv, RunIsLast, Writing
  <1>5. TopStays'
    BY <1>1, <1>2 DEF ShelfInv, TopStays
  <1> QED BY <1>1, <1>3, <1>4, <1>5 DEF ShelfInv

LEMMA NoSweepIs == /\ NoSweep = [on |-> NoSweep.on, old |-> NoSweep.old, spared |-> NoSweep.spared,
                                 row |-> NoSweep.row]
                   /\ NoSweep.old = {} /\ NoSweep.row = 0
  BY DEF NoSweep

LEMMA NoRunIs == /\ NoRun = [on |-> NoRun.on, todo |-> NoRun.todo, row |-> NoRun.row,
                             at |-> NoRun.at]
                 /\ ~NoRun.on
  BY DEF NoRun

LEMMA ShelfQuiet == ASSUME ShelfInv, UNCHANGED <<shelf, run, sweep>> PROVE ShelfInv'
  BY DEF ShelfInv, ShelfTyped, RunIsLast, Writing, TopStays, OnceGood, Top, GoodOf, Rows

LEMMA RunInv ==
  ASSUME ShelfInv, StartBackup \/ EndBackup PROVE ShelfInv'
  <1>1. /\ run' = [on |-> run'.on, todo |-> run'.todo, row |-> run'.row, at |-> run'.at]
        /\ ~Writing' /\ UNCHANGED <<shelf, sweep>>
    BY NoRunIs DEF StartBackup, EndBackup, NoRun, Writing
  <1> QED BY <1>1 DEF ShelfInv, ShelfTyped, RunIsLast, TopStays, OnceGood, Top, GoodOf, Rows

LEMMA StopInv == ASSUME ShelfInv, Stop \/ ServerStops PROVE ShelfInv'
  <1>1. UNCHANGED shelf /\ (run' = NoRun \/ run' = run) /\ (sweep' = NoSweep \/ sweep' = sweep)
    BY DEF Stop, ServerStops
  <1>2. CASE sweep' = sweep
    <2>1. run' = [on |-> run'.on, todo |-> run'.todo, row |-> run'.row, at |-> run'.at]
          /\ (~Writing' \/ run' = run)
      BY <1>1, NoRunIs DEF Writing, ShelfInv, ShelfTyped
    <2> QED BY <1>1, <1>2, <2>1
            DEF ShelfInv, ShelfTyped, RunIsLast, Writing, TopStays, OnceGood, Top, GoodOf, Rows
  <1>3. CASE sweep' = NoSweep
    <2>1. run' = [on |-> run'.on, todo |-> run'.todo, row |-> run'.row, at |-> run'.at]
          /\ (~Writing' \/ run' = run)
      BY <1>1, NoRunIs DEF Writing, ShelfInv, ShelfTyped
    <2>2. Writing' => Writing /\ run'.row = run.row /\ run'.at = run.at
      BY <2>1 DEF Writing
    <2> QED BY <1>1, <1>3, <2>1, <2>2, NoSweepIs, ShelfAlone
  <1> QED BY <1>1, <1>2, <1>3

LEMMA SweepInv == ASSUME ShelfInv, StartPrune \/ Spare \/ EndPrune PROVE ShelfInv'
  <1>1. UNCHANGED <<shelf, run>> /\ (Writing' <=> Writing)
        /\ run' = [on |-> run'.on, todo |-> run'.todo, row |-> run'.row, at |-> run'.at]
    BY DEF StartPrune, Spare, EndPrune, Writing, ShelfInv, ShelfTyped
  <1>2. CASE StartPrune
    <2>1. PICK k \in Rows :
            /\ \A r \in 1..k : Ended(r)
            /\ sweep' = [NoSweep EXCEPT !.on = TRUE, !.old = {r \in 1..k : shelf[r].kept}, !.row = -1]
      BY <1>2 DEF StartPrune
    <2>2. PICK o : o = {r \in 1..k : shelf[r].kept}
      OBVIOUS
    <2>3. sweep' = [on |-> TRUE, old |-> o, spared |-> {}, row |-> -1]
      BY <2>1, <2>2 DEF NoSweep
    <2>4. Len(shelf) \in Nat
      BY LenProperties DEF ShelfInv, ShelfTyped
    <2>5. o \subseteq Rows /\ (Writing => run.row \notin o)
      BY <2>1, <2>2, <2>4 DEF Rows, Ended, Writing
    <2> QED BY <1>1, <2>3, <2>5, ShelfAlone
  <1>3. CASE Spare
    <2>1. PICK z : z = Spared
      OBVIOUS
    <2>2. sweep' = [sweep EXCEPT !.spared = z, !.row = 0]
      BY <1>3, <2>1 DEF Spare
    <2>3. sweep' = [on |-> sweep.on, old |-> sweep.old, spared |-> z, row |-> 0]
      BY <2>2 DEF ShelfInv, ShelfTyped
    <2>4. \A d \in Databases, r \in Rows : Top(d, r) => r \in z
      BY <2>1, TopIsSpared DEF ShelfInv
    <2>5. sweep.old \subseteq Rows
      BY DEF ShelfInv, ShelfTyped
    <2> QED BY <1>1, <2>3, <2>4, <2>5, ShelfAlone
  <1>4. CASE EndPrune
    <2>1. sweep' = NoSweep
      BY <1>4 DEF EndPrune
    <2> QED BY <1>1, <2>1, NoSweepIs, ShelfAlone
  <1> QED BY <1>2, <1>3, <1>4

LEMMA BeginRowInv == ASSUME ShelfInv, BeginRow PROVE ShelfInv'
  <1>1. PICK d, n :
          /\ n = Len(shelf) + 1
          /\ shelf' = Append(shelf, [db |-> d, st |-> "begun", file |-> FALSE, kept |-> TRUE,
                                     ver |-> 0, shops |-> Unmade.shops])
          /\ run' = [run EXCEPT !.todo = @ \ {d}, !.row = Len(shelf) + 1, !.at = "dump"]
    BY DEF BeginRow
  <1>2. PICK x : x = [db |-> d, st |-> "begun", file |-> FALSE, kept |-> TRUE,
                      ver |-> 0, shops |-> Unmade.shops]
    OBVIOUS
  <1>3. Archive(x) /\ x.st = "begun" /\ x.kept /\ ShelfTyped /\ UNCHANGED sweep /\ run.on
    BY <1>2 DEF Archive, BeginRow, ShelfInv
  <1>4. /\ \E T : shelf' \in Seq(T)
        /\ Len(shelf) \in Nat /\ Len(shelf') = n /\ shelf'[n] = x
        /\ \A r \in Rows : shelf'[r] = shelf[r]
        /\ \A r \in Rows' : Archive(shelf'[r])
    BY <1>1, <1>2, <1>3, RowPut
  <1>5. PICK y : y = run.todo \ {d}
    OBVIOUS
  <1>6. run' = [on |-> run.on, todo |-> y, row |-> n, at |-> "dump"]
    BY <1>1, <1>3, <1>5 DEF ShelfTyped
  <1>7. Rows' = Rows \cup {n} /\ n \notin Rows /\ n \in Nat /\ n # 0
    BY <1>1, <1>4 DEF Rows
  <1>8. ShelfTyped'
    BY <1>3, <1>4, <1>6, <1>7 DEF ShelfTyped
  <1>9. RunIsLast'
    BY <1>3, <1>4, <1>6, <1>7 DEF RunIsLast, Writing, ShelfTyped
  <1>10. \A c : GoodOf(c)' = GoodOf(c)
    BY <1>3, <1>4, <1>7 DEF GoodOf
  <1>11. TopStays' /\ OnceGood'
    <2>1. \A c : \A r : Top(c, r)' <=> Top(c, r)
      BY <1>10 DEF Top
    <2>2. \A c, r : Top(c, r) => r \in Rows
      BY DEF Top, GoodOf
    <2>3. TopStays'
      BY <1>3, <1>4, <2>1, <2>2 DEF ShelfInv, TopStays
    <2>4. OnceGood'
      BY <1>3, <1>4, <1>7, <1>10 DEF ShelfInv, OnceGood
    <2> QED BY <2>3, <2>4
  <1> QED BY <1>8, <1>9, <1>11 DEF ShelfInv

\* The run writes the row it is at.
LEMMA WritesRow ==
  ASSUME ShelfInv, Writing, NEW x, Archive(x), shelf' = [shelf EXCEPT ![run.row] = x],
         x.db = shelf[run.row].db, x.kept, x.st \in {"begun", "good", "bad"},
         x.st # "bad" => x.file, UNCHANGED sweep,
         run' = [run EXCEPT !.at = IF x.st = "begun" THEN "mark" ELSE "next"]
  PROVE  ShelfInv'
  <1>1. PICK w \in Rows : /\ w = run.row /\ w = Len(shelf) /\ shelf[w].kept
                         /\ shelf[w].st = "begun" /\ w \notin sweep.old /\ w # sweep.row
    BY DEF ShelfInv, RunIsLast
  <1>2. /\ \E T : shelf' \in Seq(T)
        /\ Len(shelf) \in Nat /\ Len(shelf') = Len(shelf) /\ shelf'[w] = x
        /\ \A r \in Rows \ {w} : shelf'[r] = shelf[r]
        /\ \A r \in Rows' : Archive(shelf'[r])
    BY <1>1, RowSet DEF ShelfInv
  <1>3. PICK at : at = IF x.st = "begun" THEN "mark" ELSE "next"
    OBVIOUS
  <1>4. run' = [on |-> run.on, todo |-> run.todo, row |-> w, at |-> at]
    BY <1>1, <1>3 DEF ShelfInv, ShelfTyped
  <1>5. Rows' = Rows /\ \A r \in Rows : r <= w
    BY <1>1, <1>2 DEF Rows
  <1>6. ShelfTyped'
    BY <1>2, <1>4, <1>5 DEF ShelfInv, ShelfTyped
  <1>7. RunIsLast'
    BY <1>1, <1>2, <1>3, <1>4, <1>5 DEF RunIsLast, Writing
  <1>8. CASE x.st # "good"
    <2>1. /\ \A d : \A r : Top(d, r)' <=> Top(d, r)
          /\ OnceGood'
      BY <1>1, <1>2, <1>8, SameTops DEF ShelfInv
    <2>2. \A d : ~Top(d, w)
      BY <1>1 DEF Top, GoodOf
    <2>3. TopStays'
      BY <1>2, <1>5, <2>1, <2>2 DEF ShelfInv, TopStays
    <2> QED BY <1>6, <1>7, <2>1, <2>3 DEF ShelfInv
  <1>9. CASE x.st = "good"
    <2>1. \A d : GoodOf(d)' = IF d = x.db THEN GoodOf(d) \cup {w} ELSE GoodOf(d)
      BY <1>1, <1>2, <1>5, <1>9 DEF GoodOf
    <2>2. \A d : \A r \in Rows : Top(d, r)' => (d = x.db /\ r = w) \/ (r # w /\ Top(d, r))
      <3>1. SUFFICES ASSUME NEW d, NEW r \in Rows, Top(d, r)'
                     PROVE  (d = x.db /\ r = w) \/ (r # w /\ Top(d, r))
        OBVIOUS
      <3>2. r \in Nat /\ w \in Nat /\ w \notin GoodOf(d) /\ r <= w
        BY <1>1, <1>2, <1>5 DEF Rows, GoodOf
      <3>3. CASE d = x.db
        <4>1. w \in GoodOf(d)'
          BY <2>1, <3>3
        <4> QED BY <3>1, <3>2, <3>3, <4>1 DEF Top
      <3>4. CASE d # x.db
        BY <2>1, <3>1, <3>2, <3>4 DEF Top
      <3> QED BY <3>3, <3>4
    <2>3. TopStays'
      BY <1>1, <1>2, <1>5, <1>9, <2>2 DEF ShelfInv, TopStays
    <2>4. OnceGood'
      BY <1>1, <1>2, <1>5, <2>1 DEF ShelfInv, OnceGood
    <2> QED BY <1>6, <1>7, <2>3, <2>4 DEF ShelfInv
  <1> QED BY <1>8, <1>9

LEMMA WritingInv == ASSUME ShelfInv, Dump \/ MarkGood \/ MarkBad PROVE ShelfInv'
  <1>1. UNCHANGED sweep /\ Writing
    BY DEF Dump, MarkGood, MarkBad, Writing
  <1>2. PICK w \in Rows :
          /\ w = run.row /\ shelf[w].kept /\ shelf[w].st = "begun"
          /\ run.at = "mark" => shelf[w].file
    BY <1>1 DEF ShelfInv, RunIsLast
  <1>3. Archive(shelf[w])
    BY DEF ShelfInv, ShelfTyped
  <1>4. CASE Dump
    <2>1. PICK h, v : h = base[shelf[w].db].shops /\ v = base[shelf[w].db].ver
      OBVIOUS
    <2>2. PICK x : x = [shelf[w] EXCEPT !.shops = h, !.ver = v, !.file = TRUE]
      OBVIOUS
    <2>3. Archive(x) /\ x.db = shelf[w].db /\ x.kept = shelf[w].kept /\ x.st = "begun" /\ x.file
      <3>1. PICK y : y = shelf[w] /\ Archive(y)
        BY <1>3
      <3>2. x = [y EXCEPT !.shops = h, !.ver = v, !.file = TRUE]
        BY <2>2, <3>1
      <3> QED BY <1>2, <3>1, <3>2 DEF Archive
    <2>4. shelf' = [shelf EXCEPT ![w] = x] /\ run' = [run EXCEPT !.at = "mark"]
      BY <1>2, <1>4, <2>1, <2>2 DEF Dump
    <2> QED BY <1>1, <1>2, <2>3, <2>4, WritesRow
  <1>5. CASE MarkGood
    <2>1. PICK x : x = [shelf[w] EXCEPT !.st = "good"]
      OBVIOUS
    <2>2. Archive(x) /\ x.db = shelf[w].db /\ x.kept = shelf[w].kept /\ x.st = "good" /\ x.file = shelf[w].file
      <3>1. PICK y : y = shelf[w] /\ Archive(y)
        BY <1>3
      <3>2. x = [y EXCEPT !.st = "good"]
        BY <2>1, <3>1
      <3> QED BY <1>2, <3>1, <3>2 DEF Archive
    <2>3. shelf' = [shelf EXCEPT ![w] = x] /\ run' = [run EXCEPT !.at = "next"] /\ run.at = "mark"
      BY <1>2, <1>5, <2>1 DEF MarkGood
    <2> QED BY <1>1, <1>2, <2>2, <2>3, WritesRow
  <1>6. CASE MarkBad
    <2>1. PICK x : x = [shelf[w] EXCEPT !.st = "bad"]
      OBVIOUS
    <2>2. Archive(x) /\ x.db = shelf[w].db /\ x.kept = shelf[w].kept /\ x.st = "bad"
      <3>1. PICK y : y = shelf[w] /\ Archive(y)
        BY <1>3
      <3>2. x = [y EXCEPT !.st = "bad"]
        BY <2>1, <3>1
      <3> QED BY <1>2, <3>1, <3>2 DEF Archive
    <2>3. shelf' = [shelf EXCEPT ![w] = x] /\ run' = [run EXCEPT !.at = "next"]
      BY <1>2, <1>6, <2>1 DEF MarkBad
    <2> QED BY <1>1, <1>2, <2>2, <2>3, WritesRow
  <1> QED BY <1>4, <1>5, <1>6

LEMMA UnlinkInv == ASSUME ShelfInv, Unlink PROVE ShelfInv'
  <1>1. /\ sweep.row = 0 /\ sweep.old \ sweep.spared # {} /\ UNCHANGED run
        /\ sweep.old \subseteq Rows /\ Len(shelf) \in Nat
    BY LenProperties DEF Unlink, ShelfInv, ShelfTyped
  <1>2. Max(sweep.old \ sweep.spared) \in sweep.old \ sweep.spared
    <2> DEFINE S == sweep.old \ sweep.spared
    <2>1. S \subseteq Rows /\ S # {}
      BY <1>1
    <2>2. \E r \in S : \A q \in S : r >= q
      <3> HIDE DEF S
      <3> QED BY <2>1, LastOf DEF ShelfInv
    <2> QED BY <2>2 DEF Max
  <1>3. PICK u \in Rows : /\ u \in sweep.old \ sweep.spared
                         /\ shelf' = [shelf EXCEPT ![u].file = FALSE]
                         /\ sweep' = [sweep EXCEPT !.old = @ \ {u}, !.row = u]
    BY <1>1, <1>2 DEF Unlink
  <1>4. PICK x, o : x = [shelf[u] EXCEPT !.file = FALSE] /\ o = sweep.old \ {u}
    OBVIOUS
  <1>5. /\ Archive(x) /\ x.db = shelf[u].db /\ x.kept = shelf[u].kept /\ x.st = shelf[u].st
    <2>1. PICK y : y = shelf[u] /\ Archive(y)
      BY DEF ShelfInv, ShelfTyped
    <2>2. x = [y EXCEPT !.file = FALSE]
      BY <1>4, <2>1
    <2> QED BY <2>1, <2>2 DEF Archive
  <1>6. /\ shelf' = [shelf EXCEPT ![u] = x]
        /\ sweep' = [on |-> sweep.on, old |-> o, spared |-> sweep.spared, row |-> u]
    BY <1>3, <1>4 DEF ShelfInv, ShelfTyped
  <1>7. /\ \E T : shelf' \in Seq(T)
        /\ Len(shelf') = Len(shelf) /\ shelf'[u] = x
        /\ \A r \in Rows \ {u} : shelf'[r] = shelf[r]
        /\ \A r \in Rows' : Archive(shelf'[r])
    BY <1>5, <1>6, RowSet DEF ShelfInv
  <1>8. /\ Rows' = Rows /\ \A d : \A r : Top(d, r)' <=> Top(d, r)
        /\ OnceGood'
    BY <1>5, <1>7, SameTops DEF ShelfInv
  <1>9. u # 0 /\ u # -1
    BY DEF Rows
  <1>10. ShelfTyped'
    BY <1>1, <1>4, <1>6, <1>7, <1>8 DEF ShelfInv, ShelfTyped
  <1>11. RunIsLast'
    BY <1>1, <1>3, <1>4, <1>6, <1>7, <1>8 DEF ShelfInv, RunIsLast, Writing
  <1>12. TopStays'
    <2>1. \A d \in Databases, r \in Rows : Top(d, r) => shelf[r].file /\ r \notin sweep.old \ sweep.spared
      BY <1>1 DEF ShelfInv, TopStays
    <2> QED BY <1>3, <1>4, <1>6, <1>7, <1>8, <2>1 DEF TopStays
  <1> QED BY <1>8, <1>10, <1>11, <1>12 DEF ShelfInv

LEMMA DeleteInv == ASSUME ShelfInv, DeleteRow PROVE ShelfInv'
  <1>1. PICK u \in Rows : u = sweep.row
    BY DEF DeleteRow, ShelfInv, ShelfTyped
  <1>2. UNCHANGED run /\ u \in Nat /\ Len(shelf) \in Nat
    BY LenProperties DEF DeleteRow, ShelfInv, ShelfTyped, Rows
  <1>3. PICK x : x = [shelf[u] EXCEPT !.kept = FALSE]
    OBVIOUS
  <1>4. Archive(x) /\ x.db = shelf[u].db /\ ~x.kept /\ x.st = shelf[u].st /\ x.file = shelf[u].file
    <2>1. PICK y : y = shelf[u] /\ Archive(y)
      BY DEF ShelfInv, ShelfTyped
    <2>2. x = [y EXCEPT !.kept = FALSE]
      BY <1>3, <2>1
    <2> QED BY <2>1, <2>2 DEF Archive
  <1>5. /\ shelf' = [shelf EXCEPT ![u] = x]
        /\ sweep' = [on |-> sweep.on, old |-> sweep.old, spared |-> sweep.spared, row |-> 0]
    BY <1>1, <1>3 DEF DeleteRow, ShelfInv, ShelfTyped
  <1>6. /\ \E T : shelf' \in Seq(T)
        /\ Len(shelf') = Len(shelf) /\ shelf'[u] = x
        /\ \A r \in Rows \ {u} : shelf'[r] = shelf[r]
        /\ \A r \in Rows' : Archive(shelf'[r])
    BY <1>4, <1>5, RowSet DEF ShelfInv
  <1>7. Rows' = Rows /\ \A d : GoodOf(d)' = GoodOf(d) \ {u}
    BY <1>4, <1>6 DEF Rows, GoodOf
  <1>8. \A d \in Databases : ~Top(d, u)
    BY <1>1 DEF ShelfInv, TopStays
  <1>9. \A d \in Databases : GoodOf(d) # {} => \E r \in GoodOf(d) : Top(d, r) /\ r # u
    BY <1>8, TopExists DEF ShelfInv
  <1>10. \A d \in Databases : \A r \in Rows : Top(d, r)' => Top(d, r) /\ r # u
    <2>1. SUFFICES ASSUME NEW d \in Databases, NEW r \in Rows, Top(d, r)' PROVE Top(d, r) /\ r # u
      OBVIOUS
    <2>2. r \in GoodOf(d) /\ r # u
      BY <1>7, <2>1 DEF Top
    <2>3. PICK t \in GoodOf(d) : Top(d, t) /\ t # u
      BY <1>9, <2>2
    <2>4. t <= r /\ r <= t /\ t \in Nat /\ r \in Nat
      <3>1. t \in GoodOf(d)'
        BY <1>7, <2>3
      <3>2. t <= r /\ r <= t
        BY <2>1, <2>2, <2>3, <3>1 DEF Top
      <3>3. t \in Rows
        BY <2>3 DEF Top, GoodOf
      <3> QED BY <1>2, <3>2, <3>3 DEF Rows
    <2> QED BY <2>2, <2>3, <2>4
  <1>11. ShelfTyped'
    BY <1>5, <1>6, <1>7, <1>2 DEF ShelfInv, ShelfTyped
  <1>12. RunIsLast'
    BY <1>1, <1>2, <1>5, <1>6, <1>7 DEF ShelfInv, RunIsLast, Writing, Rows
  <1>13. TopStays'
    <2>1. ASSUME NEW d \in Databases, NEW r \in Rows, Top(d, r)'
          PROVE  shelf'[r].file /\ r # 0 /\ r \notin sweep.old \ sweep.spared
      <3>1. Top(d, r) /\ r # u /\ r # 0 /\ sweep.row # -1
        BY <1>1, <1>2, <1>10, <2>1 DEF Rows
      <3> QED BY <1>6, <3>1 DEF ShelfInv, TopStays
    <2> QED BY <1>5, <1>7, <2>1 DEF TopStays
  <1>14. OnceGood'
    <2>1. \A d \in Databases : GoodOf(d) # {} => GoodOf(d)' # {}
      BY <1>7, <1>9
    <2> QED BY <1>4, <1>6, <1>7, <2>1 DEF ShelfInv, OnceGood
  <1> QED BY <1>11, <1>12, <1>13, <1>14 DEF ShelfInv

LEMMA ShelfStep == ShelfInv /\ ArcNext => ShelfInv'
  <1> SUFFICES ASSUME ShelfInv, ArcNext PROVE ShelfInv'
    OBVIOUS
  <1>1. CASE StartRestore \/ Restored \/ StartAdopt \/ EndAdopt
    BY <1>1, ShelfQuiet DEF StartRestore, Restored, StartAdopt, EndAdopt
  <1> QED BY <1>1, RunInv, StopInv, SweepInv, BeginRowInv, WritingInv, UnlinkInv, DeleteInv DEF ArcNext

THEOREM ShelfInvariance == Spec => []ShelfInv
  <1>1. ShelfInv /\ [Next]_estVars => ShelfInv'
    <2>1. [Next]_estVars => ArcNext \/ UNCHANGED <<shelf, run, sweep>>
      BY DEF Next, estVars, ClusterNext, clusterVars, arcVars
    <2> QED BY <2>1, ShelfQuiet, ShelfStep
  <1>2. Init => ShelfInv
    BY ShelfInitInv DEF Init
  <1> QED BY <1>1, <1>2, PTL DEF Spec

\* backup.js prune: whatever is listed, spared and removed while archives are begun, end well or
\* badly and are cut off, the last good archive of a database keeps its row and its file.
THEOREM LastGoodAlways == Spec => []LastGoodKept
  <1>1. ASSUME ShelfInv PROVE LastGoodKept
    <2>1. SUFFICES ASSUME NEW d \in Databases, GoodOf(d) # {} PROVE \E r \in GoodOf(d) : shelf[r].file
      BY <1>1 DEF ShelfInv, OnceGood, LastGoodKept
    <2>2. PICK r \in GoodOf(d) : Top(d, r)
      BY <1>1, <2>1, TopExists DEF ShelfInv
    <2>3. r \in Rows
      BY DEF GoodOf
    <2> QED BY <1>1, <2>2, <2>3 DEF ShelfInv, TopStays
  <1> QED BY <1>1, ShelfInvariance, PTL

-----------------------------------------------------------------------------
(* The cluster: the registry, its databases and the shelf.                 *)

BizRows == [st : {"none", "building", "failed", "live"}, db : Databases \cup {Pending}, ver : Nat]
Shelves == [Outlets -> Names \cup {NoName}]
Bases == [made : BOOLEAN, ver : Nat, shops : Shelves]
Building == {"create", "migrate", "live"}
Told == {"pass", "choose", "claim", "commit"}
Given == {"held", "upsert"} \cup Told
Under == {"id", "shell"} \cup Given
Jobs == [op : {"none", "build", "outlet"}, at : {"", "name", "lock"} \cup Building \cup Under,
         b : Ids \cup {0}, db : Databases \cup {Pending}, o : Outlets \cup {0},
         n : Names \cup {NoName}]
Fleet == [b : Ids, db : Databases \cup {Pending}, at : {"todo", "stamp"}]

BizTyped == biz \in [Ids -> BizRows]
BaseTyped == base \in [Databases -> Bases]
DirTyped == dir \in [Outlets -> Ids \cup {0}] /\ seq \in Nat
JobTyped == job \in [Workers -> Jobs]
SrvTyped == /\ srv \in [head : Nat, up : BOOLEAN, fleet : SUBSET Fleet, dark : BOOLEAN]
            /\ \A f \in srv.fleet : f.at = "stamp" => f.db \in Databases
ArcTyped ==
  /\ \A r \in Rows : shelf[r].db \in Databases /\ shelf[r].ver \in Nat /\ shelf[r].shops \in Shelves
  /\ run.todo \subseteq Databases
  /\ rest \in [on : BOOLEAN, row : Nat, into : Databases \cup {0}]

CluTyped == BizTyped /\ BaseTyped /\ DirTyped /\ JobTyped /\ SrvTyped /\ ArcTyped

HasDb(x) == \E b \in Ids : biz[b].db = x
\* x is some business's database, or was.
Known(x) == x \in moved \/ HasDb(x)

\* A row is given its own database first, and any other one only after somebody has left it.
Registry ==
  /\ \A b \in Ids : /\ biz[b].st = "none" => biz[b].db = Pending
                    /\ biz[b].st = "live" => biz[b].db # Pending
                    /\ biz[b].db \in Ids /\ biz[b].db # b => biz[b].db \in moved
  /\ \A b, c \in Ids : b # c /\ biz[b].db = biz[c].db /\ biz[b].db # Pending => biz[b].db \in moved

\* A build has a row to itself.
Builds(w) ==
  job[w].op = "build" =>
    /\ job[w].b \in Ids /\ biz[job[w].b].st = "building"
    /\ job[w].at = "name" => biz[job[w].b].db = Pending
    /\ job[w].at \in Building => biz[job[w].b].db = job[w].b
    /\ \A v \in Workers \ {w} : job[v].op = "build" => job[v].b # job[w].b

\* Who has the role lock, or has gone on without it.
Holds(w) == lock.by = w \/ w \in lock.bare

\* The outlet is b's in the directory, unless it was allocated while somebody registered it.
Homed(o, b) == dir[o] = b \/ o \in lock.loose

\* Who provisions knows whose the database is and whose the outlet, and has its role.
Provisions(w) ==
  job[w].op = "outlet" =>
    /\ job[w].db # Pending /\ Known(job[w].db)
    /\ job[w].at \in Under => Holds(w)
    /\ job[w].at \in {"shell"} \cup Given =>
         job[w].b \in Ids /\ (job[w].db \in moved \/ biz[job[w].b].db = job[w].db)
    /\ job[w].at \in Given => job[w].o \in Outlets
    /\ job[w].at = "upsert" => dir[job[w].o] = 0 \/ Homed(job[w].o, job[w].b)
    /\ job[w].at \in Told => Homed(job[w].o, job[w].b)
    /\ RoleHeld(w) => RoleFree(w)

JobsStand == \A w \in Workers : Builds(w) /\ Provisions(w)

\* A database that nobody was moved from has its own business's outlets, and so has whatever
\* was archived of it; and one that was never a business's has none.
Homes ==
  /\ \A b \in Ids : biz[b].db # Pending /\ biz[b].db \notin moved =>
        \A o \in Shops(biz[b].db) : Homed(o, b)
  /\ \A x \in Ids : ~Known(x) => Shops(x) = {}

ShelfHomes ==
  /\ \A r \in Rows : Known(shelf[r].db)
  /\ \A d \in run.todo : Known(d)
  /\ \A r \in Rows, b \in Ids : biz[b].db = shelf[r].db /\ shelf[r].db \notin moved =>
        \A o \in Outlets : shelf[r].shops[o] # NoName => Homed(o, b)

\* A restore is into a copy no business has had, or over what the archive is of.
RestHomes ==
  rest.on => /\ rest.row \in Rows
             /\ rest.into \in Copies => ~Known(rest.into)
             /\ rest.into \in Ids => shelf[rest.row].db = rest.into

CopiesMade == \A x \in Copies : Known(x) => base[x].made

\* A database has its row, or a good archive from which its row was moved.
Housed ==
  \A d \in Ids : base[d].made => HasDb(d) \/ \E r \in Rows : shelf[r].st = "good" /\ shelf[r].db = d

CluInv ==
  /\ ShelfInv /\ CluTyped /\ Registry /\ JobsStand
  /\ Homes /\ ShelfHomes /\ RestHomes /\ CopiesMade /\ Housed

LEMMA NotPending == 0 \notin Databases /\ 0 \notin Ids /\ 0 \notin Outlets /\ NoName \notin Names
  BY RegistryAssumption DEF Databases, Pending

LEMMA IdleIs ==
  Idle \in Jobs /\ Idle.op = "none" /\ Idle.at = "" /\ Idle.b = 0 /\ Idle.db = 0 /\ Idle.o = 0 /\ Idle.n = NoName
  BY DEF Idle, Jobs, Pending

LEMMA CluInitInv == BizInit /\ ArcInit => CluInv
  <1> SUFFICES ASSUME BizInit, ArcInit PROVE CluInv
    OBVIOUS
  <1>1. ShelfInv
    BY ShelfInitInv
  <1>2. 1 \in Ids /\ 1 \in Databases /\ 1 # Pending /\ 1 \in Outlets
    BY RegistryAssumption DEF Databases, Pending
  <1>3. Unknown \in BizRows /\ Unknown.st = "none" /\ Unknown.db = Pending
    BY DEF Unknown, BizRows
  <1>4. BizTyped /\ biz[1].db = 1 /\ biz[1].st = "live" /\ \A b \in Ids \ {1} : biz[b].st = "none" /\ biz[b].db = Pending
    <2>1. [st |-> "live", db |-> 1, ver |-> 1] \in BizRows
      BY <1>2 DEF BizRows
    <2> QED BY <1>2, <1>3, <2>1 DEF BizInit, BizTyped
  <1>5. BaseTyped /\ \A d \in Databases \ {1} : ~base[d].made /\ Shops(d) = {}
    <2>1. PICK n \in Names : n = CHOOSE x \in Names : TRUE
      BY RegistryAssumption
    <2>2. PICK s : s = [o \in Outlets |-> NoName]
      OBVIOUS
    <2>3. s \in Shelves /\ \A o \in Outlets : s[o] = NoName
      BY <2>2 DEF Shelves
    <2>4. PICK u, t, k :
            /\ u = [made |-> FALSE, ver |-> 0, shops |-> s]
            /\ t = [s EXCEPT ![1] = n]
            /\ k = [made |-> TRUE, ver |-> 1, shops |-> t]
      OBVIOUS
    <2>5. t \in Shelves /\ u = Unmade
      BY <2>1, <2>2, <2>3, <2>4 DEF Shelves, Unmade
    <2>6. u \in Bases /\ k \in Bases
      BY <2>3, <2>4, <2>5 DEF Bases
    <2>7. base = [d \in Databases |-> IF d = 1 THEN k ELSE u]
      <3>1. Unmade.shops = s
        BY <2>4, <2>5
      <3> QED BY <2>1, <2>4, <2>5, <3>1 DEF BizInit
    <2> QED BY <2>3, <2>4, <2>6, <2>7 DEF BaseTyped, Shops
  <1>6. DirTyped /\ dir[1] = 1
    BY <1>2 DEF BizInit, DirTyped
  <1>7. JobTyped /\ \A w \in Workers : job[w].op = "none"
    BY IdleIs DEF BizInit, JobTyped
  <1>8. SrvTyped
    BY DEF BizInit, SrvTyped
  <1>9. Rows = {} /\ run.todo = {} /\ ~rest.on /\ moved = {} /\ ArcTyped
    <2>1. Rows = {}
      BY DEF ArcInit, Rows
    <2> QED BY <2>1 DEF ArcInit, NoRun, NoRest, ArcTyped
  <1>10. Homes /\ Housed /\ CopiesMade
    <2>1. \A o \in Shops(1) : dir[o] = 1
      <3>1. \A o \in Outlets \ {1} : base[1].shops[o] = NoName
        <4>1. PICK n : n = CHOOSE x \in Names : TRUE
          OBVIOUS
        <4>2. base[1].shops = [Unmade.shops EXCEPT ![1] = n]
          BY <1>2, <4>1 DEF BizInit
        <4>3. Unmade.shops = [o \in Outlets |-> NoName]
          BY DEF Unmade
        <4> QED BY <4>2, <4>3
      <3> QED BY <1>6, <3>1 DEF Shops
    <2>2. 1 \notin Copies /\ \A x \in Copies : x \in Databases /\ x # Pending /\ ~HasDb(x)
      BY <1>2, <1>4, RegistryAssumption DEF Databases, HasDb
    <2>3. \A d \in Ids \ {1} : d \in Databases
      BY DEF Databases
    <2>4. HasDb(1)
      BY <1>2, <1>4 DEF HasDb
    <2>5. Homes
      BY <1>4, <1>5, <1>9, <2>1, <2>3, <2>4 DEF Homes, Known, Homed
    <2>6. Housed
      BY <1>5, <2>3, <2>4 DEF Housed
    <2> QED BY <1>9, <2>2, <2>5, <2>6 DEF CopiesMade, Known
  <1>11. Registry
    BY <1>2, <1>4, NotPending DEF Registry, Pending
  <1> QED BY <1>1, <1>4, <1>5, <1>6, <1>7, <1>8, <1>9, <1>10, <1>11
          DEF CluInv, CluTyped, JobsStand, Builds, Provisions, ShelfHomes, RestHomes

\* Of some businesses one has the least id.
LEMMA LeastId == ASSUME NEW S \in SUBSET Ids, S # {} PROVE Min(S) \in S
  <1> DEFINE R == OpToRel(<, Nat)
  <1>1. S \subseteq Nat
    BY RegistryAssumption
  <1>2. IsWellFoundedOn(R, Nat)
    BY NatLessThanWellFounded, Zenon
  <1>3. PICK x \in S : \A y \in S : ~(<<y, x>> \in R)
    <2> HIDE DEF R
    <2> QED BY <1>1, <1>2, WFMin
  <1>4. \A y \in S : ~(y < x)
    BY <1>1, <1>3 DEF OpToRel
  <1>5. \E z \in S : \A y \in S : z <= y
    BY <1>1, <1>4
  <1> QED BY <1>5 DEF Min

-----------------------------------------------------------------------------
(* What a step does to a worker's job.                                     *)

Only(w) == job' \in [Workers -> Jobs] /\ \A v \in Workers \ {w} : job'[v] = job[v]

LEMMA GoIs ==
  ASSUME JobTyped, NEW w \in Workers, NEW at \in {"lock"} \cup Building \cup Under,
         job' = Go(w, at)
  PROVE  /\ Only(w) /\ job'[w].op = job[w].op /\ job'[w].at = at /\ job'[w].b = job[w].b
         /\ job'[w].db = job[w].db /\ job'[w].o = job[w].o /\ job'[w].n = job[w].n
  <1>1. PICK j : j = job[w] /\ j \in Jobs
    BY DEF JobTyped
  <1>2. PICK k : k = [j EXCEPT !.at = at]
    OBVIOUS
  <1>3. /\ k \in Jobs /\ k.op = j.op /\ k.at = at /\ k.b = j.b /\ k.db = j.db /\ k.o = j.o /\ k.n = j.n
    BY <1>1, <1>2 DEF Jobs
  <1>4. job' = [job EXCEPT ![w] = k]
    BY <1>1, <1>2 DEF Go
  <1> QED BY <1>1, <1>3, <1>4 DEF JobTyped, Only

LEMMA GoWithB ==
  ASSUME JobTyped, NEW w \in Workers, NEW at \in {"lock"} \cup Building \cup Under, NEW b \in Ids,
         job' = [Go(w, at) EXCEPT ![w].b = b]
  PROVE  /\ Only(w) /\ job'[w].op = job[w].op /\ job'[w].at = at /\ job'[w].b = b
         /\ job'[w].db = job[w].db /\ job'[w].o = job[w].o
  <1>1. PICK j : j = job[w] /\ j \in Jobs
    BY DEF JobTyped
  <1>2. PICK k : k = [j EXCEPT !.at = at, !.b = b]
    OBVIOUS
  <1>3. /\ k \in Jobs /\ k.op = j.op /\ k.at = at /\ k.b = b /\ k.db = j.db /\ k.o = j.o
    BY <1>1, <1>2 DEF Jobs
  <1>4. job' = [job EXCEPT ![w] = k]
    BY <1>1, <1>2 DEF Go, JobTyped
  <1> QED BY <1>1, <1>3, <1>4 DEF JobTyped, Only

LEMMA GoWithO ==
  ASSUME JobTyped, NEW w \in Workers, NEW at \in {"lock"} \cup Building \cup Under, NEW o \in Outlets,
         job' = [Go(w, at) EXCEPT ![w].o = o]
  PROVE  /\ Only(w) /\ job'[w].op = job[w].op /\ job'[w].at = at /\ job'[w].b = job[w].b
         /\ job'[w].db = job[w].db /\ job'[w].o = o
  <1>1. PICK j : j = job[w] /\ j \in Jobs
    BY DEF JobTyped
  <1>2. PICK k : k = [j EXCEPT !.at = at, !.o = o]
    OBVIOUS
  <1>3. /\ k \in Jobs /\ k.op = j.op /\ k.at = at /\ k.b = j.b /\ k.db = j.db /\ k.o = o
    BY <1>1, <1>2 DEF Jobs
  <1>4. job' = [job EXCEPT ![w] = k]
    BY <1>1, <1>2 DEF Go, JobTyped
  <1> QED BY <1>1, <1>3, <1>4 DEF JobTyped, Only

LEMMA GoWithN ==
  ASSUME JobTyped, NEW w \in Workers, NEW at \in {"lock"} \cup Building \cup Under, NEW n \in Names,
         job' = [Go(w, at) EXCEPT ![w].n = n]
  PROVE  /\ Only(w) /\ job'[w].op = job[w].op /\ job'[w].at = at /\ job'[w].b = job[w].b
         /\ job'[w].db = job[w].db /\ job'[w].o = job[w].o
  <1>1. PICK j : j = job[w] /\ j \in Jobs
    BY DEF JobTyped
  <1>2. PICK k : k = [j EXCEPT !.at = at, !.n = n]
    OBVIOUS
  <1>3. /\ k \in Jobs /\ k.op = j.op /\ k.at = at /\ k.b = j.b /\ k.db = j.db /\ k.o = j.o
    BY <1>1, <1>2 DEF Jobs
  <1>4. job' = [job EXCEPT ![w] = k]
    BY <1>1, <1>2 DEF Go, JobTyped
  <1> QED BY <1>1, <1>3, <1>4 DEF JobTyped, Only

LEMMA DoneIs ==
  ASSUME JobTyped, NEW w \in Workers, job' = Done(w)
  PROVE  Only(w) /\ job'[w].op = "none"
  <1>1. job' = [job EXCEPT ![w] = Idle]
    BY DEF Done
  <1> QED BY <1>1, IdleIs DEF JobTyped, Only

\* What is written is only added to: a business leaves a database for good, and an outlet is
\* its business's for good.
Kept ==
  /\ moved \subseteq moved'
  /\ \A b \in Ids : biz[b].db # Pending => biz'[b].db = biz[b].db \/ biz[b].db \in moved'
  /\ \A o \in Outlets : dir[o] # 0 => dir'[o] = dir[o]

LEMMA KnownStays == ASSUME Kept, NEW x, x # Pending, Known(x) PROVE Known(x)'
  BY DEF Kept, Known, HasDb

\* The jobs the step is not about.
LEMMA OthersStand ==
  ASSUME CluTyped, JobsStand, Kept, NEW S \in SUBSET Workers,
         \A v \in Workers \ S : job'[v] = job[v],
         \A v \in Workers \ S : Holds(v) => Holds(v)', lock.loose \subseteq lock'.loose,
         \A v \in Workers \ S : Registering(v, job[v].o) =>
           dir'[job[v].o] = dir[job[v].o] \/ job[v].o \in lock'.loose,
         \A v \in Workers \ S : job[v].op = "build" =>
           /\ biz'[job[v].b].st = biz[job[v].b].st
           /\ biz'[job[v].b].db = biz[job[v].b].db,
         \A w \in S : Builds(w)' /\ Provisions(w)'
  PROVE  JobsStand'
  <1>1. ASSUME NEW v \in Workers \ S PROVE Builds(v)'
    <2>1. Builds(v) /\ job'[v] = job[v]
      BY DEF JobsStand
    <2>2. ASSUME NEW u \in Workers \ {v}, job'[v].op = "build", job'[u].op = "build" PROVE job'[u].b # job'[v].b
      <3>1. CASE u \in S
        <4>1. Builds(u)'
          BY <3>1
        <4> QED BY <2>2, <4>1 DEF Builds
      <3>2. CASE u \notin S
        BY <2>1, <2>2, <3>2 DEF Builds
      <3> QED BY <3>1, <3>2
    <2> QED BY <1>1, <2>1, <2>2 DEF Builds
  <1>2. ASSUME NEW v \in Workers \ S PROVE Provisions(v)'
    <2>1. Provisions(v) /\ job'[v] = job[v]
      BY DEF JobsStand
    <2> SUFFICES ASSUME job[v].op = "outlet" PROVE Provisions(v)'
      BY <2>1 DEF Provisions
    <2>2. Known(job[v].db)'
      BY <2>1, KnownStays DEF Provisions
    <2>3. \A b \in Ids : job[v].db \in moved \/ biz[b].db = job[v].db =>
            job[v].db \in moved' \/ biz'[b].db = job[v].db
      BY <2>1 DEF Kept, Provisions
    <2>4. job[v].at \in Under => Holds(v)'
      BY <2>1 DEF Provisions
    <2>5. RoleHeld(v)' => RoleFree(v)'
      <3> SUFFICES ASSUME RoleHeld(v)', NEW u \in Workers \ {v}, RoleHeld(u)' PROVE job'[u].o # job'[v].o
        BY DEF RoleFree
      <3>1. CASE u \in S
        <4>1. RoleFree(u)'
          BY <3>1 DEF Provisions, RoleHeld
        <4> QED BY <4>1 DEF RoleFree
      <3>2. CASE u \notin S
        <4>1. RoleHeld(u) /\ RoleHeld(v) /\ job'[u] = job[u]
          BY <2>1, <3>2 DEF RoleHeld
        <4> QED BY <2>1, <4>1 DEF Provisions, RoleFree
      <3> QED BY <3>1, <3>2
    <2>6. ASSUME NEW o \in Outlets, NEW b \in Ids, Homed(o, b) PROVE Homed(o, b)'
      BY <2>6, NotPending DEF Homed, Kept
    <2>7. job[v].at = "upsert" => dir'[job[v].o] = 0 \/ Homed(job[v].o, job[v].b)'
      <3> SUFFICES ASSUME job[v].at = "upsert" PROVE dir'[job[v].o] = 0 \/ Homed(job[v].o, job[v].b)'
        OBVIOUS
      <3>1. /\ job[v].o \in Outlets /\ job[v].b \in Ids
            /\ dir[job[v].o] = 0 \/ Homed(job[v].o, job[v].b)
        BY <2>1 DEF Provisions, Given
      <3>2. dir'[job[v].o] = dir[job[v].o] \/ job[v].o \in lock'.loose
        BY DEF Registering
      <3> QED BY <2>1, <2>6, <3>1, <3>2 DEF Homed
    <2>8. job[v].at \in Told => Homed(job[v].o, job[v].b)'
      BY <2>1, <2>6 DEF Provisions, Given, Told
    <2> QED BY <2>1, <2>2, <2>3, <2>4, <2>5, <2>7, <2>8 DEF Provisions, Homed
  <1> QED BY <1>1, <1>2 DEF JobsStand

LEMMA OneMoves ==
  ASSUME CluInv, Kept, NEW w \in Workers, Only(w),
         \A v \in Workers \ {w} : Holds(v) => Holds(v)', lock.loose \subseteq lock'.loose,
         \A v \in Workers \ {w} : Registering(v, job[v].o) =>
           dir'[job[v].o] = dir[job[v].o] \/ job[v].o \in lock'.loose,
         \A v \in Workers : v # w /\ job[v].op = "build" =>
           /\ biz'[job[v].b].st = biz[job[v].b].st
           /\ biz'[job[v].b].db = biz[job[v].b].db,
         Builds(w)', Provisions(w)'
  PROVE  JobsStand'
  <1>1. PICK S : S = {w}
    OBVIOUS
  <1>2. \A v \in Workers \ S : v # w /\ job'[v] = job[v]
    BY <1>1 DEF Only
  <1> QED BY <1>1, <1>2, OthersStand DEF CluInv

-----------------------------------------------------------------------------
(* Steps after which every row names the database it did, and the shelf is as it was.      *)

SameRows == moved' = moved /\ \A b \in Ids : biz'[b].db = biz[b].db

LEMMA SameKnown == ASSUME SameRows PROVE \A x : (HasDb(x)' <=> HasDb(x)) /\ (Known(x)' <=> Known(x))
  BY DEF SameRows, HasDb, Known

\* Where an outlet newly is, it is its business's, or nobody asks.
Fits ==
  \A d \in Databases, o \in Outlets :
    base'[d].shops[o] # NoName =>
      \/ base[d].shops[o] # NoName
      \/ (d \in Ids => Known(d)) /\ (d \notin moved => \A b \in Ids : biz[b].db = d => Homed(o, b)')

LEMMA SameOwners ==
  ASSUME CluInv, CluTyped', ShelfInv', Registry', JobsStand', RestHomes', SameRows,
         \A o \in Outlets : dir[o] # 0 => dir'[o] = dir[o], lock.loose \subseteq lock'.loose,
         \A d \in Databases : base[d].made => base'[d].made,
         \A d \in Ids : base'[d].made => base[d].made \/ HasDb(d),
         Fits, UNCHANGED shelf, run'.todo \subseteq run.todo
  PROVE  CluInv'
  <1>1. \A x : (HasDb(x)' <=> HasDb(x)) /\ (Known(x)' <=> Known(x))
    BY SameKnown
  <1>2. Rows' = Rows /\ \A b \in Ids : b # 0
    BY NotPending DEF Rows
  <1>3. Homes'
    <2>1. ASSUME NEW b \in Ids, NEW d \in Databases, biz[b].db = d, d \notin moved, d # Pending,
                 NEW o \in Outlets, base'[d].shops[o] # NoName
          PROVE  Homed(o, b)'
      <3>1. CASE base[d].shops[o] # NoName
        <4>1. Homed(o, b)
          BY <2>1, <3>1 DEF CluInv, Homes, Shops
        <4> QED BY <1>2, <4>1 DEF Homed
      <3> QED BY <2>1, <3>1 DEF Fits
    <2>3. ASSUME NEW b \in Ids, biz'[b].db # Pending, biz'[b].db \notin moved' PROVE \A o \in Shops(biz[b].db)' : Homed(o, b)'
      <3>1. biz[b].db \in Databases /\ biz[b].db = biz'[b].db /\ biz[b].db \notin moved
        BY <2>3 DEF SameRows, CluInv, CluTyped, BizTyped, BizRows
      <3> QED BY <2>1, <2>3, <3>1 DEF Shops
    <2>2. ASSUME NEW x \in Ids, ~Known(x) PROVE Shops(x)' = {}
      <3>1. x \in Databases
        BY DEF Databases
      <3>2. \A o \in Outlets : base[x].shops[o] = NoName
        BY <2>2 DEF CluInv, Homes, Shops
      <3> QED BY <2>2, <3>1, <3>2 DEF Fits, Shops
    <2> QED BY <1>1, <2>2, <2>3 DEF Homes
  <1>4. ShelfHomes'
    <2>1. \A r \in Rows, b \in Ids : biz[b].db = shelf[r].db /\ shelf[r].db \notin moved =>
            \A o \in Outlets : shelf[r].shops[o] # NoName => Homed(o, b)'
      BY <1>2 DEF CluInv, ShelfHomes, Homed
    <2> QED BY <1>1, <1>2, <2>1 DEF CluInv, ShelfHomes, SameRows
  <1>5. CopiesMade' /\ Housed'
    BY <1>1, <1>2 DEF CluInv, CopiesMade, Housed, Databases
  <1> QED BY <1>3, <1>4, <1>5 DEF CluInv

\* The registry's statuses, when no row takes another database.
LEMMA RegistryStays ==
  ASSUME Registry, SameRows,
         \A b \in Ids : \/ biz'[b].st = biz[b].st
                        \/ biz'[b].st \in {"building", "failed"}
                        \/ biz'[b].st = "live" /\ biz[b].db # Pending
  PROVE  Registry'
  BY DEF Registry, SameRows

LEMMA RestStays ==
  ASSUME RestHomes, SameRows, UNCHANGED shelf, rest' = rest \/ ~rest'.on
  PROVE  RestHomes'
  <1>1. \A x : Known(x)' <=> Known(x)
    BY SameKnown
  <1>2. Rows' = Rows
    BY DEF Rows
  <1> QED BY <1>1, <1>2 DEF RestHomes

\* Nothing but who asks what has changed.
LEMMA ClusterQuiet ==
  ASSUME CluInv, ShelfInv', UNCHANGED <<biz, base, dir, seq, job, lock, moved, shelf>>,
         SrvTyped', rest' = rest \/ rest' = NoRest, run'.todo \subseteq run.todo
  PROVE  CluInv'
  <1>1. SameRows /\ Rows' = Rows
    BY DEF SameRows, Rows
  <1>2. rest' = rest \/ ~rest'.on
    BY DEF NoRest
  <1>3. CluTyped'
    <2>1. rest' \in [on : BOOLEAN, row : Nat, into : Databases \cup {0}]
      <3>1. rest \in [on : BOOLEAN, row : Nat, into : Databases \cup {0}]
        BY DEF CluInv, CluTyped, ArcTyped
      <3>2. NoRest \in [on : BOOLEAN, row : Nat, into : Databases \cup {0}]
        BY DEF NoRest
      <3> QED BY <3>1, <3>2
    <2> QED BY <1>1, <2>1 DEF CluInv, CluTyped, BizTyped, BaseTyped, DirTyped, JobTyped, ArcTyped
  <1>4. Registry' /\ RestHomes'
    BY <1>1, <1>2, RegistryStays, RestStays DEF CluInv
  <1>5. JobsStand'
    BY DEF CluInv, JobsStand, Builds, Provisions, Known, HasDb, Holds, Homed, RoleHeld, RoleFree
  <1> QED BY <1>1, <1>3, <1>4, <1>5, SameOwners DEF Fits

\* One worker goes on, and nothing else is written but the lock and the sequence.
LEMMA JobMoves ==
  ASSUME CluInv, NEW w \in Workers, Only(w),
         UNCHANGED <<biz, base, dir, srv, arcVars>>, seq' \in Nat,
         \A v \in Workers \ {w} : Holds(v) => Holds(v)', lock.loose \subseteq lock'.loose,
         Builds(w)', Provisions(w)'
  PROVE  CluInv'
  <1>1. SameRows /\ Rows' = Rows /\ Kept
    BY DEF SameRows, Rows, Kept, arcVars
  <1>2. CluTyped' /\ Registry' /\ RestHomes'
    <2>1. Registry' /\ RestHomes'
      BY <1>1, RegistryStays, RestStays DEF CluInv, arcVars
    <2> QED BY <1>1, <2>1 DEF CluInv, CluTyped, BizTyped, BaseTyped, DirTyped, JobTyped, SrvTyped,
                              ArcTyped, Only, arcVars
  <1>3. ShelfInv'
    BY ShelfQuiet DEF CluInv, arcVars
  <1>4. JobsStand'
    <2>1. \A v \in Workers \ {w} : job'[v] = job[v]
      BY DEF Only
    <2> QED BY <1>1, <2>1, OneMoves
  <1> QED BY <1>1, <1>2, <1>3, <1>4, SameOwners DEF Fits, CluInv, arcVars

\* What is known of a worker that has something to do.
LEMMA AtWork ==
  ASSUME CluInv, NEW w \in Workers
  PROVE  /\ JobTyped /\ job[w] \in Jobs /\ Builds(w) /\ Provisions(w) /\ w # 0
         /\ seq \in Nat /\ dir \in [Outlets -> Ids \cup {0}]
  <1>1. w # 0
    BY RegistryAssumption
  <1> QED BY <1>1 DEF CluInv, CluTyped, JobTyped, JobsStand, DirTyped

\* Whoever is not the one who ends keeps the lock, or goes on without it.
LEMMA Released ==
  ASSUME NEW w \in Workers, lock' = Release(w)
  PROVE  lock.loose \subseteq lock'.loose /\ \A v \in Workers \ {w} : Holds(v) => Holds(v)'
  <1>1. lock' = [by |-> IF lock.by = w THEN 0 ELSE lock.by, bare |-> lock.bare \ {w},
                 loose |-> lock.loose]
    BY DEF Release
  <1>2. /\ lock'.by = IF lock.by = w THEN 0 ELSE lock.by
        /\ lock'.bare = lock.bare \ {w} /\ lock'.loose = lock.loose
    BY <1>1
  <1> QED BY <1>2 DEF Holds

LEMMA RollbackStep ==
  ASSUME CluInv, UNCHANGED arcVars, NEW w \in Workers, Rollback(w) PROVE CluInv'
  <1>1. Only(w) /\ job'[w].op = "none"
    BY AtWork, DoneIs DEF Rollback
  <1>2. lock.loose \subseteq lock'.loose /\ \A v \in Workers \ {w} : Holds(v) => Holds(v)'
    BY Released DEF Rollback
  <1> QED BY <1>1, <1>2, AtWork, JobMoves DEF Rollback, Builds, Provisions

\* Going on under the lock, with the same database, business and outlet.
LEMMA GoesOn ==
  ASSUME CluInv, NEW w \in Workers, job[w].op = "outlet", job[w].at \in Under,
         NEW at \in Given, job'[w].at = at, Only(w), job'[w].op = job[w].op,
         job'[w].b = job[w].b, job'[w].db = job[w].db, job'[w].o = job[w].o,
         job[w].at \in {"shell"} \cup Given, job[w].o \in Outlets,
         at = "upsert" => dir[job[w].o] = 0 \/ Homed(job[w].o, job[w].b),
         at \in Told => Homed(job[w].o, job[w].b), at # "held" => RoleFree(w),
         UNCHANGED <<biz, base, dir, srv, lock, arcVars>>, seq' \in Nat
  PROVE  CluInv'
  <1>1. \A x : Known(x)' <=> Known(x)
    BY DEF Known, HasDb, arcVars
  <1>2. Holds(w) /\ Holds(w)' /\ Provisions(w)
    BY AtWork DEF Provisions, Holds
  <1>3. Provisions(w)'
    <2>1. RoleHeld(w)' => RoleFree(w)'
      BY DEF RoleHeld, RoleFree, Only
    <2>2. \A o, b : Homed(o, b)' <=> Homed(o, b)
      BY DEF Homed
    <2> QED BY <1>1, <1>2, <2>1, <2>2 DEF Provisions, arcVars, Given, Under
  <1>4. Builds(w)'
    BY DEF Builds
  <1>5. lock.loose \subseteq lock'.loose /\ \A v \in Workers \ {w} : Holds(v) => Holds(v)'
    BY DEF Holds
  <1> QED BY <1>3, <1>4, <1>5, JobMoves

LEMMA ProvisionStep ==
  ASSUME CluInv, UNCHANGED arcVars, NEW w \in Workers,
         Provision(w) \/ TakeLock(w) \/ SkipLock(w) \/ LoseLock(w)
  PROVE  CluInv'
  <1>1. CASE Provision(w)
    <2>1. PICK b \in Ids, o \in Outlets \cup {0} :
            /\ biz[b].st = "live"
            /\ job' = [job EXCEPT ![w] = [Idle EXCEPT !.op = "outlet", !.at = "lock",
                                                      !.db = biz[b].db, !.o = o]]
      BY <1>1 DEF Provision
    <2>2. PICK d : d = biz[b].db
      OBVIOUS
    <2>3. d \in Databases \cup {Pending} /\ d # Pending /\ HasDb(d)
      BY <2>1, <2>2 DEF CluInv, CluTyped, BizTyped, BizRows, Registry, HasDb
    <2>4. PICK i : i = Idle
      OBVIOUS
    <2>5. PICK k : k = [i EXCEPT !.op = "outlet", !.at = "lock", !.db = d, !.o = o]
      OBVIOUS
    <2>6. /\ k \in Jobs /\ k.op = "outlet" /\ k.at = "lock" /\ k.db = d
          /\ job' = [job EXCEPT ![w] = k]
      <3>1. i \in Jobs
        BY <2>4, IdleIs
      <3>2. k \in Jobs /\ k.op = "outlet" /\ k.at = "lock" /\ k.db = d
        BY <2>3, <2>5, <3>1 DEF Jobs
      <3> QED BY <2>1, <2>2, <2>4, <2>5, <3>2
    <2>7. Only(w) /\ job'[w] = k
      BY <2>6, AtWork DEF Only, JobTyped
    <2>8. UNCHANGED <<biz, base, dir, seq, lock, srv>>
      BY <1>1 DEF Provision
    <2>9. Known(d)'
      BY <2>3, <2>8 DEF Known, HasDb, arcVars
    <2>10. Builds(w)' /\ Provisions(w)'
      BY <2>3, <2>6, <2>7, <2>9 DEF Builds, Provisions, Under, Given, Told, RoleHeld
    <2>11. lock.loose \subseteq lock'.loose /\ \A v \in Workers \ {w} : Holds(v) => Holds(v)'
      BY <2>8 DEF Holds
    <2> QED BY <2>7, <2>8, <2>10, <2>11, AtWork, JobMoves
  <1>2. CASE TakeLock(w) \/ SkipLock(w)
    <2>1. /\ job[w].op = "outlet" /\ job' = Go(w, "id") /\ UNCHANGED <<biz, base, dir, seq, srv>>
          /\ lock.loose \subseteq lock'.loose /\ Holds(w)'
          /\ \A v \in Workers \ {w} : Holds(v) => Holds(v)'
      <3>1. /\ job[w].op = "outlet" /\ job' = Go(w, "id") /\ UNCHANGED <<biz, base, dir, seq, srv>>
        BY <1>2 DEF TakeLock, SkipLock
      <3>2. CASE TakeLock(w)
        <4>1. lock.by = 0 /\ lock' = [by |-> w, bare |-> lock.bare, loose |-> lock.loose]
          BY <3>2 DEF TakeLock, LockFree
        <4>2. lock'.by = w /\ lock'.bare = lock.bare /\ lock'.loose = lock.loose
          BY <4>1
        <4>3. \A v \in Workers : v # 0
          BY AtWork
        <4> QED BY <3>1, <4>1, <4>2, <4>3 DEF Holds
      <3>3. CASE SkipLock(w)
        <4>1. lock' = [by |-> lock.by, bare |-> lock.bare \cup {w}, loose |-> lock.loose]
          BY <3>3 DEF SkipLock
        <4>2. lock'.by = lock.by /\ lock'.bare = lock.bare \cup {w} /\ lock'.loose = lock.loose
          BY <4>1
        <4> QED BY <3>1, <4>2 DEF Holds
      <3> QED BY <1>2, <3>2, <3>3
    <2>2. Only(w) /\ job'[w].op = "outlet" /\ job'[w].at = "id" /\ job'[w].db = job[w].db
      BY <2>1, AtWork, GoIs DEF Under
    <2>3. \A x : Known(x)' <=> Known(x)
      BY <2>1 DEF Known, HasDb, arcVars
    <2>4. Builds(w)' /\ Provisions(w)'
      BY <2>1, <2>2, <2>3, AtWork DEF Builds, Provisions, Under, Given, Told, RoleHeld
    <2> QED BY <2>1, <2>2, <2>4, AtWork, JobMoves
  <1>3. CASE LoseLock(w)
    <2>1. /\ UNCHANGED <<biz, base, dir, seq, srv, job>>
          /\ lock.by = w /\ lock' = [by |-> 0, bare |-> lock.bare \cup {w}, loose |-> lock.loose]
      BY <1>3 DEF LoseLock
    <2>2. lock'.by = 0 /\ lock'.bare = lock.bare \cup {w} /\ lock'.loose = lock.loose
      BY <2>1
    <2>3. lock.loose \subseteq lock'.loose /\ \A v \in Workers : Holds(v) => Holds(v)'
      BY <2>1, <2>2 DEF Holds
    <2>4. Only(w) /\ \A x : Known(x)' <=> Known(x)
      BY <2>1, AtWork DEF Known, HasDb, arcVars, Only, JobTyped
    <2>5. Builds(w)' /\ Provisions(w)'
      BY <2>1, <2>2, <2>3, <2>4, AtWork
         DEF Builds, Provisions, Homed, RoleHeld, RoleFree, arcVars
    <2> QED BY <2>1, <2>3, <2>4, <2>5, AtWork, JobMoves
  <1> QED BY <1>1, <1>2, <1>3

LEMMA HeldStep ==
  ASSUME CluInv, UNCHANGED arcVars, NEW w \in Workers,
         Held(w) \/ Pass(w) \/ Choose(w) \/ Claim(w) \/ ProvisionFails(w)
  PROVE  CluInv'
  <1>1. CASE Rollback(w)
    BY <1>1, RollbackStep
  <1>2. CASE Held(w) /\ ~Rollback(w)
    <2>1. /\ job[w].op = "outlet" /\ job[w].at = "held" /\ dir[job[w].o] \in {0, job[w].b}
          /\ RoleFree(w)
          /\ job' = Go(w, "upsert") /\ UNCHANGED <<biz, base, dir, seq, lock, srv>>
      BY <1>2 DEF Held
    <2>2. job[w].o \in Outlets /\ (dir[job[w].o] = 0 \/ Homed(job[w].o, job[w].b))
      BY <2>1, AtWork DEF Provisions, Given, Homed
    <2> QED BY <2>1, <2>2, AtWork, GoIs, GoesOn DEF Under, Given, Told
  <1>3. CASE Pass(w)
    <2>1. /\ job[w].op = "outlet" /\ job[w].at = "pass" /\ seq' = Max({seq + 1, job[w].o})
          /\ job' = Go(w, "choose") /\ UNCHANGED <<biz, base, dir, lock, srv>>
      BY <1>3 DEF Pass
    <2>2. job[w].o \in Outlets /\ Homed(job[w].o, job[w].b) /\ RoleFree(w)
      BY <2>1, AtWork DEF Provisions, Given, Told, RoleHeld
    <2>3. seq' \in Nat
      <3>1. job[w].o \in Nat /\ seq \in Nat
        BY <2>2, AtWork, RegistryAssumption
      <3>2. \E m \in {seq + 1, job[w].o} : \A y \in {seq + 1, job[w].o} : m >= y
        BY <3>1
      <3> QED BY <2>1, <3>1, <3>2 DEF Max
    <2> QED BY <2>1, <2>2, <2>3, AtWork, GoIs, GoesOn DEF Under, Given, Told
  <1>4. CASE Choose(w) /\ ~Rollback(w)
    <2>1. PICK n \in Names :
          /\ job[w].op = "outlet" /\ job[w].at = "choose"
          /\ job' = [Go(w, "claim") EXCEPT ![w].n = n] /\ UNCHANGED <<biz, base, dir, seq, lock, srv>>
      BY <1>4 DEF Choose
    <2>2. job[w].o \in Outlets /\ Homed(job[w].o, job[w].b) /\ RoleFree(w)
      BY <2>1, AtWork DEF Provisions, Given, Told, RoleHeld
    <2> QED BY <2>1, <2>2, AtWork, GoWithN, GoesOn DEF Under, Given, Told
  <1>5. CASE Claim(w) /\ ~Rollback(w)
    <2>1. /\ job[w].op = "outlet" /\ job[w].at = "claim"
          /\ job' = Go(w, "commit") /\ UNCHANGED <<biz, base, dir, seq, lock, srv>>
      BY <1>5 DEF Claim
    <2>2. job[w].o \in Outlets /\ Homed(job[w].o, job[w].b) /\ RoleFree(w)
      BY <2>1, AtWork DEF Provisions, Given, Told, RoleHeld
    <2> QED BY <2>1, <2>2, AtWork, GoIs, GoesOn DEF Under, Given, Told
  <1>6. CASE ProvisionFails(w)
    <2>1. Only(w) /\ job'[w].op = "none"
      BY <1>6, AtWork, DoneIs DEF ProvisionFails
    <2>2. lock.loose \subseteq lock'.loose /\ \A v \in Workers \ {w} : Holds(v) => Holds(v)'
      BY <1>6, Released DEF ProvisionFails
    <2> QED BY <1>6, <2>1, <2>2, AtWork, JobMoves DEF ProvisionFails, Builds, Provisions
  <1> QED BY <1>1, <1>2, <1>3, <1>4, <1>5, <1>6

\* The registry is told whose an outlet is that nobody had.
LEMMA Tells ==
  ASSUME CluInv, UNCHANGED <<biz, base, srv, arcVars>>, seq' \in Nat,
         NEW w \in Workers, Only(w), Builds(w)', Provisions(w)',
         \A v \in Workers \ {w} : Holds(v) => Holds(v)', lock.loose \subseteq lock'.loose,
         NEW o \in Outlets, NEW b \in Ids,
         dir[o] = 0 => dir' = [dir EXCEPT ![o] = b], dir[o] # 0 => dir' = dir,
         dir[o] = 0 => \A v \in Workers \ {w} : Registering(v, o) => o \in lock'.loose
  PROVE  CluInv'
  <1>1. /\ dir' \in [Outlets -> Ids \cup {0}]
        /\ \A q \in Outlets : dir[q] # 0 => dir'[q] = dir[q]
    BY AtWork
  <1>2. SameRows /\ Rows' = Rows /\ Kept
    BY <1>1 DEF SameRows, Rows, Kept, arcVars
  <1>3. CluTyped' /\ Registry' /\ RestHomes'
    <2>1. Registry' /\ RestHomes'
      BY <1>2, RegistryStays, RestStays DEF CluInv, arcVars
    <2> QED BY <1>1, <1>2, <2>1 DEF CluInv, CluTyped, BizTyped, BaseTyped, DirTyped, JobTyped,
                                    SrvTyped, ArcTyped, Only, arcVars
  <1>4. ShelfInv'
    BY ShelfQuiet DEF CluInv, arcVars
  <1>5. JobsStand'
    <2>1. ASSUME NEW v \in Workers \ {w}, Registering(v, job[v].o)
          PROVE  dir'[job[v].o] = dir[job[v].o] \/ job[v].o \in lock'.loose
      <3>1. job[v].o \in Outlets
        BY <2>1, AtWork DEF Registering, Provisions, Given
      <3>2. CASE job[v].o = o
        BY <2>1, <3>2
      <3>3. CASE job[v].o # o
        BY <3>1, <3>3, AtWork
      <3> QED BY <3>2, <3>3
    <2> QED BY <1>2, <2>1, OneMoves
  <1> QED BY <1>1, <1>2, <1>3, <1>4, <1>5, SameOwners DEF Fits, CluInv, arcVars

LEMMA TakeIdStep ==
  ASSUME CluInv, UNCHANGED arcVars, NEW w \in Workers, TakeId(w) PROVE CluInv'
  <1>1. /\ job[w].op = "outlet" /\ job[w].at = "shell" /\ Holds(w)
        /\ job[w].b \in Ids /\ job[w].o \in Outlets \cup {0}
        /\ UNCHANGED <<biz, base, srv>>
    BY AtWork DEF TakeId, Provisions, Under, Jobs
  <1>2. CASE job[w].o # 0
    <2>1. job' = Go(w, "held") /\ UNCHANGED <<dir, seq, lock>>
      BY <1>2 DEF TakeId
    <2> QED BY <1>1, <1>2, <2>1, AtWork, GoIs, GoesOn DEF Under, Given, Told
  <1>3. CASE job[w].o = 0
    <2>1. PICK o \in Outlets : o = seq + 1 /\ seq' = o
      BY <1>3 DEF TakeId
    <2>2. seq' \in Nat
      BY <2>1, RegistryAssumption
    <2>3. CASE dir[o] = 0
      <3>1. /\ dir' = [dir EXCEPT ![o] = job[w].b] /\ job' = [Go(w, "held") EXCEPT ![w].o = o]
            /\ lock' = [by |-> lock.by, bare |-> lock.bare, loose |-> lock.loose \cup Unseen(w, o)]
        BY <1>3, <2>1, <2>3 DEF TakeId
      <3>2. /\ Only(w) /\ job'[w].op = "outlet" /\ job'[w].at = "held" /\ job'[w].b = job[w].b
            /\ job'[w].db = job[w].db /\ job'[w].o = o
        BY <1>1, <3>1, AtWork, GoWithO DEF Under, Given
      <3>3. \A x : Known(x)' <=> Known(x)
        BY <1>1 DEF Known, HasDb, arcVars
      <3>4. /\ lock'.by = lock.by /\ lock'.bare = lock.bare
            /\ lock'.loose = lock.loose \cup Unseen(w, o)
        BY <3>1
      <3>5. \A v \in Workers : Holds(v) => Holds(v)'
        BY <3>4 DEF Holds
      <3>6. Builds(w)' /\ Provisions(w)'
        BY <1>1, <3>2, <3>3, <3>5, AtWork DEF Builds, Provisions, arcVars, Under, Given, Told, RoleHeld
      \* Two of them are past the lock, so one of the two is there without it.
      <3>7. ASSUME NEW v \in Workers \ {w}, Registering(v, o) PROVE o \in lock'.loose
        <4>1. Holds(v)
          BY <3>7, AtWork DEF Registering, Provisions, Under, Given
        <4>2. v \in lock.bare \/ w \in lock.bare
          BY <1>1, <4>1 DEF Holds
        <4>3. Unseen(w, o) = {o}
          BY <3>7, <4>2 DEF Unseen
        <4> QED BY <3>4, <4>3
      <3> QED BY <1>1, <2>2, <2>3, <3>1, <3>2, <3>4, <3>5, <3>6, <3>7, Tells
    <2>4. CASE dir[o] # 0
      <3>1. job' = Done(w) /\ lock' = Release(w) /\ UNCHANGED dir
        BY <1>3, <2>1, <2>4 DEF TakeId
      <3>2. Only(w) /\ job'[w].op = "none"
        BY <3>1, AtWork, DoneIs
      <3>3. lock.loose \subseteq lock'.loose /\ \A v \in Workers \ {w} : Holds(v) => Holds(v)'
        BY <3>1, Released
      <3> QED BY <1>1, <2>2, <3>1, <3>2, <3>3, JobMoves DEF Builds, Provisions
    <2> QED BY <2>3, <2>4
  <1> QED BY <1>2, <1>3

\* Nobody else registers the same outlet: the role is held.
LEMMA UpsertStep ==
  ASSUME CluInv, UNCHANGED arcVars, NEW w \in Workers, Upsert(w) PROVE CluInv'
  <1>1. /\ job[w].op = "outlet" /\ job[w].at = "upsert" /\ Holds(w) /\ job' = Go(w, "pass")
        /\ UNCHANGED <<biz, base, srv, seq, lock>>
    BY AtWork DEF Upsert, Provisions, Under, Given
  <1>2. PICK o \in Outlets, b \in Ids :
          o = job[w].o /\ b = job[w].b /\ (dir[o] = 0 \/ Homed(o, b))
    BY <1>1, AtWork DEF Provisions, Given
  <1>3. (dir[o] = 0 => dir' = [dir EXCEPT ![o] = b]) /\ (dir[o] # 0 => dir' = dir)
    <2>1. dir' = [dir EXCEPT ![o] = IF dir[o] = 0 THEN b ELSE dir[o]]
      BY <1>2 DEF Upsert
    <2> QED BY <1>2, <2>1, AtWork
  <1>4. /\ Only(w) /\ job'[w].op = "outlet" /\ job'[w].at = "pass" /\ job'[w].b = b
        /\ job'[w].db = job[w].db /\ job'[w].o = o
    BY <1>1, <1>2, AtWork, GoIs DEF Under, Given, Told
  <1>5. \A x : Known(x)' <=> Known(x)
    BY <1>1 DEF Known, HasDb, arcVars
  <1>6. Homed(o, b)'
    BY <1>1, <1>2, <1>3, AtWork DEF Homed
  <1>7. RoleFree(w) /\ RoleFree(w)'
    <2>1. RoleFree(w)
      BY <1>1, AtWork DEF Provisions, RoleHeld
    <2> QED BY <1>2, <1>4, <2>1 DEF RoleFree, RoleHeld, Only
  <1>8. Holds(w)' /\ \A v \in Workers : Holds(v) => Holds(v)'
    BY <1>1 DEF Holds
  <1>9. Builds(w)' /\ Provisions(w)'
    BY <1>1, <1>2, <1>4, <1>5, <1>6, <1>7, <1>8, AtWork
       DEF Builds, Provisions, arcVars, Under, Given, Told
  <1>10. \A v \in Workers \ {w} : ~Registering(v, o)
    BY <1>2, <1>7 DEF RoleFree, RoleHeld, Registering
  <1> QED BY <1>1, <1>2, <1>3, <1>4, <1>8, <1>9, <1>10, AtWork, Tells

\* businessForDb: a database without a row, which somebody was moved from, gets one.
LEMMA WhoseDbStep ==
  ASSUME CluInv, UNCHANGED arcVars, NEW w \in Workers, WhoseDb(w) PROVE CluInv'
  <1>1. PICK d : d = job[w].db /\ d # Pending /\ d \in Databases /\ Known(d)
    BY AtWork DEF WhoseDb, Provisions, Jobs
  <1>2. /\ job[w].op = "outlet" /\ job[w].at = "id" /\ Holds(w)
        /\ UNCHANGED <<base, dir, seq, lock, srv>>
        /\ lock.loose \subseteq lock'.loose /\ \A v \in Workers : Holds(v) => Holds(v)'
    BY AtWork DEF WhoseDb, Provisions, Under, Holds
  <1>3. CASE OwnersOf(d) # {}
    <2>1. PICK b \in Ids : b = Min(OwnersOf(d)) /\ biz[b].db = d
      <3>1. OwnersOf(d) \in SUBSET Ids
        BY DEF OwnersOf
      <3>2. Min(OwnersOf(d)) \in OwnersOf(d)
        BY <1>3, <3>1, LeastId
      <3> QED BY <3>2 DEF OwnersOf
    <2>2. job' = [Go(w, "shell") EXCEPT ![w].b = b] /\ UNCHANGED biz
      BY <1>1, <1>3, <2>1 DEF WhoseDb, BusinessForDb
    <2>3. /\ Only(w) /\ job'[w].op = "outlet" /\ job'[w].at = "shell" /\ job'[w].b = b
          /\ job'[w].db = d
      BY <1>1, <1>2, <2>2, AtWork, GoWithB DEF Under
    <2>4. Known(d)'
      BY <1>1, <2>2 DEF Known, HasDb, arcVars
    <2>5. Builds(w)' /\ Provisions(w)'
      BY <1>1, <1>2, <2>1, <2>2, <2>3, <2>4 DEF Builds, Provisions, Under, Given, Told, RoleHeld
    <2> QED BY <1>2, <2>2, <2>3, <2>5, AtWork, JobMoves
  <1>4. CASE OwnersOf(d) = {}
    <2>1. PICK b \in Ids : b = Min(Free) /\ biz[b].st = "none"
      <3>1. Free \in SUBSET Ids /\ Free # {}
        BY <1>1, <1>4 DEF WhoseDb, BusinessForDb, Free
      <3>2. Min(Free) \in Free
        BY <3>1, LeastId
      <3> QED BY <3>2 DEF Free
    <2>2. PICK r : r = [st |-> "live", db |-> d, ver |-> base[d].ver]
      OBVIOUS
    <2>3. job' = [Go(w, "shell") EXCEPT ![w].b = b] /\ biz' = [biz EXCEPT ![b] = r]
      BY <1>1, <1>4, <2>1, <2>2 DEF WhoseDb, BusinessForDb
    <2>4. ~HasDb(d) /\ d \in moved
      BY <1>1, <1>4 DEF OwnersOf, HasDb, Known, CluInv, Registry
    <2>5. r \in BizRows /\ r.st = "live" /\ r.db = d
      <3>1. base[d].ver \in Nat
        BY <1>1 DEF CluInv, CluTyped, BaseTyped, Bases
      <3> QED BY <1>1, <2>2, <3>1 DEF BizRows
    <2>6. BizTyped' /\ biz'[b] = r /\ biz[b].db = Pending /\ \A c \in Ids \ {b} : biz'[c] = biz[c]
      BY <2>1, <2>3, <2>5 DEF CluInv, CluTyped, BizTyped, Registry
    <2>7. /\ Only(w) /\ job'[w].op = "outlet" /\ job'[w].at = "shell" /\ job'[w].b = b
          /\ job'[w].db = d
      BY <1>1, <1>2, <2>3, AtWork, GoWithB DEF Under
    <2>8. Kept /\ UNCHANGED <<moved, shelf, run, sweep, rest>> /\ Rows' = Rows
      BY <1>2, <2>6 DEF Kept, arcVars, Rows
    <2>9. \A x : x # Pending => (Known(x)' <=> Known(x)) /\ (x # d => (HasDb(x)' <=> HasDb(x)))
      BY <2>4, <2>5, <2>6, <2>8 DEF Known, HasDb
    <2>10. Registry'
      <3>1. Registry
        BY DEF CluInv
      <3> QED BY <1>1, <2>4, <2>5, <2>6, <2>8, <3>1 DEF Registry
    <2>11. JobsStand'
      <3>1. Builds(w)' /\ Provisions(w)'
        BY <1>1, <1>2, <2>4, <2>5, <2>6, <2>7, <2>8, <2>9
           DEF Builds, Provisions, Under, Given, Told, RoleHeld
      <3>2. \A v \in Workers \ {w} : job'[v] = job[v] /\ dir'[job[v].o] = dir[job[v].o]
        BY <1>2, <2>7 DEF Only
      <3>3. \A v \in Workers \ {w} : job[v].op = "build" => job[v].b # b /\ job[v].b \in Ids
        BY <2>1, AtWork DEF Builds
      <3> QED BY <1>2, <2>6, <2>7, <2>8, <3>1, <3>2, <3>3, OneMoves
    <2>12. CluTyped' /\ ShelfInv'
      <3>1. ShelfInv'
        BY <2>8, ShelfQuiet DEF CluInv
      <3> QED BY <1>2, <2>6, <2>7, <2>8, <3>1 DEF CluInv, CluTyped, BaseTyped, DirTyped, JobTyped,
                                                   SrvTyped, ArcTyped, Only
    <2>13. Homes' /\ CopiesMade' /\ Housed'
      <3>1. ~(b \in Ids /\ biz'[b].db \notin moved')
        BY <2>4, <2>5, <2>6, <2>8
      <3>2. \A x : Shops(x)' = Shops(x)
        BY <1>2 DEF Shops
      <3>3. Homes'
        BY <1>2, <2>6, <2>8, <2>9, <3>1, <3>2, NotPending DEF CluInv, Homes, Pending, Homed
      <3>4. CopiesMade' /\ Housed'
        <4>1. \A x \in Copies \cup Ids : x # Pending
          BY RegistryAssumption DEF Pending
        <4>2. HasDb(d)'
          BY <2>5, <2>6 DEF HasDb
        <4> QED BY <1>2, <2>8, <2>9, <4>1, <4>2 DEF CluInv, CopiesMade, Housed
      <3> QED BY <3>3, <3>4
    <2>14. ShelfHomes' /\ RestHomes'
      <3>1. \A x \in Databases : x # Pending
        BY NotPending DEF Pending
      <3>2. ShelfHomes'
        BY <1>2, <2>4, <2>5, <2>6, <2>8, <2>9, <3>1 DEF CluInv, CluTyped, ArcTyped, ShelfHomes, Homed
      <3>3. RestHomes'
        BY <2>8, <2>9, <3>1 DEF CluInv, RestHomes, Databases
      <3> QED BY <3>2, <3>3
    <2> QED BY <2>10, <2>11, <2>12, <2>13, <2>14 DEF CluInv
  <1> QED BY <1>3, <1>4

\* A database is written, and perhaps the registry's status of its business.
LEMMA DatabaseWritten ==
  ASSUME CluInv, UNCHANGED <<dir, seq, arcVars>>, BizTyped', BaseTyped', SrvTyped',
         \A b \in Ids : biz'[b].db = biz[b].db, Registry', JobsStand', JobTyped',
         lock.loose \subseteq lock'.loose,
         \A d \in Databases : base[d].made => base'[d].made,
         \A d \in Ids : base'[d].made => base[d].made \/ HasDb(d),
         Fits
  PROVE  CluInv'
  <1>1. SameRows /\ Rows' = Rows
    BY DEF SameRows, Rows, arcVars
  <1>2. CluTyped' /\ RestHomes' /\ ShelfInv'
    <2>1. RestHomes' /\ ShelfInv'
      BY <1>1, RestStays, ShelfQuiet DEF CluInv, arcVars
    <2> QED BY <1>1, <2>1 DEF CluInv, CluTyped, DirTyped, ArcTyped, arcVars
  <1> QED BY <1>1, <1>2, SameOwners DEF CluInv, arcVars

LEMMA CommitStep ==
  ASSUME CluInv, UNCHANGED arcVars, NEW w \in Workers, Commit(w) PROVE CluInv'
  <1>1. /\ job[w].op = "outlet" /\ job[w].at = "commit" /\ job' = Done(w)
        /\ lock' = Release(w) /\ UNCHANGED <<biz, dir, seq, srv>>
    BY AtWork DEF Commit, Provisions, Under, Given, Told
  <1>2. PICK d \in Databases, o \in Outlets, b \in Ids, n \in Names \cup {NoName} :
          /\ d = job[w].db /\ o = job[w].o /\ b = job[w].b /\ n = job[w].n
          /\ Known(d) /\ Homed(o, b) /\ (d \in moved \/ biz[b].db = d) /\ d # Pending
    BY <1>1, AtWork DEF Provisions, Given, Told, Jobs
  <1>3. base' = [base EXCEPT ![d].shops[o] = n]
    BY <1>2 DEF Commit
  <1>4. /\ BaseTyped' /\ \A x \in Databases : base'[x].made = base[x].made
        /\ \A x \in Databases, q \in Outlets :
             base'[x].shops[q] = IF x = d /\ q = o THEN n ELSE base[x].shops[q]
    <2>1. PICK k, s : k = base[d] /\ s = k.shops
      OBVIOUS
    <2>2. k \in Bases /\ s \in Shelves
      BY <2>1 DEF CluInv, CluTyped, BaseTyped, Bases
    <2>3. PICK t, l : t = [s EXCEPT ![o] = n] /\ l = [k EXCEPT !.shops = t]
      OBVIOUS
    <2>4. /\ t \in Shelves /\ l \in Bases /\ l.made = k.made /\ l.shops = t
          /\ \A q \in Outlets : t[q] = IF q = o THEN n ELSE s[q]
      BY <2>2, <2>3 DEF Bases, Shelves
    <2>5. base' = [base EXCEPT ![d] = l]
      BY <1>3, <2>1, <2>3
    <2> QED BY <2>1, <2>4, <2>5 DEF CluInv, CluTyped, BaseTyped
  <1>5. Fits
    <2>1. lock'.loose = lock.loose
      BY <1>1 DEF Release
    <2>2. Homed(o, b)'
      BY <1>1, <1>2, <2>1 DEF Homed
    <2> QED BY <1>1, <1>2, <1>4, <2>2 DEF Fits, CluInv, Registry
  <1>6. Only(w) /\ job'[w].op = "none"
    BY <1>1, AtWork, DoneIs
  <1>7. Kept /\ SameRows /\ \A v \in Workers \ {w} : job'[v] = job[v]
    BY <1>1, <1>6 DEF Kept, SameRows, Only, arcVars
  <1>10. lock.loose \subseteq lock'.loose /\ \A v \in Workers \ {w} : Holds(v) => Holds(v)'
    BY <1>1, Released
  <1>8. JobsStand' /\ JobTyped'
    <2>1. Builds(w)' /\ Provisions(w)'
      BY <1>6 DEF Builds, Provisions
    <2>2. JobsStand'
      BY <1>1, <1>6, <1>7, <1>10, <2>1, OneMoves
    <2> QED BY <1>6, <2>2 DEF JobTyped, Only
  <1>9. Registry' /\ BizTyped' /\ SrvTyped'
    BY <1>1, <1>7, RegistryStays DEF CluInv, CluTyped, BizTyped, SrvTyped
  <1> QED BY <1>1, <1>4, <1>5, <1>8, <1>9, <1>10, DatabaseWritten DEF Databases

\* A step by which one build goes on or ends, and its row keeps its database.
LEMMA BuildMoves ==
  ASSUME CluInv, UNCHANGED <<dir, seq, lock, srv, arcVars>>, NEW w \in Workers, Only(w),
         job[w].op = "build", NEW b \in Ids, b = job[w].b,
         NEW r \in BizRows, biz' = [biz EXCEPT ![b] = r], r.db = biz[b].db, r.db = b,
         r.st \in {"building", "failed", "live"},
         \/ job'[w].op = "none"
         \/ /\ r.st = "building" /\ job'[w].op = "build" /\ job'[w].b = b
            /\ job'[w].at \in Building,
         BaseTyped', Fits,
         \A d \in Databases : base[d].made => base'[d].made,
         \A d \in Databases : base'[d].made => base[d].made \/ d = b
  PROVE  CluInv'
  <1>1. /\ BizTyped' /\ biz'[b] = r /\ \A c \in Ids \ {b} : biz'[c] = biz[c]
        /\ SameRows /\ Kept /\ HasDb(b) /\ b # Pending
    BY NotPending DEF CluInv, CluTyped, BizTyped, SameRows, Kept, HasDb, arcVars, Pending
  <1>2. Registry'
    <2>1. Registry
      BY DEF CluInv
    <2> QED BY <1>1, <2>1, RegistryStays
  <1>3. \A v \in Workers \ {w} : job[v].op = "build" => job[v].b # b /\ job[v].b \in Ids
    BY AtWork DEF Builds
  <1>4. JobsStand' /\ JobTyped'
    <2>1. Builds(w)' /\ Provisions(w)'
      BY <1>1, <1>3 DEF Builds, Provisions, Only, Building
    <2>2. \A v \in Workers \ {w} : job'[v] = job[v]
      BY DEF Only
    <2>3. \A v \in Workers \ {w} : job[v].op = "build" =>
            biz'[job[v].b].st = biz[job[v].b].st /\ biz'[job[v].b].db = biz[job[v].b].db
      BY <1>1, <1>3
    <2>4. JobsStand /\ CluTyped /\ dir' = dir /\ lock.loose \subseteq lock'.loose
          /\ \A v \in Workers : Holds(v) => Holds(v)'
      BY DEF CluInv, Holds
    <2>5. JobsStand'
      BY <1>1, <2>1, <2>2, <2>3, <2>4, OneMoves
    <2> QED BY <2>5 DEF JobTyped, Only
  <1>5. SrvTyped'
    BY DEF CluInv, CluTyped, SrvTyped
  <1> QED BY <1>1, <1>2, <1>4, <1>5, DatabaseWritten DEF Databases, SameRows

LEMMA BuildingStep ==
  ASSUME CluInv, UNCHANGED arcVars, NEW w \in Workers,
         CreateDatabase(w) \/ MigrateNew(w) \/ GoLive(w) \/ BuildFails(w)
  PROVE  CluInv'
  <1>1. PICK b \in Ids : b = job[w].b /\ biz[b].db = b /\ b \in Databases /\ biz[b].st = "building"
    BY AtWork DEF CreateDatabase, MigrateNew, GoLive, BuildFails, Builds, Building, Databases
  <1>2. PICK r \in BizRows : r = biz[b]
    BY DEF CluInv, CluTyped, BizTyped
  <1>3. PICK k \in Bases : k = base[b]
    BY <1>1 DEF CluInv, CluTyped, BaseTyped
  <1>4. UNCHANGED <<dir, seq, lock, srv>> /\ job[w].op = "build"
    BY DEF CreateDatabase, MigrateNew, GoLive, BuildFails
  <1>5. UNCHANGED biz => biz' = [biz EXCEPT ![b] = r]
    BY <1>2 DEF CluInv, CluTyped, BizTyped
  <1>6. UNCHANGED base => BaseTyped' /\ Fits
    BY DEF CluInv, CluTyped, BaseTyped, Fits
  <1>7. ASSUME NEW l \in Bases, l.shops = k.shops, base' = [base EXCEPT ![b] = l], k.made => l.made
        PROVE  /\ BaseTyped' /\ Fits
               /\ \A d \in Databases : base[d].made => base'[d].made
               /\ \A d \in Databases : base'[d].made => base[d].made \/ d = b
    BY <1>1, <1>3, <1>7 DEF CluInv, CluTyped, BaseTyped, Fits
  <1>8. CASE CreateDatabase(w)
    <2>1. PICK l : l = [k EXCEPT !.made = TRUE]
      OBVIOUS
    <2>2. l \in Bases /\ l.shops = k.shops /\ l.made
      BY <1>3, <2>1 DEF Bases
    <2>3. base' = [base EXCEPT ![b] = l]
      BY <1>1, <1>3, <1>8, <2>1 DEF CreateDatabase
    <2>4. job' = Go(w, "migrate") /\ UNCHANGED biz
      BY <1>8 DEF CreateDatabase
    <2>5. Only(w) /\ job'[w].op = "build" /\ job'[w].at = "migrate" /\ job'[w].b = b
      BY <1>1, <1>4, <2>4, AtWork, GoIs DEF Building
    <2>6. biz' = [biz EXCEPT ![b] = r] /\ r.st = "building" /\ r.db = b
      BY <1>1, <1>2, <1>5, <2>4
    <2> QED BY <1>1, <1>4, <1>7, <2>2, <2>3, <2>5, <2>6, BuildMoves DEF Building
  <1>9. CASE MigrateNew(w)
    <2>1. PICK l : l = [k EXCEPT !.ver = srv.head]
      OBVIOUS
    <2>2. l \in Bases /\ l.shops = k.shops /\ l.made = k.made
      <3>1. srv.head \in Nat
        BY DEF CluInv, CluTyped, SrvTyped
      <3> QED BY <1>3, <2>1, <3>1 DEF Bases
    <2>3. base' = [base EXCEPT ![b] = l]
      BY <1>1, <1>3, <1>9, <2>1 DEF MigrateNew
    <2>4. job' = Go(w, "live") /\ UNCHANGED biz
      BY <1>9 DEF MigrateNew
    <2>5. Only(w) /\ job'[w].op = "build" /\ job'[w].at = "live" /\ job'[w].b = b
      BY <1>1, <1>4, <2>4, AtWork, GoIs DEF Building
    <2>6. biz' = [biz EXCEPT ![b] = r] /\ r.st = "building" /\ r.db = b
      BY <1>1, <1>2, <1>5, <2>4
    <2> QED BY <1>1, <1>4, <1>7, <2>2, <2>3, <2>5, <2>6, BuildMoves DEF Building
  <1>10. CASE GoLive(w)
    <2>1. PICK q : q = [st |-> "live", db |-> b, ver |-> base[b].ver]
      OBVIOUS
    <2>2. q \in BizRows /\ q.st = "live" /\ q.db = b
      BY <1>1, <1>3, <2>1 DEF BizRows, Bases
    <2>3. biz' = [biz EXCEPT ![b] = q] /\ UNCHANGED base /\ job' = Done(w)
      BY <1>1, <1>10, <2>1 DEF GoLive
    <2>4. Only(w) /\ job'[w].op = "none"
      BY <2>3, AtWork, DoneIs
    <2> QED BY <1>1, <1>4, <1>6, <2>2, <2>3, <2>4, BuildMoves
  <1>11. CASE BuildFails(w)
    <2>1. PICK q : q = [r EXCEPT !.st = "failed"]
      OBVIOUS
    <2>2. q \in BizRows /\ q.st = "failed" /\ q.db = r.db
      BY <1>2, <2>1 DEF BizRows
    <2>3. biz' = [biz EXCEPT ![b] = q] /\ UNCHANGED base /\ job' = Done(w)
      BY <1>1, <1>2, <1>11, <2>1 DEF BuildFails
    <2>4. Only(w) /\ job'[w].op = "none"
      BY <2>3, AtWork, DoneIs
    <2> QED BY <1>1, <1>2, <1>4, <1>6, <2>2, <2>3, <2>4, BuildMoves
  <1> QED BY <1>8, <1>9, <1>10, <1>11

LEMMA RegisterStep ==
  ASSUME CluInv, UNCHANGED arcVars, NEW w \in Workers, Register(w) PROVE CluInv'
  <1>1. PICK b \in Ids : b = Min(Free) /\ biz[b].st = "none"
    <2>1. Free \in SUBSET Ids /\ Free # {}
      BY DEF Register, Free
    <2>2. Min(Free) \in Free
      BY <2>1, LeastId
    <2> QED BY <2>2 DEF Free
  <1>2. PICK r, i : r = [st |-> "building", db |-> Pending, ver |-> 0] /\ i = Idle
    OBVIOUS
  <1>3. PICK k : k = [i EXCEPT !.op = "build", !.at = "name", !.b = b]
    OBVIOUS
  <1>4. r \in BizRows /\ r.st = "building" /\ r.db = Pending
    BY <1>2 DEF BizRows
  <1>5. k \in Jobs /\ k.op = "build" /\ k.at = "name" /\ k.b = b
    <2>1. i \in Jobs
      BY <1>2, IdleIs
    <2> QED BY <1>3, <2>1 DEF Jobs
  <1>6. /\ biz' = [biz EXCEPT ![b] = r] /\ job' = [job EXCEPT ![w] = k] /\ job[w] = Idle
        /\ UNCHANGED <<base, dir, seq, lock, srv>>
    BY <1>1, <1>2, <1>3 DEF Register
  <1>7. /\ BizTyped' /\ biz'[b] = r /\ \A c \in Ids \ {b} : biz'[c] = biz[c]
        /\ biz[b].db = Pending /\ SameRows /\ Kept
    BY <1>1, <1>4, <1>6 DEF CluInv, CluTyped, BizTyped, Registry, SameRows, Kept, arcVars
  <1>8. Only(w) /\ job'[w] = k
    BY <1>5, <1>6, AtWork DEF Only, JobTyped
  <1>9. Registry'
    BY <1>4, <1>7, RegistryStays DEF CluInv
  <1>10. \A v \in Workers \ {w} : job'[v] = job[v] /\ (job[v].op = "build" => job[v].b # b /\ job[v].b \in Ids)
    BY <1>1, <1>8, AtWork DEF Builds, Only
  <1>11. JobsStand'
    <2>1. Builds(w)' /\ Provisions(w)'
      BY <1>4, <1>5, <1>7, <1>8, <1>10 DEF Builds, Provisions, Building
    <2>2. \A v \in Workers \ {w} : job[v].op = "build" =>
            biz'[job[v].b].st = biz[job[v].b].st /\ biz'[job[v].b].db = biz[job[v].b].db
      BY <1>7, <1>10
    <2>3. JobsStand /\ CluTyped /\ dir' = dir /\ lock.loose \subseteq lock'.loose
          /\ \A v \in Workers : Holds(v) => Holds(v)'
      BY <1>6 DEF CluInv, Holds
    <2> QED BY <1>7, <1>8, <1>10, <2>1, <2>2, <2>3, OneMoves
  <1>12. JobTyped' /\ BaseTyped' /\ SrvTyped'
    BY <1>6, <1>8 DEF CluInv, CluTyped, BaseTyped, SrvTyped, JobTyped, Only
  <1> QED BY <1>6, <1>7, <1>9, <1>11, <1>12, DatabaseWritten DEF Databases, SameRows, Fits

\* The row learns the name of the database that is to be made: nobody else has had it.
LEMMA NameStep ==
  ASSUME CluInv, UNCHANGED arcVars, NEW w \in Workers, NameDatabase(w) PROVE CluInv'
  <1>1. PICK b \in Ids : b = job[w].b /\ biz[b].db = Pending /\ biz[b].st = "building"
    BY AtWork DEF NameDatabase, Builds
  <1>2. PICK q : q \in BizRows /\ q = biz[b]
    BY DEF CluInv, CluTyped, BizTyped
  <1>3. PICK r : r = [q EXCEPT !.db = b]
    OBVIOUS
  <1>4. r \in BizRows /\ r.st = "building" /\ r.db = b /\ b \in Databases /\ b # Pending
    BY <1>1, <1>2, <1>3, NotPending DEF BizRows, Databases, Pending
  <1>5. /\ biz' = [biz EXCEPT ![b] = r] /\ job' = Go(w, "create") /\ job[w].op = "build"
        /\ UNCHANGED <<base, dir, seq, lock, srv>>
    BY <1>1, <1>2, <1>3 DEF NameDatabase, NamedFirst
  <1>6. BizTyped' /\ biz'[b] = r /\ \A c \in Ids \ {b} : biz'[c] = biz[c]
    BY <1>4, <1>5 DEF CluInv, CluTyped, BizTyped
  <1>7. Only(w) /\ job'[w].op = "build" /\ job'[w].at = "create" /\ job'[w].b = b
    BY <1>1, <1>5, AtWork, GoIs DEF Building
  <1>8. Kept /\ UNCHANGED <<moved, shelf, run, sweep, rest>> /\ Rows' = Rows
    BY <1>1, <1>5, <1>6 DEF Kept, arcVars, Rows
  <1>9. /\ \A x : x # Pending /\ x # b => (Known(x)' <=> Known(x)) /\ (HasDb(x)' <=> HasDb(x))
        /\ HasDb(b)' /\ Known(b)'
    BY <1>1, <1>4, <1>6, <1>8 DEF Known, HasDb
  \* Only its own row could name it, unless it was left before.
  <1>10. \A c \in Ids : biz[c].db = b => b \in moved
    BY <1>1, <1>4 DEF CluInv, Registry
  <1>11. b \notin moved => ~Known(b) /\ Shops(b) = {}
    BY <1>10 DEF Known, HasDb, CluInv, Homes
  <1>12. Registry'
    <2>1. Registry
      BY DEF CluInv
    <2> QED BY <1>1, <1>4, <1>6, <1>8, <1>10, <2>1 DEF Registry
  <1>13. JobsStand'
    <2>1. \A v \in Workers : v # w /\ job[v].op = "build" => job[v].b # b /\ job[v].b \in Ids
      BY <1>1, <1>5, AtWork DEF Builds
    <2>2. Builds(w)' /\ Provisions(w)'
      BY <1>4, <1>6, <1>7, <2>1 DEF Builds, Provisions, Only, Building
    <2>3. lock.loose \subseteq lock'.loose /\ \A v \in Workers : Holds(v) => Holds(v)'
      BY <1>5 DEF Holds
    <2> QED BY <1>5, <1>6, <1>7, <1>8, <2>1, <2>2, <2>3, OneMoves
  <1>14. CluTyped' /\ ShelfInv'
    <2>1. ShelfInv'
      BY <1>8, ShelfQuiet DEF CluInv
    <2> QED BY <1>5, <1>6, <1>7, <1>8, <2>1 DEF CluInv, CluTyped, BaseTyped, DirTyped, JobTyped,
                                                 SrvTyped, ArcTyped, Only
  <1>15. Homes'
    <2>1. \A x : Shops(x)' = Shops(x)
      BY <1>5 DEF Shops
    <2>2. ASSUME NEW c \in Ids, biz'[c].db # Pending, biz'[c].db \notin moved'
          PROVE  \A o \in Shops(biz'[c].db) : Homed(o, c)
      <3>1. CASE c = b
        BY <1>4, <1>6, <1>8, <1>11, <2>2, <3>1
      <3>2. CASE c # b
        BY <1>6, <1>8, <2>2, <3>2 DEF CluInv, Homes
      <3> QED BY <3>1, <3>2
    <2>3. \A x \in Ids : ~Known(x)' => Shops(x) = {}
      BY <1>9, NotPending DEF CluInv, Homes, Pending
    <2> QED BY <1>5, <2>1, <2>2, <2>3 DEF Homes, Homed
  <1>16. CopiesMade' /\ Housed'
    <2>1. \A x \in Copies : x # b /\ x # Pending
      BY RegistryAssumption
    <2>2. CopiesMade'
      BY <1>5, <1>9, <2>1 DEF CluInv, CopiesMade
    <2>3. Housed'
      BY <1>5, <1>8, <1>9, NotPending DEF CluInv, Housed, Pending
    <2> QED BY <2>2, <2>3
  <1>17. ShelfHomes'
    <2>1. \A x \in Databases : x # Pending
      BY NotPending DEF Pending
    <2>2. \A r2 \in Rows : shelf[r2].db \in Databases /\ Known(shelf[r2].db)
      BY DEF CluInv, CluTyped, ArcTyped, ShelfHomes
    <2>0. \A x \in Databases : Known(x) => Known(x)'
      BY <1>9, <2>1
    <2>3. \A r2 \in Rows : Known(shelf[r2].db)'
      BY <1>8, <2>0, <2>2
    <2>4. \A d \in run.todo : Known(d)'
      BY <1>9, <2>1 DEF CluInv, CluTyped, ArcTyped, ShelfHomes
    <2>5. \A r2 \in Rows : shelf[r2].db = b => b \in moved
      BY <1>11, <2>2
    <2>6. ASSUME NEW r2 \in Rows, NEW c \in Ids, biz'[c].db = shelf[r2].db, shelf[r2].db \notin moved,
                 NEW o \in Outlets, shelf[r2].shops[o] # NoName
          PROVE  Homed(o, c)
      <3>1. c # b
        BY <1>4, <1>6, <2>5, <2>6
      <3> QED BY <1>6, <2>6, <3>1 DEF CluInv, ShelfHomes
    <2> QED BY <1>5, <1>8, <2>3, <2>4, <2>6 DEF ShelfHomes, Homed
  <1>18. RestHomes'
    <2>1. \A x \in Copies : x # b /\ x # Pending
      BY RegistryAssumption
    <2> QED BY <1>8, <1>9, <2>1 DEF CluInv, RestHomes
  <1> QED BY <1>12, <1>13, <1>14, <1>15, <1>16, <1>17, <1>18 DEF CluInv

\* Where nobody's work is touched.
LEMMA WorkStays ==
  ASSUME CluInv, SameRows, UNCHANGED <<job, lock, dir>>,
         \A b \in Ids : biz'[b].st = biz[b].st
  PROVE  JobsStand' /\ JobTyped' /\ Registry'
  <1>1. \A x : Known(x)' <=> Known(x)
    BY SameKnown
  <1>2. Registry'
    BY RegistryStays DEF CluInv
  <1>3. ASSUME NEW w \in Workers PROVE Builds(w)' /\ Provisions(w)'
    BY <1>1, AtWork DEF SameRows, Builds, Provisions, Holds, Homed, RoleHeld, RoleFree
  <1> QED BY <1>2, <1>3 DEF JobsStand, CluInv, CluTyped, JobTyped

LEMMA RenameStep ==
  ASSUME CluInv, UNCHANGED arcVars, Rename PROVE CluInv'
  <1>0. PICK o \in Outlets, n \in Names :
          /\ base' = [base EXCEPT ![biz[dir[o]].db].shops[o] = n]
          /\ base[biz[dir[o]].db].shops[o] # NoName
    BY DEF Rename
  <1>1. PICK d : base' = [base EXCEPT ![d].shops[o] = n] /\ base[d].shops[o] # NoName
    BY <1>0
  <1>2. UNCHANGED <<biz, dir, seq, job, lock, srv>>
    BY DEF Rename
  <1>3. /\ BaseTyped' /\ \A x \in Databases : base'[x].made = base[x].made
        /\ Fits
    <2>1. CASE d \in Databases
      <3>1. PICK k, s : k = base[d] /\ s = k.shops
        OBVIOUS
      <3>2. k \in Bases /\ s \in Shelves
        BY <2>1, <3>1 DEF CluInv, CluTyped, BaseTyped, Bases
      <3>3. PICK t, l : t = [s EXCEPT ![o] = n] /\ l = [k EXCEPT !.shops = t]
        OBVIOUS
      <3>4. /\ t \in Shelves /\ l \in Bases /\ l.made = k.made /\ l.shops = t
            /\ \A q \in Outlets : t[q] = IF q = o THEN n ELSE s[q]
        BY <3>2, <3>3 DEF Bases, Shelves
      <3>5. base' = [base EXCEPT ![d] = l]
        BY <1>1, <3>1, <3>3
      <3> QED BY <1>1, <2>1, <3>1, <3>4, <3>5 DEF CluInv, CluTyped, BaseTyped, Fits
    <2>2. CASE d \notin Databases
      <3>1. base' = base
        BY <1>1, <2>2 DEF CluInv, CluTyped, BaseTyped
      <3> QED BY <3>1 DEF CluInv, CluTyped, BaseTyped, Fits
    <2> QED BY <2>1, <2>2
  <1>4. SameRows
    BY <1>2 DEF SameRows, arcVars
  <1>5. JobsStand' /\ JobTyped' /\ Registry'
    BY <1>2, <1>4, WorkStays
  <1> QED BY <1>2, <1>3, <1>5, DatabaseWritten DEF CluInv, CluTyped, BizTyped, SrvTyped, Databases

LEMMA FleetStep ==
  ASSUME CluInv, UNCHANGED arcVars, FleetMoves \/ FleetStamps \/ FleetFails \/ Listen PROVE CluInv'
  <1>0. PICK s : s = srv /\ s \in [head : Nat, up : BOOLEAN, fleet : SUBSET Fleet, dark : BOOLEAN]
    BY DEF CluInv, CluTyped, SrvTyped
  <1>1. ASSUME NEW g \in SUBSET Fleet, srv' = [srv EXCEPT !.fleet = g],
               \A f \in g : f.at = "stamp" => f.db \in Databases
        PROVE  SrvTyped'
    <2>1. srv' = [s EXCEPT !.fleet = g]
      BY <1>0, <1>1
    <2> QED BY <1>0, <1>1, <2>1 DEF SrvTyped
  <1>2. CASE FleetMoves
    <2>1. PICK f \in srv.fleet :
            /\ f.at = "todo"
            /\ srv' = [srv EXCEPT !.fleet = (@ \ {f}) \cup
                         IF f.db # Pending /\ base[f.db].made THEN {[f EXCEPT !.at = "stamp"]} ELSE {}]
            /\ base' = IF f.db # Pending /\ base[f.db].made
                       THEN [base EXCEPT ![f.db].ver = srv.head] ELSE base
      BY <1>2 DEF FleetMoves
    <2>2. f \in Fleet /\ srv.head \in Nat
      BY <1>0, <2>1
    <2>3. UNCHANGED <<biz, dir, seq, job, lock>>
      BY <1>2 DEF FleetMoves
    <2>4. SrvTyped'
      <3>1. PICK h : h = [f EXCEPT !.at = "stamp"]
        OBVIOUS
      <3>2. h \in Fleet /\ h.db = f.db
        BY <2>2, <3>1 DEF Fleet
      <3>3. PICK g : g = (srv.fleet \ {f}) \cup IF f.db # Pending /\ base[f.db].made THEN {h} ELSE {}
        OBVIOUS
      <3>4. srv' = [srv EXCEPT !.fleet = g]
        BY <2>1, <3>1, <3>3
      <3>5. g \in SUBSET Fleet
        BY <1>0, <3>2, <3>3
      <3>6. \A x \in g : x.at = "stamp" => x.db \in Databases
        BY <2>2, <3>2, <3>3 DEF CluInv, CluTyped, SrvTyped, Fleet
      <3> QED BY <1>1, <3>4, <3>5, <3>6
    <2>5. /\ BaseTyped' /\ Fits /\ \A x \in Databases : base'[x].made = base[x].made
      <3>1. CASE f.db # Pending /\ base[f.db].made
        <4>1. PICK k \in Bases : k = base[f.db] /\ f.db \in Databases
          BY <2>2, <3>1 DEF CluInv, CluTyped, BaseTyped, Fleet
        <4>2. PICK l : l = [k EXCEPT !.ver = srv.head]
          OBVIOUS
        <4>3. l \in Bases /\ l.made = k.made /\ l.shops = k.shops
          BY <2>2, <4>1, <4>2 DEF Bases
        <4>4. base' = [base EXCEPT ![f.db] = l]
          BY <2>1, <3>1, <4>1, <4>2
        <4> QED BY <4>1, <4>3, <4>4 DEF CluInv, CluTyped, BaseTyped, Fits
      <3>2. CASE ~(f.db # Pending /\ base[f.db].made)
        <4>1. base' = base
          BY <2>1, <3>2
        <4> QED BY <4>1 DEF CluInv, CluTyped, BaseTyped, Fits
      <3> QED BY <3>1, <3>2
    <2>6. SameRows
      BY <2>3 DEF SameRows, arcVars
    <2>7. JobsStand' /\ JobTyped' /\ Registry'
      BY <2>3, <2>6, WorkStays
    <2> QED BY <2>3, <2>4, <2>5, <2>7, DatabaseWritten DEF CluInv, CluTyped, BizTyped, Databases
  <1>3. CASE FleetStamps
    <2>1. PICK f \in srv.fleet :
            /\ f.at = "stamp" /\ srv' = [srv EXCEPT !.fleet = @ \ {f}]
            /\ biz' = [biz EXCEPT ![f.b].ver = base[f.db].ver]
      BY <1>3 DEF FleetStamps
    <2>2. f \in Fleet /\ f.b \in Ids /\ f.db \in Databases
      BY <1>0, <2>1 DEF Fleet, CluInv, CluTyped, SrvTyped
    <2>3. UNCHANGED <<base, dir, seq, job, lock>>
      BY <1>3 DEF FleetStamps
    <2>4. SrvTyped'
      <3>1. PICK g : g = srv.fleet \ {f}
        OBVIOUS
      <3>2. g \in SUBSET Fleet /\ \A x \in g : x.at = "stamp" => x.db \in Databases
        BY <1>0, <3>1 DEF CluInv, CluTyped, SrvTyped
      <3> QED BY <1>1, <2>1, <3>1, <3>2
    <2>5. PICK q \in BizRows, v \in Nat : q = biz[f.b] /\ v = base[f.db].ver
      BY <2>2 DEF CluInv, CluTyped, BizTyped, BaseTyped, Bases
    <2>6. PICK r : r = [q EXCEPT !.ver = v]
      OBVIOUS
    <2>7. r \in BizRows /\ r.st = q.st /\ r.db = q.db
      BY <2>5, <2>6 DEF BizRows
    <2>8. biz' = [biz EXCEPT ![f.b] = r]
      BY <2>1, <2>5, <2>6
    <2>9. BizTyped' /\ \A b \in Ids : biz'[b].st = biz[b].st /\ biz'[b].db = biz[b].db
      BY <2>2, <2>5, <2>7, <2>8 DEF CluInv, CluTyped, BizTyped
    <2>10. SameRows
      BY <2>9 DEF SameRows, arcVars
    <2>11. JobsStand' /\ JobTyped' /\ Registry'
      BY <2>3, <2>9, <2>10, WorkStays
    <2> QED BY <2>3, <2>4, <2>9, <2>11, DatabaseWritten DEF CluInv, CluTyped, BaseTyped, Databases, Fits
  <1>4. CASE FleetFails \/ Listen
    <2>1. UNCHANGED <<biz, base, dir, seq, job, lock>>
      BY <1>4 DEF FleetFails, Listen
    <2>2. SrvTyped'
      <3>1. CASE FleetFails
        <4>0. PICK f \in srv.fleet : srv' = [srv EXCEPT !.fleet = @ \ {f}]
          BY <3>1 DEF FleetFails
        <4>1. PICK g : g = srv.fleet \ {f} /\ srv' = [srv EXCEPT !.fleet = g]
          BY <4>0
        <4>2. g \in SUBSET Fleet /\ \A x \in g : x.at = "stamp" => x.db \in Databases
          BY <1>0, <4>1 DEF CluInv, CluTyped, SrvTyped
        <4> QED BY <1>1, <4>1, <4>2
      <3>2. CASE Listen
        <4>1. srv' = [s EXCEPT !.up = TRUE]
          BY <1>0, <3>2 DEF Listen
        <4> QED BY <1>0, <4>1 DEF CluInv, CluTyped, SrvTyped
      <3> QED BY <1>4, <3>1, <3>2
    <2>3. ShelfInv'
      BY ShelfQuiet DEF CluInv, arcVars
    <2> QED BY <2>1, <2>2, <2>3, ClusterQuiet DEF arcVars
  <1> QED BY <1>2, <1>3, <1>4

\* A restart: nobody is in the middle of anything.
LEMMA RestartStep ==
  ASSUME CluInv, ShelfInv', NEW h \in Nat, Restart(h), UNCHANGED <<shelf, rest, moved>>,
         run'.todo \subseteq run.todo
  PROVE  CluInv'
  <1>1. /\ job' = [w \in Workers |-> Idle] /\ UNCHANGED <<biz, base, dir, seq>>
        /\ SameRows /\ Rows' = Rows
    BY DEF Restart, SameRows, Rows
  <1>2. SrvTyped'
    <2>1. PICK g : g = {[b |-> b, db |-> biz[b].db, at |-> "todo"] :
                          b \in {x \in Ids : biz[x].st \in {"live", "building"}}}
      OBVIOUS
    <2>2. srv' = [head |-> h, up |-> FALSE, fleet |-> g, dark |-> srv.dark] /\ srv.dark \in BOOLEAN
      BY <2>1 DEF Restart, CluInv, CluTyped, SrvTyped
    <2>3. g \in SUBSET Fleet /\ \A f \in g : f.at # "stamp"
      <3>1. SUFFICES ASSUME NEW b \in Ids PROVE [b |-> b, db |-> biz[b].db, at |-> "todo"] \in Fleet
        BY <2>1
      <3>2. biz[b].db \in Databases \cup {Pending}
        BY DEF CluInv, CluTyped, BizTyped, BizRows
      <3> QED BY <3>2 DEF Fleet
    <2> QED BY <2>2, <2>3 DEF SrvTyped
  <1>3. JobTyped' /\ JobsStand'
    BY <1>1, IdleIs DEF JobTyped, JobsStand, Builds, Provisions
  <1>6. lock.loose \subseteq lock'.loose
    BY DEF Restart
  <1>4. Registry' /\ RestHomes'
    BY <1>1, RegistryStays, RestStays DEF CluInv
  <1>5. CluTyped'
    BY <1>1, <1>2, <1>3 DEF CluInv, CluTyped, BizTyped, BaseTyped, DirTyped, ArcTyped
  <1> QED BY <1>1, <1>3, <1>4, <1>5, <1>6, SameOwners DEF Fits

\* What an archive holds is at home.
RowHomes(x) ==
  /\ x.db \in Databases /\ x.ver \in Nat /\ x.shops \in Shelves /\ Known(x.db)
  /\ \A b \in Ids : biz[b].db = x.db /\ x.db \notin moved =>
       \A o \in Outlets : x.shops[o] # NoName => Homed(o, b)

LEMMA RowsAreHome == ASSUME CluInv, NEW r \in Rows PROVE RowHomes(shelf[r])
  BY DEF CluInv, CluTyped, ArcTyped, ShelfHomes, RowHomes

\* The shelf is written, and the cluster is not.
LEMMA ShelfWritten ==
  ASSUME CluInv, ShelfInv', UNCHANGED <<bizVars, rest, moved>>,
         Rows \subseteq Rows', run'.todo \subseteq run.todo,
         \A r \in Rows : shelf'[r].db = shelf[r].db /\ (shelf[r].st = "good" => shelf'[r].st = "good"),
         \A r \in Rows' : \E x : x = shelf'[r] /\ RowHomes(x)
  PROVE  CluInv'
  <1>1. /\ \A x : (HasDb(x)' <=> HasDb(x)) /\ (Known(x)' <=> Known(x)) /\ Shops(x)' = Shops(x)
        /\ UNCHANGED <<biz, base, dir, seq, job, lock, srv>>
    BY DEF HasDb, Known, Shops, bizVars
  <1>2. CluTyped'
    BY <1>1 DEF CluInv, CluTyped, BizTyped, BaseTyped, DirTyped, JobTyped, SrvTyped, ArcTyped, RowHomes
  <1>3. Registry' /\ JobsStand'
    BY <1>1 DEF CluInv, Registry, JobsStand, Builds, Provisions, Holds, Homed, RoleHeld, RoleFree
  <1>4. Homes' /\ CopiesMade' /\ Housed'
    <2>1. Homes' /\ CopiesMade'
      BY <1>1 DEF CluInv, Homes, CopiesMade, Homed
    <2> QED BY <1>1, <2>1 DEF CluInv, Housed
  <1>5. ShelfHomes'
    <2>1. \A r \in Rows' : Known(shelf'[r].db)
      BY DEF RowHomes
    <2>2. \A d \in run'.todo : Known(d)
      BY DEF CluInv, ShelfHomes
    <2>3. \A r \in Rows', b \in Ids : biz[b].db = shelf'[r].db /\ shelf'[r].db \notin moved =>
            \A o \in Outlets : shelf'[r].shops[o] # NoName => Homed(o, b)
      BY DEF RowHomes
    <2> QED BY <1>1, <2>1, <2>2, <2>3 DEF ShelfHomes, Known, HasDb, Homed
  <1>6. RestHomes'
    BY <1>1 DEF CluInv, RestHomes
  <1> QED BY <1>2, <1>3, <1>4, <1>5, <1>6 DEF CluInv

\* One row is written.
LEMMA RowWritten ==
  ASSUME CluInv, ShelfInv', UNCHANGED <<bizVars, rest, moved>>, run'.todo = run.todo,
         NEW i \in Rows, NEW x, Archive(x), shelf' = [shelf EXCEPT ![i] = x],
         x.db = shelf[i].db, shelf[i].st = "good" => x.st = "good", RowHomes(x)
  PROVE  CluInv'
  <1>1. /\ Rows' = Rows /\ shelf'[i] = x /\ \A r \in Rows \ {i} : shelf'[r] = shelf[r]
    BY RowSet DEF CluInv, ShelfInv, Rows
  <1> QED BY <1>1, RowsAreHome, ShelfWritten

LEMMA ShelfSteps ==
  ASSUME CluInv, ShelfInv', Dump \/ MarkGood \/ MarkBad \/ Unlink \/ DeleteRow PROVE CluInv'
  <1>1. UNCHANGED <<bizVars, rest, moved>> /\ run'.todo = run.todo
    <2>1. run = [on |-> run.on, todo |-> run.todo, row |-> run.row, at |-> run.at]
      BY DEF CluInv, ShelfInv, ShelfTyped
    <2> QED BY <2>1 DEF Dump, MarkGood, MarkBad, Unlink, DeleteRow
  <1>2. ASSUME NEW i \in Rows, NEW x, Archive(x), shelf' = [shelf EXCEPT ![i] = x],
               x.db = shelf[i].db, x.ver = shelf[i].ver, x.shops = shelf[i].shops,
               shelf[i].st = "good" => x.st = "good"
        PROVE  CluInv'
    <2>1. RowHomes(x)
      BY <1>2, RowsAreHome DEF RowHomes
    <2> QED BY <1>1, <1>2, <2>1, RowWritten
  <1>3. ASSUME Writing PROVE run.row \in Rows /\ shelf[run.row].st = "begun"
    BY <1>3 DEF CluInv, ShelfInv, RunIsLast
  <1>4. ASSUME NEW i \in Rows, NEW y, y = shelf[i] PROVE Archive(y) /\ RowHomes(y)
    <2>1. Archive(shelf[i])
      BY DEF CluInv, ShelfInv, ShelfTyped
    <2> QED BY <1>4, <2>1, RowsAreHome
  <1>5. CASE Dump
    <2>1. PICK i \in Rows : i = run.row /\ shelf[i].st = "begun"
      BY <1>3, <1>5 DEF Dump, Writing
    <2>2. PICK y : y = shelf[i] /\ Archive(y) /\ RowHomes(y) /\ y.st = "begun"
      BY <1>4, <2>1
    <2>3. PICK k \in Bases : k = base[y.db]
      BY <2>2 DEF RowHomes, CluInv, CluTyped, BaseTyped
    <2>4. PICK x : x = [y EXCEPT !.shops = k.shops, !.ver = k.ver, !.file = TRUE]
      OBVIOUS
    <2>5. Archive(x) /\ x.db = y.db /\ x.shops = k.shops /\ x.ver = k.ver
      BY <2>2, <2>4 DEF Archive
    <2>6. shelf' = [shelf EXCEPT ![i] = x]
      BY <1>5, <2>1, <2>2, <2>3, <2>4 DEF Dump
    <2>7. RowHomes(x)
      <3>1. \A d \in Databases : d # Pending
        BY NotPending DEF Pending
      <3>2. ASSUME NEW b \in Ids, biz[b].db = y.db, y.db \notin moved, NEW o \in Outlets, k.shops[o] # NoName
            PROVE  Homed(o, b)
        <4>1. o \in Shops(biz[b].db)
          BY <2>3, <3>2 DEF Shops
        <4> QED BY <2>2, <3>1, <3>2, <4>1 DEF CluInv, Homes, RowHomes
      <3> QED BY <2>2, <2>5, <3>2 DEF RowHomes, Bases
    <2> QED BY <1>1, <2>1, <2>2, <2>5, <2>6, <2>7, RowWritten
  <1>6. CASE MarkGood
    <2>0. PICK i \in Rows : i = run.row
      BY <1>3, <1>6 DEF MarkGood, Writing
    <2>1. PICK y : y = shelf[i] /\ Archive(y)
      BY <1>4
    <2>2. PICK x : x = [y EXCEPT !.st = "good"]
      OBVIOUS
    <2>3. Archive(x) /\ x.db = y.db /\ x.shops = y.shops /\ x.ver = y.ver /\ x.st = "good"
      BY <2>1, <2>2 DEF Archive
    <2>4. shelf' = [shelf EXCEPT ![i] = x]
      BY <1>6, <2>0, <2>1, <2>2 DEF MarkGood
    <2> QED BY <1>2, <2>1, <2>3, <2>4
  <1>7. CASE MarkBad
    <2>0. PICK i \in Rows : i = run.row /\ shelf[i].st = "begun"
      BY <1>3, <1>7 DEF MarkBad, Writing
    <2>1. PICK y : y = shelf[i] /\ Archive(y) /\ y.st = "begun"
      BY <1>4, <2>0
    <2>2. PICK x : x = [y EXCEPT !.st = "bad"]
      OBVIOUS
    <2>3. Archive(x) /\ x.db = y.db /\ x.shops = y.shops /\ x.ver = y.ver
      BY <2>1, <2>2 DEF Archive
    <2>4. shelf' = [shelf EXCEPT ![i] = x]
      BY <1>7, <2>0, <2>1, <2>2 DEF MarkBad
    <2> QED BY <1>2, <2>1, <2>3, <2>4
  <1>8. CASE Unlink
    <2>1. PICK i : shelf' = [shelf EXCEPT ![i].file = FALSE]
      BY <1>8 DEF Unlink
    <2>2. CASE i \in Rows
      <3>1. PICK y : y = shelf[i] /\ Archive(y)
        BY <1>4, <2>2
      <3>2. PICK x : x = [y EXCEPT !.file = FALSE]
        OBVIOUS
      <3>3. Archive(x) /\ x.db = y.db /\ x.shops = y.shops /\ x.ver = y.ver /\ x.st = y.st
        BY <3>1, <3>2 DEF Archive
      <3> QED BY <1>2, <2>1, <2>2, <3>1, <3>2, <3>3
    <2>3. CASE i \notin Rows
      <3>1. PICK T : shelf \in Seq(T)
        BY DEF CluInv, ShelfInv, ShelfTyped
      <3>2. shelf' = shelf
        <4>1. shelf \in [1..Len(shelf) -> T]
          BY <3>1, LenProperties
        <4> QED BY <2>1, <2>3, <4>1 DEF Rows
      <3>3. Rows' = Rows
        BY <3>2 DEF Rows
      <3> QED BY <1>1, <3>2, <3>3, RowsAreHome, ShelfWritten
    <2> QED BY <2>2, <2>3
  <1>9. CASE DeleteRow
    <2>0. PICK i \in Rows : i = sweep.row
      BY <1>9 DEF DeleteRow, CluInv, ShelfInv, ShelfTyped
    <2>1. shelf' = [shelf EXCEPT ![i].kept = FALSE]
      BY <1>9, <2>0 DEF DeleteRow
    <2>2. PICK y : y = shelf[i] /\ Archive(y)
      BY <1>4
    <2>3. PICK x : x = [y EXCEPT !.kept = FALSE]
      OBVIOUS
    <2>4. Archive(x) /\ x.db = y.db /\ x.shops = y.shops /\ x.ver = y.ver /\ x.st = y.st
      BY <2>2, <2>3 DEF Archive
    <2> QED BY <1>2, <2>1, <2>2, <2>3, <2>4
  <1> QED BY <1>5, <1>6, <1>7, <1>8, <1>9

LEMMA BeginRowStep == ASSUME CluInv, ShelfInv', BeginRow PROVE CluInv'
  <1>1. PICK d \in run.todo :
          /\ shelf' = Append(shelf, [db |-> d, st |-> "begun", file |-> FALSE, kept |-> TRUE,
                                     ver |-> 0, shops |-> Unmade.shops])
          /\ run' = [run EXCEPT !.todo = @ \ {d}, !.row = Len(shelf) + 1, !.at = "dump"]
    BY DEF BeginRow
  <1>2. PICK x : x = [db |-> d, st |-> "begun", file |-> FALSE, kept |-> TRUE,
                      ver |-> 0, shops |-> Unmade.shops]
    OBVIOUS
  <1>3. Archive(x) /\ x.db = d /\ x.shops = [o \in Outlets |-> NoName]
    BY <1>2 DEF Archive, Unmade
  <1>4. RowHomes(x)
    BY <1>2, <1>3 DEF CluInv, CluTyped, ArcTyped, ShelfHomes, RowHomes, Shelves
  <1>5. PICK n : /\ n = Len(shelf) + 1 /\ Len(shelf) \in Nat /\ Len(shelf') = n /\ shelf'[n] = x
                 /\ \A r \in Rows : shelf'[r] = shelf[r]
    BY <1>1, <1>2, <1>3, RowPut DEF CluInv, ShelfInv
  <1>6. Rows' = Rows \cup {n}
    BY <1>5 DEF Rows
  <1>7. run'.todo \subseteq run.todo
    <2>1. PICK t : t = run.todo \ {d}
      OBVIOUS
    <2>2. run = [on |-> run.on, todo |-> run.todo, row |-> run.row, at |-> run.at]
      BY DEF CluInv, ShelfInv, ShelfTyped
    <2>3. run' = [on |-> run.on, todo |-> t, row |-> Len(shelf) + 1, at |-> "dump"]
      BY <1>1, <2>1, <2>2
    <2> QED BY <2>1, <2>3
  <1>8. UNCHANGED <<bizVars, rest, moved>>
    BY DEF BeginRow
  <1> QED BY <1>4, <1>5, <1>6, <1>7, <1>8, RowsAreHome, ShelfWritten

LEMMA StartBackupStep == ASSUME CluInv, ShelfInv', StartBackup PROVE CluInv'
  <1>1. /\ run'.todo = {biz[b].db : b \in {x \in Ids : biz[x].st = "live"}}
        /\ UNCHANGED <<biz, base, dir, seq, job, lock, srv, shelf, rest, moved>>
    BY DEF StartBackup, NoRun, bizVars
  <1>2. \A d \in run'.todo : d \in Databases /\ HasDb(d)
    BY <1>1 DEF CluInv, CluTyped, BizTyped, BizRows, Registry, HasDb
  <1>3. Rows' = Rows /\ \A x : (HasDb(x)' <=> HasDb(x)) /\ (Known(x)' <=> Known(x)) /\ Shops(x)' = Shops(x)
    BY <1>1 DEF HasDb, Known, Shops, Rows
  <1>4. CluTyped'
    BY <1>1, <1>2, <1>3 DEF CluInv, CluTyped, BizTyped, BaseTyped, DirTyped, JobTyped, SrvTyped, ArcTyped
  <1>5. Registry' /\ JobsStand' /\ Homes'
    <2>1. JobsStand'
      BY <1>1, <1>3 DEF CluInv, JobsStand, Builds, Provisions, Holds, Homed, RoleHeld, RoleFree
    <2> QED BY <1>1, <1>3, <2>1 DEF CluInv, Registry, Homes, Homed
  <1>6. CopiesMade' /\ Housed' /\ RestHomes'
    BY <1>1, <1>3 DEF CluInv, CopiesMade, Housed, RestHomes
  <1>7. ShelfHomes'
    BY <1>1, <1>2, <1>3 DEF CluInv, ShelfHomes, Known, Homed
  <1> QED BY <1>4, <1>5, <1>6, <1>7 DEF CluInv

LEMMA StartRestoreStep == ASSUME CluInv, ShelfInv', StartRestore PROVE CluInv'
  <1>1. PICK r \in Rows, d \in Databases :
          /\ d \in Copies \/ (d = shelf[r].db /\ base[d].made)
          /\ d \in Copies => ~base[d].made
          /\ rest' = [on |-> TRUE, row |-> r, into |-> d]
          /\ base' = [base EXCEPT ![d].made = TRUE]
    BY DEF StartRestore
  <1>2. UNCHANGED <<biz, dir, seq, job, lock, srv, shelf, run, moved>>
    BY DEF StartRestore
  <1>3. /\ BaseTyped' /\ Fits
        /\ \A x \in Databases : base[x].made => base'[x].made
        /\ \A x \in Ids : base'[x].made => base[x].made
    <2>1. PICK k \in Bases : k = base[d]
      BY DEF CluInv, CluTyped, BaseTyped
    <2>2. PICK l : l = [k EXCEPT !.made = TRUE]
      OBVIOUS
    <2>3. l \in Bases /\ l.made /\ l.shops = k.shops
      BY <2>1, <2>2 DEF Bases
    <2>4. base' = [base EXCEPT ![d] = l]
      BY <1>1, <2>1, <2>2
    <2>5. d \in Ids => base[d].made
      BY <1>1, RegistryAssumption
    <2> QED BY <2>1, <2>3, <2>4, <2>5 DEF CluInv, CluTyped, BaseTyped, Fits, Databases
  <1>4. SameRows /\ Rows' = Rows
    BY <1>2 DEF SameRows, Rows
  <1>5. RestHomes'
    <2>1. d \in Copies => ~Known(d)
      BY <1>1 DEF CluInv, CopiesMade
    <2>2. d \in Ids => d = shelf[r].db
      BY <1>1, RegistryAssumption
    <2>3. \A x : Known(x)' <=> Known(x)
      BY <1>4, SameKnown
    <2> QED BY <1>1, <1>2, <1>4, <2>1, <2>2, <2>3 DEF RestHomes
  <1>6. JobsStand' /\ JobTyped' /\ Registry'
    BY <1>2, <1>4, WorkStays
  <1>7. CluTyped'
    <2>1. rest' \in [on : BOOLEAN, row : Nat, into : Databases \cup {0}]
      <3>1. r \in Nat
        BY LenProperties DEF Rows, CluInv, ShelfInv, ShelfTyped
      <3> QED BY <1>1, <3>1
    <2> QED BY <1>2, <1>3, <1>4, <1>6, <2>1
            DEF CluInv, CluTyped, BizTyped, DirTyped, SrvTyped, ArcTyped
  <1> QED BY <1>2, <1>3, <1>4, <1>5, <1>6, <1>7, SameOwners

\* What is restored is at home where it comes to, or nobody has had that database.
LEMMA RestoredStep == ASSUME CluInv, ShelfInv', Restored PROVE CluInv'
  <1>0. PICK d : d = rest.into
    OBVIOUS
  <1>1. PICK r \in Rows : /\ r = rest.row
                          /\ d \in Copies => ~Known(d)
                          /\ d \in Ids => shelf[r].db = d
    BY <1>0 DEF Restored, CluInv, RestHomes
  <1>2. /\ base' = [base EXCEPT ![d].ver = shelf[r].ver, ![d].shops = shelf[r].shops]
        /\ rest' = NoRest /\ UNCHANGED <<biz, dir, seq, job, lock, srv, shelf, run, moved>>
    BY <1>0, <1>1 DEF Restored
  <1>3. RowHomes(shelf[r])
    BY RowsAreHome
  <1>4. /\ BaseTyped' /\ Fits
        /\ \A x \in Databases : base'[x].made = base[x].made
    <2>1. CASE d \in Databases
      <3>1. PICK k \in Bases : k = base[d]
        BY <2>1 DEF CluInv, CluTyped, BaseTyped
      <3>2. PICK v, s : v = shelf[r].ver /\ s = shelf[r].shops /\ v \in Nat /\ s \in Shelves
        BY <1>3 DEF RowHomes
      <3>3. PICK l : l = [k EXCEPT !.ver = v, !.shops = s]
        OBVIOUS
      <3>4. l \in Bases /\ l.made = k.made /\ l.shops = s
        BY <3>1, <3>2, <3>3 DEF Bases
      <3>5. base' = [base EXCEPT ![d] = l]
        BY <1>2, <2>1, <3>1, <3>2, <3>3 DEF CluInv, CluTyped, BaseTyped
      <3>6. BaseTyped' /\ \A x \in Databases : base'[x].made = base[x].made
        BY <2>1, <3>1, <3>4, <3>5 DEF CluInv, CluTyped, BaseTyped
      <3>7. d \in Ids => Known(d)
        BY <1>1, <1>3 DEF RowHomes
      <3>8. ASSUME NEW b \in Ids, biz[b].db = d, d \notin moved, NEW o \in Outlets, s[o] # NoName
            PROVE  Homed(o, b)
        <4>1. Known(d)
          BY <3>8 DEF Known, HasDb
        <4>2. shelf[r].db = d
          BY <1>1, <2>1, <4>1 DEF Databases
        <4> QED BY <1>3, <3>2, <3>8, <4>2 DEF RowHomes
      <3>9. \A x \in Databases : base'[x].shops = IF x = d THEN s ELSE base[x].shops
        BY <2>1, <3>1, <3>4, <3>5 DEF CluInv, CluTyped, BaseTyped
      <3>10. Fits
        BY <1>2, <3>7, <3>8, <3>9 DEF Fits, Homed
      <3> QED BY <3>6, <3>10
    <2>2. CASE d \notin Databases
      <3>1. base' = base
        BY <1>2, <2>2 DEF CluInv, CluTyped, BaseTyped
      <3> QED BY <3>1 DEF CluInv, CluTyped, BaseTyped, Fits
    <2> QED BY <2>1, <2>2
  <1>5. SameRows /\ Rows' = Rows /\ ~rest'.on
    BY <1>2 DEF SameRows, Rows, NoRest
  <1>6. JobsStand' /\ JobTyped' /\ Registry' /\ RestHomes'
    BY <1>2, <1>5, WorkStays DEF RestHomes
  <1>7. CluTyped'
    <2>1. rest' \in [on : BOOLEAN, row : Nat, into : Databases \cup {0}]
      BY <1>2 DEF NoRest
    <2> QED BY <1>2, <1>4, <1>5, <1>6, <2>1
            DEF CluInv, CluTyped, BizTyped, DirTyped, SrvTyped, ArcTyped
  <1> QED BY <1>2, <1>4, <1>5, <1>6, <1>7, SameOwners DEF Databases

\* A business is pointed at a copy of what it has: the copy is as much at home as the archive.
LEMMA StartAdoptStep == ASSUME CluInv, ShelfInv', StartAdopt PROVE CluInv'
  <1>1. PICK b \in Ids, d \in Copies :
          /\ biz[b].st = "live" /\ base[d].made /\ biz[b].db \in Origin(d)
          /\ \A c \in Ids : biz[c].db # d
          /\ biz' = [biz EXCEPT ![b].db = d, ![b].ver = base[d].ver]
          /\ moved' = moved \cup {biz[b].db} \cup (IF biz[b].db \in moved THEN {d} ELSE {})
    BY DEF StartAdopt
  <1>2. ~rest.on /\ UNCHANGED <<base, dir, seq, job, lock, srv, shelf, run, sweep, rest>>
    BY DEF StartAdopt
  <1>3. PICK q \in BizRows, v \in Nat, was \in Databases :
          q = biz[b] /\ v = base[d].ver /\ was = q.db /\ was # Pending
    BY <1>1 DEF CluInv, CluTyped, BizTyped, BaseTyped, Bases, BizRows, Registry, Databases
  <1>4. PICK r : r = [q EXCEPT !.db = d, !.ver = v]
    OBVIOUS
  <1>5. r \in BizRows /\ r.st = "live" /\ r.db = d /\ d \in Databases /\ d # Pending /\ d \notin Ids
    <2>1. d \in Databases /\ d # Pending /\ d \notin Ids
      BY RegistryAssumption DEF Databases
    <2> QED BY <1>1, <1>3, <1>4, <2>1 DEF BizRows
  <1>6. BizTyped' /\ biz'[b] = r /\ \A c \in Ids \ {b} : biz'[c] = biz[c]
    <2>1. biz' = [biz EXCEPT ![b] = r]
      BY <1>1, <1>3, <1>4 DEF CluInv, CluTyped, BizTyped
    <2> QED BY <1>5, <2>1 DEF CluInv, CluTyped, BizTyped
  <1>7. /\ Kept /\ was \in moved' /\ moved \subseteq moved' /\ Rows' = Rows
        /\ \A x \in moved' : x \in moved \/ x = was \/ x = d
        /\ d \in moved' => was \in moved \/ d \in moved
    BY <1>1, <1>2, <1>3, <1>6 DEF Kept, Rows
  <1>8. /\ \A x : x # Pending /\ Known(x) => Known(x)'
        /\ \A x : x # d /\ Known(x)' => Known(x)
        /\ \A x : x # was /\ HasDb(x) => HasDb(x)'
    BY <1>3, <1>5, <1>6, <1>7 DEF Known, HasDb
  \* The archive the copy is of.
  <1>9. PICK a \in Rows : shelf[a].st = "good" /\ shelf[a].db = was /\ shelf[a].shops = base[d].shops
    BY <1>1, <1>3 DEF Origin
  <1>10. Registry'
    <2>1. Registry
      BY DEF CluInv
    <2>2. \A c \in Ids \ {b} : biz'[c].st = biz[c].st /\ biz'[c].db = biz[c].db /\ biz[c].db # d
      BY <1>1, <1>6
    <2>3. biz'[b].st = "live" /\ biz'[b].db = d
      BY <1>5, <1>6
    <2>4. ASSUME NEW c \in Ids
          PROVE  /\ biz'[c].st = "none" => biz'[c].db = Pending
                 /\ biz'[c].st = "live" => biz'[c].db # Pending
                 /\ biz'[c].db \in Ids /\ biz'[c].db # c => biz'[c].db \in moved'
      <3>1. CASE c = b
        BY <1>5, <2>3, <3>1
      <3>2. CASE c # b
        BY <1>7, <2>1, <2>2, <3>2 DEF Registry
      <3> QED BY <3>1, <3>2
    <2>5. ASSUME NEW c \in Ids, NEW e \in Ids, c # e, biz'[c].db = biz'[e].db, biz'[c].db # Pending
          PROVE  biz'[c].db \in moved'
      <3>1. c # b /\ e # b
        BY <2>2, <2>3, <2>5
      <3> QED BY <1>7, <2>1, <2>2, <2>5, <3>1 DEF Registry
    <2> QED BY <2>4, <2>5 DEF Registry
  <1>11. JobsStand' /\ JobTyped'
    <2>1. \A w \in Workers : job[w].op = "build" => job[w].b # b /\ job[w].b \in Ids
      BY <1>1, AtWork DEF Builds
    <2>2. PICK S : S = {}
      OBVIOUS
    <2>3. lock.loose \subseteq lock'.loose /\ \A w \in Workers : Holds(w) => Holds(w)'
      BY <1>2 DEF Holds
    <2> QED BY <1>2, <1>6, <1>7, <2>1, <2>2, <2>3, OthersStand DEF CluInv, CluTyped, JobTyped
  <1>12. CluTyped'
    BY <1>2, <1>6, <1>7, <1>11 DEF CluInv, CluTyped, BaseTyped, DirTyped, SrvTyped, ArcTyped
  <1>13. Homes'
    <2>1. \A x : Shops(x)' = Shops(x)
      BY <1>2 DEF Shops
    <2>2. ASSUME NEW c \in Ids, biz'[c].db # Pending, biz'[c].db \notin moved'
          PROVE  \A o \in Shops(biz'[c].db) : Homed(o, c)
      <3>1. CASE c = b
        <4>1. was \notin moved
          BY <1>1, <1>3, <1>5, <1>6, <2>2, <3>1
        <4>2. \A o \in Outlets : shelf[a].shops[o] # NoName => Homed(o, b)
          BY <1>3, <1>9, <4>1 DEF CluInv, ShelfHomes
        <4> QED BY <1>5, <1>6, <1>9, <3>1, <4>2 DEF Shops
      <3>2. CASE c # b
        BY <1>6, <1>7, <2>2, <3>2 DEF CluInv, Homes
      <3> QED BY <3>1, <3>2
    <2>3. \A x \in Ids : ~Known(x)' => Shops(x) = {}
      BY <1>8, NotPending DEF CluInv, Homes, Pending
    <2> QED BY <1>2, <2>1, <2>2, <2>3 DEF Homes, Homed
  <1>14. CopiesMade'
    BY <1>1, <1>2, <1>8 DEF CluInv, CopiesMade
  <1>15. Housed'
    <2>1. ASSUME NEW x \in Ids, base[x].made
          PROVE  HasDb(x)' \/ \E r2 \in Rows : shelf[r2].st = "good" /\ shelf[r2].db = x
      <3>1. HasDb(x) \/ \E r2 \in Rows : shelf[r2].st = "good" /\ shelf[r2].db = x
        BY <2>1 DEF CluInv, Housed
      <3> QED BY <1>8, <1>9, <3>1
    <2> QED BY <1>2, <1>7, <2>1 DEF Housed
  <1>16. ShelfHomes'
    <2>1. \A x \in Databases : x # Pending /\ (Known(x) => Known(x)')
      BY <1>8, NotPending DEF Pending
    <2>2. \A r2 \in Rows : shelf[r2].db \in Databases /\ Known(shelf[r2].db)
      BY DEF CluInv, CluTyped, ArcTyped, ShelfHomes
    <2>3. \A r2 \in Rows : Known(shelf[r2].db)'
      BY <1>2, <2>1, <2>2
    <2>4. \A x \in run.todo : Known(x)'
      BY <2>1 DEF CluInv, CluTyped, ArcTyped, ShelfHomes
    \* The copy was of nobody: what is archived of it was left before.
    <2>5. \A r2 \in Rows : shelf[r2].db = d => d \in moved
      BY <1>1, <2>2 DEF Known, HasDb
    <2>6. ASSUME NEW r2 \in Rows, NEW c \in Ids, biz'[c].db = shelf[r2].db, shelf[r2].db \notin moved',
                 NEW o \in Outlets, shelf[r2].shops[o] # NoName
          PROVE  Homed(o, c)
      <3>1. c # b
        BY <1>5, <1>6, <1>7, <2>5, <2>6
      <3> QED BY <1>6, <1>7, <2>6, <3>1 DEF CluInv, ShelfHomes
    <2> QED BY <1>2, <1>7, <2>3, <2>4, <2>6 DEF ShelfHomes, Homed
  <1>17. RestHomes'
    BY <1>2 DEF RestHomes
  <1> QED BY <1>10, <1>11, <1>12, <1>13, <1>14, <1>15, <1>16, <1>17 DEF CluInv

LEMMA ArcStep == CluInv /\ ArcNext => CluInv'
  <1> SUFFICES ASSUME CluInv, ArcNext PROVE CluInv'
    OBVIOUS
  <1>1. ShelfInv'
    BY ShelfStep DEF CluInv
  <1>2. CASE EndBackup \/ StartPrune \/ Spare \/ EndPrune \/ EndAdopt \/ Stop
    <2>1. /\ UNCHANGED <<biz, base, dir, seq, job, lock, srv, moved, shelf>>
          /\ rest' = rest \/ rest' = NoRest
          /\ run' = run \/ run' = NoRun
      BY <1>2 DEF EndBackup, StartPrune, Spare, EndPrune, EndAdopt, Stop, bizVars
    <2>2. SrvTyped' /\ run'.todo \subseteq run.todo
      <3>1. SrvTyped'
        BY <2>1 DEF CluInv, CluTyped, SrvTyped
      <3>2. NoRun.todo = {}
        BY DEF NoRun
      <3> QED BY <2>1, <3>1, <3>2
    <2> QED BY <1>1, <2>1, <2>2, ClusterQuiet
  <1>3. CASE ServerStops
    <2>1. Restart(srv.head) /\ run' = NoRun /\ UNCHANGED <<shelf, rest, moved>>
      BY <1>3 DEF ServerStops
    <2>2. srv.head \in Nat /\ run'.todo \subseteq run.todo
      BY <2>1 DEF CluInv, CluTyped, SrvTyped, NoRun
    <2> QED BY <1>1, <2>1, <2>2, RestartStep
  <1> QED BY <1>1, <1>2, <1>3, StartBackupStep, BeginRowStep, ShelfSteps, StartRestoreStep,
             RestoredStep, StartAdoptStep DEF ArcNext

LEMMA BizStep == CluInv /\ BizNext /\ UNCHANGED arcVars => CluInv'
  <1> SUFFICES ASSUME CluInv, BizNext, UNCHANGED arcVars PROVE CluInv'
    OBVIOUS
  <1>1. ShelfInv'
    BY ShelfQuiet DEF CluInv, arcVars
  <1>2. ASSUME NEW w \in Workers, Build(w) \/ ProvisionOutlet(w) PROVE CluInv'
    BY <1>2, RegisterStep, NameStep, BuildingStep, ProvisionStep, WhoseDbStep, TakeIdStep,
       UpsertStep, HeldStep, CommitStep DEF Build, ProvisionOutlet
  <1>3. ASSUME NEW o \in Asked, AskRoute(o) \/ KeepRoute(o) \/ Expire(o) PROVE CluInv'
    <2>1. UNCHANGED <<biz, base, dir, seq, job, lock, srv, arcVars>>
      BY <1>3 DEF AskRoute, KeepRoute, Expire
    <2>2. SrvTyped'
      BY <2>1 DEF CluInv, CluTyped, SrvTyped
    <2> QED BY <1>1, <2>1, <2>2, ClusterQuiet DEF arcVars
  <1>4. CASE Deploy
    <2>1. Restart(srv.head + 1) /\ srv.head + 1 \in Nat
      BY <1>4 DEF Deploy, CluInv, CluTyped, SrvTyped
    <2> QED BY <1>1, <2>1, RestartStep DEF arcVars
  <1>5. CASE RegistryGoes \/ RegistryBack
    <2>1. /\ UNCHANGED <<biz, base, dir, seq, job, lock, arcVars>>
          /\ \E x \in BOOLEAN : srv' = [srv EXCEPT !.dark = x]
      BY <1>5 DEF RegistryGoes, RegistryBack
    <2>2. SrvTyped'
      <3>1. PICK s : s = srv /\ s \in [head : Nat, up : BOOLEAN, fleet : SUBSET Fleet, dark : BOOLEAN]
        BY DEF CluInv, CluTyped, SrvTyped
      <3>2. PICK x \in BOOLEAN : srv' = [s EXCEPT !.dark = x]
        BY <2>1, <3>1
      <3> QED BY <3>1, <3>2 DEF CluInv, CluTyped, SrvTyped
    <2> QED BY <1>1, <2>1, <2>2, ClusterQuiet DEF arcVars
  <1> QED BY <1>2, <1>3, <1>4, <1>5, RenameStep, FleetStep DEF BizNext

THEOREM ClusterInvariance == Spec => []CluInv
  <1>1. CluInv /\ [Next]_estVars => CluInv'
    <2>1. CluInv /\ UNCHANGED clusterVars => CluInv'
      <3> SUFFICES ASSUME CluInv, UNCHANGED clusterVars PROVE CluInv'
        OBVIOUS
      <3>1. UNCHANGED <<biz, base, dir, seq, job, lock, srv, arcVars>>
        BY DEF clusterVars, bizVars
      <3>2. ShelfInv' /\ SrvTyped'
        BY <3>1, ShelfQuiet DEF CluInv, CluTyped, SrvTyped, arcVars
      <3> QED BY <3>1, <3>2, ClusterQuiet DEF arcVars
    <2>2. [Next]_estVars => ClusterNext \/ UNCHANGED clusterVars
      BY DEF Next, estVars
    <2> QED BY <2>1, <2>2, ArcStep, BizStep DEF ClusterNext
  <1>2. Init => CluInv
    BY CluInitInv DEF Init
  <1> QED BY <1>1, <1>2, PTL DEF Spec

\* No outlet trades in two businesses' live databases, whatever provisionings, builds, restores
\* and swaps overlap, though provisionings go on without the role lock, but for one whose id was
\* allocated while somebody without the lock registered it: an outlet in a database nobody was
\* moved from is the directory's (business.js registerOutlet, businessForDb, db.js withRoleLock).
THEOREM OneHomeAlways == Spec => []OneHome
  <1>1. ASSUME CluInv PROVE OneHome
    <2>1. SUFFICES ASSUME NEW b \in Ids, NEW c \in Ids, biz[b].st = "live", biz[c].st = "live",
                          biz[b].db \notin moved, biz[c].db \notin moved, b # c,
                          NEW o \in Shops(biz[b].db) \cap Shops(biz[c].db)
                   PROVE  o \in lock.loose
      BY DEF OneHome
    <2>2. biz[b].db # Pending /\ biz[c].db # Pending
      BY <1>1, <2>1 DEF CluInv, Registry
    <2>3. Homed(o, b) /\ Homed(o, c)
      BY <1>1, <2>1, <2>2 DEF CluInv, Homes
    <2> QED BY <2>1, <2>3 DEF Homed
  <1> QED BY <1>1, ClusterInvariance, PTL

\* createBusiness: the name is in the row before there is a database of that name, and a swap is
\* only to a copy of an archive that stays (NoOrphan).
THEOREM NobodyOrphaned == Spec => []NoOrphan
  <1>1. ASSUME CluInv PROVE NoOrphan
    <2>1. SUFFICES ASSUME NEW d \in Ids, base[d].made PROVE NamedAnywhere(d)
      BY DEF NoOrphan
    <2>2. HasDb(d) \/ GoodOf(d) # {}
      BY <1>1, <2>1 DEF CluInv, Housed, ShelfInv, OnceGood, Databases
    <2> QED BY <2>2 DEF HasDb, GoodOf, NamedAnywhere
  <1> QED BY <1>1, ClusterInvariance, PTL

-----------------------------------------------------------------------------
(* An install on infrastructure of its own.                                *)

StepNos == 1..Len(Steps)
\* All that exists but at most one part is in what one has.
Near(have) == \E s \in StepNos : cloud \subseteq have \cup Makes(s)

InsShaped ==
  /\ row = [st |-> row.st, made |-> row.made, live |-> row.live, sold |-> row.sold]
  /\ build = [at |-> build.at, step |-> build.step, made |-> build.made, roll |-> build.roll]

InsInv ==
  /\ InsShaped
  /\ build.at \in {"off", "run", "asked", "undo", "failed"}
  /\ build.at \in {"run", "asked"} =>
       /\ build.step \in StepNos
       /\ cloud = build.made \cup (IF build.at = "asked" THEN Makes(build.step) ELSE {})
       /\ notes = {} => row.made = build.made
       /\ \E s \in StepNos : build.made \subseteq row.made \cup Makes(s)
  /\ build.at \in {"undo", "failed"} => Near(build.made) /\ row.made = build.made
  /\ build.at # "off" => \A n \in notes : n.made = build.made
  /\ build.at = "off" => \A n \in notes : Near(n.made)
  /\ \E s, t \in StepNos : cloud \subseteq row.made \cup Makes(s) \cup Makes(t)
  /\ row.st = "none" => build.at = "off" /\ cloud = {} /\ row.made = {} /\ notes = {}
  /\ \A n \in notes : n.st # "none"

LEMMA StepNames == /\ Len(Steps) = 8 /\ 1 \in StepNos
                   /\ \A s \in StepNos : Steps[s] # "none"
  <1>1. Len(Steps) = 8
    BY DEF Steps
  <1>2. \A s \in 1..8 : Steps[s] # "none"
    <2> SUFFICES ASSUME NEW s \in 1..8 PROVE Steps[s] # "none"
      OBVIOUS
    <2>1. s = 1 \/ s = 2 \/ s = 3 \/ s = 4 \/ s = 5 \/ s = 6 \/ s = 7 \/ s = 8
      OBVIOUS
    <2> QED BY <2>1 DEF Steps
  <1> QED BY <1>1, <1>2 DEF StepNos

LEMMA InsInitInv == InsInit => InsInv
  <1> SUFFICES ASSUME InsInit PROVE InsInv
    OBVIOUS
  <1>1. PICK l \in Licences : row = [st |-> "none", made |-> {}, live |-> FALSE, sold |-> l]
    BY DEF InsInit
  <1>2. cloud = {} /\ notes = {} /\ build = [at |-> "off", step |-> 0, made |-> {}, roll |-> FALSE]
    BY DEF InsInit, Off
  <1> QED BY <1>1, <1>2, StepNames DEF InsInv, InsShaped

LEMMA InsStep == InsInv /\ InsNext => InsInv'
  <1> SUFFICES ASSUME InsInv, InsNext PROVE InsInv'
    OBVIOUS
  <1>1. PICK r, g : /\ r = row /\ r = [st |-> r.st, made |-> r.made, live |-> r.live, sold |-> r.sold]
                    /\ g = build /\ g = [at |-> g.at, step |-> g.step, made |-> g.made, roll |-> g.roll]
    BY DEF InsInv, InsShaped
  <1>2. Off = [at |-> "off", step |-> 0, made |-> {}, roll |-> FALSE]
    BY DEF Off
  <1>3. CASE ProvisionInstall
    <2>1. PICK roll \in BOOLEAN : build' = [Off EXCEPT !.at = "run", !.step = 1, !.roll = roll]
      BY <1>3 DEF ProvisionInstall
    <2>2. build' = [at |-> "run", step |-> 1, made |-> {}, roll |-> roll]
      BY <1>2, <2>1
    <2>3. row' = [st |-> "starting", made |-> {}, live |-> r.live, sold |-> r.sold] /\ UNCHANGED cloud /\ cloud = {}
      BY <1>1, <1>3 DEF ProvisionInstall, InsInv
    <2>4. PICK x : notes' = {[st |-> x, made |-> {}]} /\ x # "none"
      BY <1>3, StepNames DEF ProvisionInstall, Note
    <2> QED BY <2>2, <2>3, <2>4, StepNames DEF InsInv, InsShaped, Near
  <1>4. CASE Land
    <2>1. PICK n \in notes : /\ notes' = notes \ {n} /\ n.st # "none"
                             /\ row' = [st |-> n.st, made |-> n.made, live |-> r.live, sold |-> r.sold]
      BY <1>1, <1>4 DEF Land, InsInv
    <2>2. UNCHANGED <<cloud, build>>
      BY <1>4 DEF Land
    <2>3. InsShaped'
      BY <2>1, <2>2 DEF InsShaped, InsInv
    <2>4. CASE build.at = "off"
      BY <2>1, <2>2, <2>3, <2>4 DEF InsInv, Near
    <2>5. CASE build.at # "off"
      <3>1. n.made = build.made
        BY <2>5 DEF InsInv
      <3>2. \E s, t \in StepNos : cloud \subseteq build.made \cup Makes(s) \cup Makes(t)
        BY <2>5, StepNames DEF InsInv, Near
      <3> QED BY <2>1, <2>2, <2>3, <2>5, <3>1, <3>2, StepNames DEF InsInv, Near
    <2> QED BY <2>4, <2>5
  <1>5. CASE Ask
    <2>1. /\ g.at = "run" /\ cloud' = g.made \cup Makes(g.step) /\ g.step \in StepNos
          /\ build' = [at |-> "asked", step |-> g.step, made |-> g.made, roll |-> g.roll]
          /\ UNCHANGED <<row, notes>>
      BY <1>1, <1>5 DEF Ask, InsInv
    <2> QED BY <1>1, <2>1 DEF InsInv, InsShaped
  <1>6. CASE Answered
    <2>1. PICK m : m = g.made \cup Makes(g.step)
      OBVIOUS
    <2>2. /\ g.at = "asked" /\ notes = {} /\ g.step \in StepNos /\ g.step + 1 \in StepNos
          /\ build' = [at |-> "run", step |-> g.step + 1, made |-> m, roll |-> g.roll]
          /\ notes' = {[st |-> Steps[g.step], made |-> m], [st |-> Steps[g.step + 1], made |-> m]}
          /\ UNCHANGED <<row, cloud>>
      <3>1. g.at = "asked" /\ notes = {} /\ g.step \in StepNos /\ g.step < 8 /\ UNCHANGED <<row, cloud>>
        BY <1>1, <1>6, StepNames DEF Answered, InsInv
      <3>2. g.step + 1 \in StepNos
        BY <3>1, StepNames DEF StepNos
      <3>3. /\ build' = [build EXCEPT !.at = "run", !.step = @ + 1, !.made = m]
            /\ notes' = {Note(Steps[g.step], m), Note(Steps[g.step + 1], m)}
        BY <1>1, <1>6, <2>1 DEF Answered
      <3>4. build' = [at |-> "run", step |-> g.step + 1, made |-> m, roll |-> g.roll]
        BY <1>1, <3>3
      <3> QED BY <3>1, <3>2, <3>3, <3>4 DEF Note
    <2>3. cloud = m /\ r.made = g.made /\ r.st # "none"
      BY <1>1, <2>1, <2>2 DEF InsInv
    <2>4. \A n \in notes' : n.made = m /\ n.st # "none"
      BY <2>2, StepNames
    <2> QED BY <1>1, <2>1, <2>2, <2>3, <2>4 DEF InsInv, InsShaped
  <1>7. CASE Lives
    <2>1. /\ g.at = "asked" /\ notes = {} /\ g.step \in StepNos /\ build' = Off
          /\ notes' = {[st |-> "live", made |-> g.made]} /\ UNCHANGED cloud
          /\ row' = [st |-> "live", made |-> g.made, live |-> TRUE, sold |-> r.sold]
      BY <1>1, <1>7 DEF Lives, InsInv, Note
    <2>2. cloud = g.made \cup Makes(g.step)
      BY <1>1, <2>1 DEF InsInv
    <2> QED BY <1>2, <2>1, <2>2 DEF InsInv, InsShaped, Near
  <1>8. CASE Fails
    <2>1. PICK a \in {"undo", "failed"} :
            /\ g.at \in {"run", "asked"} /\ notes = {} /\ g.step \in StepNos
            /\ build' = [at |-> a, step |-> g.step, made |-> g.made, roll |-> g.roll]
            /\ notes' = {[st |-> "step-failed", made |-> g.made]} /\ UNCHANGED <<row, cloud>>
      <3>1. PICK a : a = IF g.at = "run" \/ ~g.roll THEN "failed" ELSE "undo"
        OBVIOUS
      <3>2. build' = [at |-> a, step |-> g.step, made |-> g.made, roll |-> g.roll]
        BY <1>1, <1>8, <3>1 DEF Fails
      <3> QED BY <1>1, <1>8, <3>1, <3>2 DEF Fails, InsInv, Note
    <2>2. cloud \subseteq g.made \cup Makes(g.step) /\ r.made = g.made /\ r.st # "none"
      BY <1>1, <2>1 DEF InsInv
    <2>3. InsShaped' /\ build'.at = a /\ build'.made = g.made
      BY <1>1, <2>1 DEF InsShaped
    <2>4. Near(g.made) /\ \E s, t \in StepNos : cloud \subseteq r.made \cup Makes(s) \cup Makes(t)
      BY <2>1, <2>2 DEF Near
    <2>5. \A n \in notes' : n.made = g.made /\ n.st # "none"
      BY <2>1
    <2>6. row' = r /\ cloud' = cloud
      BY <1>1, <2>1
    <2> QED BY <2>1, <2>2, <2>3, <2>4, <2>5, <2>6 DEF InsInv, Near
  <1>9. CASE Undo
    <2>1. /\ g.at = "undo" /\ cloud' \subseteq cloud /\ UNCHANGED <<row, notes>>
          /\ build' = [at |-> "failed", step |-> g.step, made |-> g.made, roll |-> g.roll]
      BY <1>1, <1>9 DEF Undo
    <2> QED BY <1>1, <2>1 DEF InsInv, InsShaped, Near
  <1>10. CASE SayWhy
    <2>1. /\ g.at = "failed" /\ build' = Off /\ UNCHANGED <<row, cloud>>
          /\ notes' = notes \cup {[st |-> "failed", made |-> g.made]}
      BY <1>1, <1>10 DEF SayWhy, Note
    <2>2. Near(g.made) /\ \A n \in notes' : n.made = g.made /\ n.st # "none"
      BY <1>1, <2>1 DEF InsInv
    <2> QED BY <1>1, <1>2, <2>1, <2>2 DEF InsInv, InsShaped, Near
  <1>11. CASE PanelStops
    BY <1>2, <1>11 DEF PanelStops, InsInv, InsShaped
  <1>12. CASE Sell
    <2>1. PICK l : /\ row' = [st |-> r.st, made |-> r.made, live |-> r.live, sold |-> l]
                   /\ UNCHANGED <<cloud, build, notes>>
      BY <1>1, <1>12 DEF Sell
    <2> QED BY <1>1, <2>1 DEF InsInv, InsShaped, Near
  <1>13. CASE UNCHANGED <<row, cloud, build, notes>>
    BY <1>13 DEF InsInv, InsShaped, Near
  <1> QED BY <1>3, <1>4, <1>5, <1>6, <1>7, <1>8, <1>9, <1>10, <1>11, <1>12, <1>13
          DEF InsNext, RestoredThere, Look, ProbeInstall, Push, Unanswered

THEOREM InstallInvariance == Spec => []InsInv
  <1>1. InsInv /\ [Next]_estVars => InsInv'
    <2>1. InsInv /\ UNCHANGED insVars => InsInv'
      BY DEF insVars, InsInv, InsShaped, Near
    <2>2. [Next]_estVars => InsNext \/ UNCHANGED insVars
      BY DEF Next, estVars
    <2> QED BY <2>1, <2>2, InsStep
  <1>2. Init => InsInv
    BY InsInitInv DEF Init
  <1> QED BY <1>1, <1>2, PTL DEF Spec

\* panel/server.js: what was made and is not named on the row is at most the last two parts,
\* wherever building stops.
THEOREM FewAreUnnamed == Spec => []FewUnnamed
  <1>1. ASSUME InsInv PROVE FewUnnamed
    <2>1. PICK s \in StepNos, t \in StepNos : cloud \subseteq row.made \cup Makes(s) \cup Makes(t)
      BY <1>1 DEF InsInv
    <2>2. PICK x, y : x = Steps[s] /\ y = Steps[t]
      OBVIOUS
    <2>3. cloud \ row.made \subseteq {x} \cup {y}
      BY <2>1, <2>2 DEF Makes
    <2>4. IsFiniteSet({x}) /\ Cardinality({x}) = 1
      BY FS_Singleton
    <2>5. IsFiniteSet({x} \cup {y}) /\ Cardinality({x} \cup {y}) \in {1, 2}
      BY <2>4, FS_AddElement
    <2>6. Cardinality(cloud \ row.made) <= Cardinality({x} \cup {y}) /\ IsFiniteSet(cloud \ row.made)
      BY <2>3, <2>5, FS_Subset
    <2>7. Cardinality(cloud \ row.made) \in Nat
      BY <2>6, FS_CardinalityType
    <2> QED BY <2>5, <2>6, <2>7 DEF FewUnnamed
  <1> QED BY <1>1, InstallInvariance, PTL

\* Every database of the cluster, and all but the last two parts of an install, are named where
\* an operator looks.
THEOREM NothingIsUnnamed == Spec => []NothingUnnamed
  BY NobodyOrphaned, FewAreUnnamed, PTL DEF NothingUnnamed
=============================================================================
