----------------------------- MODULE Onboarding -----------------------------
(***************************************************************************)
(* Setting a store up (src/routes/onboarding.js): a page asks /state where *)
(* it is, and saves the steps one after another.  The steps before there   *)
(* is an owner go to the business the account token resolves to, the later *)
(* ones to the store of the session.  A handler reads, then writes; what a *)
(* later statement writes goes by what the earlier one read.               *)
(***************************************************************************)
EXTENDS Integers, Sequences

CONSTANTS
  Panels,       \* pages on which a store is being set up
  Firms,        \* live businesses that belong to accounts
  Situations,   \* the situations to start from: [owns, front, fence, coded]
  MaxTroubles   \* bound on what goes wrong, and on changes of mind

Own == 0        \* the database of the server's own connection
Nowhere == -1
ASSUME OnboardingAssumption == Own \notin Firms /\ Nowhere \notin Firms
\* Of the businesses an account has, one is the newest.
ASSUME SituationAssumption ==
  \A s \in Situations, p \in Panels :
    s.owns[p] # {} => \E b \in s.owns[p] : \A c \in s.owns[p] : c <= b

VARIABLES
  setting,   \* owns: whose account a panel carries, by its businesses; front: is Own a
             \* business; fence: ONBOARDING_CLAIM_TOKEN is set; coded: who was given it
  firm,      \* each database: [company, credit, gst, outlet, rates, staff, parts, by]
  panel,     \* each page: [asked, acct, token, cur, at, db, saw]; acct: the account token
             \* it carries is "held", "lost", or held "again"
  troubles

onbVars == <<setting, firm, panel, troubles>>

\* units and staff are left out: /state counts them as done with the outlet and the owner.
\* "records" stands for the steps that save a list or a form through applyOp, each in one
\* transaction: the chart's bank, locations, items, menu, floor; and for the device.
STEPS == <<"company", "outlet", "owner", "tax", "series", "records", "register">>
Open == {"company", "outlet", "owner"}

NoFirm == [company |-> FALSE, credit |-> 0, gst |-> FALSE, outlet |-> FALSE, rates |-> {},
           staff |-> 0, parts |-> {}, by |-> {}]
Closed == [asked |-> 0, acct |-> "held", token |-> Nowhere, cur |-> 1, at |-> "away",
           db |-> Nowhere, saw |-> FALSE]

OnbInit ==
  /\ setting \in Situations
  /\ firm = [b \in Firms \cup {Own} |-> NoFirm]
  /\ panel = [p \in Panels |-> Closed]
  /\ troubles = 0

Owns(p) == setting.owns[p]
\* No account, or a token that is expired or not verified, or of an account that is not active.
Anonymous(p) == Owns(p) = {} \/ panel[p].acct = "lost"
Newest(bs) == CHOOSE b \in bs : \A c \in bs : c <= b
Step(p) == STEPS[panel[p].cur]
Db(p) == firm[panel[p].db]

\* state.done: what /state finds in the records.
StepsDone(b) ==
  (IF firm[b].company THEN {"company"} ELSE {}) \cup (IF firm[b].outlet THEN {"outlet"} ELSE {})
  \cup (IF firm[b].staff > 0 THEN {"owner"} ELSE {})
  \cup (IF firm[b].outlet /\ firm[b].rates # {} THEN {"tax"} ELSE {}) \cup firm[b].parts
Complete(b) == \A i \in DOMAIN STEPS : STEPS[i] \in StepsDone(b)
\* Mutant: the page opens on step 1 every time.
FirstOfAll(b) == 1

FirstUndone(b) ==
  CHOOSE i \in DOMAIN STEPS :
    STEPS[i] \notin StepsDone(b) /\ \A j \in 1..(i - 1) : STEPS[j] \in StepsDone(b)

\* Mutant: a registry that cannot be read counts as no account.
UnreadIsAnonymous(p) == IF setting.front THEN {Own} ELSE {}

\* The account could not be resolved: the request fails.
Unread(p) == {}

\* Which business (biz): the one asked for if it is owned, else the newest; of who counts as
\* nobody, whatever is asked for, the process's own database, if that is a business.
Picked(p) ==
  IF Anonymous(p) THEN (IF setting.front THEN {Own} ELSE {})
  ELSE IF panel[p].asked = 0 THEN {Newest(Owns(p))}
  ELSE {panel[p].asked} \cap Owns(p)

\* claim: asked of nobody whose account has a business.
Coded(p) == setting.fence => p \in setting.coded
Admitted(p) == Anonymous(p) => Coded(p)
SignedInHere(p) == panel[p].token = panel[p].db

Moves(p, at) == panel' = [panel EXCEPT ![p].at = at]
Refused(p) ==
  panel' = [panel EXCEPT ![p].at = "away", ![p].db = Nowhere, ![p].saw = FALSE]
Trouble == troubles < MaxTroubles /\ troubles' = troubles + 1
-----------------------------------------------------------------------------
\* begin, refresh: the page opens on the first step that is not done, and keeps to the
\* business it was told of; a link to somebody else's is refused and followed no further.
\* Of an account that does not count the page hears nothing, or of the process's own store.
Load(p) ==
  /\ panel[p].at = "away"
  /\ IF Picked(p) = {} THEN ~Anonymous(p) /\ panel' = [panel EXCEPT ![p].asked = 0]
     ELSE \E b \in Picked(p) :
            panel' = [panel EXCEPT
              ![p].asked = IF Anonymous(p) THEN @ ELSE b,
              ![p].at = IF Complete(b) THEN "left" ELSE "form",
              ![p].cur = IF Complete(b) THEN 1 ELSE FirstUndone(b)]
  /\ UNCHANGED <<setting, firm, troubles>>

\* The page is opened by a link that names a business, or a step is gone back to.
Relink(p) ==
  /\ panel[p].at = "away" /\ Trouble
  /\ \E b \in Firms : panel' = [panel EXCEPT ![p].asked = b]
  /\ UNCHANGED <<setting, firm>>

Back(p) ==
  /\ panel[p].at = "form" /\ Trouble
  /\ \E i \in 1..(panel[p].cur - 1) : panel' = [panel EXCEPT ![p].cur = i]
  /\ UNCHANGED <<setting, firm>>

\* A request is lost, or its answer, or the server stops: nothing more of it is done.
CutOff(p) ==
  /\ panel[p].at \notin {"away", "form", "left"} /\ Trouble /\ Refused(p)
  /\ UNCHANGED <<setting, firm>>

\* The account's token runs out, or the account is suspended, in the middle of a setup; and
\* its owner signs in again, or it is restored, and the page is opened from the account's.
Lapse(p) ==
  /\ Owns(p) # {} /\ panel[p].acct # "lost" /\ panel[p].at \in {"away", "form"} /\ Trouble
  /\ panel' = [panel EXCEPT ![p].acct = "lost"]
  /\ UNCHANGED <<setting, firm>>

Renew(p) ==
  /\ panel[p].acct = "lost" /\ panel[p].at \in {"away", "form", "left"}
  /\ panel' = [panel EXCEPT ![p].acct = "again", ![p].at = "away"]
  /\ UNCHANGED <<setting, firm, troubles>>

\* The session was signed out, or ran out.
LoseToken(p) ==
  /\ panel[p].token # Nowhere /\ panel[p].at \in {"away", "form"} /\ Trouble
  /\ panel' = [panel EXCEPT ![p].token = Nowhere]
  /\ UNCHANGED <<setting, firm>>

\* POST /pin at the store's own keypad: the one the page is about, or another of theirs.
SignIn(p, b) ==
  /\ panel[p].at \in {"away", "form"} /\ firm[b].staff > 0 /\ panel[p].token # b
  /\ b \in Owns(p) \/ p \in firm[b].by
  /\ b \in Picked(p) \/ troubles < MaxTroubles
  /\ troubles' = IF b \in Picked(p) THEN troubles ELSE troubles + 1
  /\ panel' = [panel EXCEPT ![p].token = b]
  /\ UNCHANGED <<setting, firm>>

Save(p) ==
  /\ panel[p].at = "form" /\ Moves(p, "resolve")
  /\ UNCHANGED <<setting, firm, troubles>>

\* The two middlewares that resolve the account and turn away who has no business, then
\* claim (the three open steps) or session (the others).
Resolve(p) ==
  /\ panel[p].at = "resolve"
  /\ \E read \in BOOLEAN :
       LET found == IF read THEN Picked(p) ELSE Unread(p)
           to == IF Step(p) \in Open THEN found ELSE {panel[p].token} \ {Nowhere}
           let == IF Step(p) \in Open THEN Admitted(p) ELSE found # {}
       IN /\ IF read THEN UNCHANGED troubles ELSE Trouble /\ ~Anonymous(p)
          /\ IF to = {} \/ ~let THEN Refused(p)
             ELSE \E b \in to : panel' = [panel EXCEPT ![p].db = b, ![p].at = "look"]
  /\ UNCHANGED <<setting, firm>>

\* What the handler reads before it writes, and what it refuses on the spot.  Whether the
\* company is registered is asked of the business the request resolves to (biz), also where
\* the step is saved into the store of the session.
ReadFirst(p) ==
  /\ panel[p].at = "look"
  /\ LET s == Step(p)  f == Db(p) IN
     IF \/ s = "company" /\ f.company /\ ~SignedInHere(p)
        \/ s = "outlet" /\ f.outlet /\ ~SignedInHere(p)
        \/ s = "owner" /\ (~f.outlet \/ f.staff > 0)
     THEN Refused(p)
     ELSE panel' = [panel EXCEPT ![p].at = "write",
                                 ![p].saw = /\ s \in {"outlet", "tax"}
                                            /\ \E b \in Picked(p) : firm[b].company /\ firm[b].gst]
  /\ UNCHANGED <<setting, firm, troubles>>

Writes(p, f) == firm' = [firm EXCEPT ![panel[p].db] = [f EXCEPT !.by = @ \cup {p}]]

\* owner_account_id = coalesce(owner_account_id, ...), or WHERE owner_account_id IS NULL
Credit(p, f) == IF f.credit # 0 \/ Anonymous(p) THEN f.credit ELSE p

\* One transaction: the company, its outlets' rates if it is not registered, the credit.
\* (The registry is told the company's name afterwards, and may miss it.)
Company(p) ==
  /\ panel[p].at = "write" /\ Step(p) = "company" /\ Moves(p, "answer")
  /\ \E gst \in BOOLEAN :
       /\ Db(p).company /\ gst # Db(p).gst => troubles < MaxTroubles
       /\ troubles' = IF Db(p).company /\ gst # Db(p).gst THEN troubles + 1 ELSE troubles
       /\ Writes(p, [Db(p) EXCEPT !.company = TRUE, !.gst = gst, !.credit = Credit(p, Db(p)),
                                  !.rates = IF gst THEN @ ELSE @ \ {"rate"}])
  /\ UNCHANGED setting

Rate(p) == IF panel[p].saw THEN "rate" ELSE "NONE"

\* provisionOutlet, in one transaction: the store with its series, its chart and a rate by
\* what was read of the registration, which the trigger asks for again.  /state and the
\* steps after it are about the first store: of a second one nothing is kept here.
Outlet(p) ==
  /\ panel[p].at = "write" /\ Step(p) = "outlet"
  /\ IF panel[p].saw /\ ~Db(p).gst THEN Refused(p) /\ UNCHANGED firm
     ELSE /\ Moves(p, "answer")
          /\ Writes(p, IF Db(p).outlet THEN Db(p)
                       ELSE [Db(p) EXCEPT !.outlet = TRUE, !.parts = @ \cup {"series"},
                                          !.rates = @ \cup {Rate(p)}])
  /\ UNCHANGED <<setting, troubles>>

\* claim_first_owner, whose EXISTS holds nobody off; the session; the account's credit;
\* the answer with the token.  Each is a transaction of its own.  (The account's row in
\* account_business is there already: it is what the request was resolved by.)
ClaimOwner(p) ==
  /\ panel[p].at = "write" /\ Step(p) = "owner" /\ Moves(p, "session")
  /\ Writes(p, [Db(p) EXCEPT !.staff = @ + 1])
  /\ UNCHANGED <<setting, troubles>>

Session(p) ==
  /\ panel[p].at = "session" /\ Moves(p, "credit")
  /\ UNCHANGED <<setting, firm, troubles>>

OwnerSet(p) ==
  /\ panel[p].at = "credit" /\ Moves(p, "answer")
  /\ Writes(p, [Db(p) EXCEPT !.credit = Credit(p, Db(p))])
  /\ UNCHANGED <<setting, troubles>>

\* The rate version the company's registration allows, as it was read; the trigger reads
\* it again, and refuses a rate nobody may charge.
Tax(p) ==
  /\ panel[p].at = "write" /\ Step(p) = "tax"
  /\ IF panel[p].saw /\ ~Db(p).gst THEN Refused(p) /\ UNCHANGED firm
     ELSE /\ Moves(p, "answer")
          /\ Writes(p, [Db(p) EXCEPT !.rates = @ \cup {Rate(p)}])
  /\ UNCHANGED <<setting, troubles>>

\* The steps that write one transaction through the handlers of the running app.
Part(p) ==
  /\ panel[p].at = "write" /\ Step(p) \notin Open \cup {"tax"} /\ Moves(p, "answer")
  /\ Writes(p, [Db(p) EXCEPT !.parts = @ \cup {Step(p)}])
  /\ UNCHANGED <<setting, troubles>>

\* Saved: the next step, and after the last one /finish, which only records it, and the floor.
Answer(p) ==
  /\ panel[p].at = "answer"
  /\ panel' = [panel EXCEPT
       ![p].db = Nowhere, ![p].saw = FALSE,
       ![p].token = IF Step(p) = "owner" THEN panel[p].db ELSE @,
       ![p].at = IF panel[p].cur = Len(STEPS) THEN "away" ELSE "form",
       ![p].cur = IF @ = Len(STEPS) THEN @ ELSE @ + 1]
  /\ UNCHANGED <<setting, firm, troubles>>

\* PATCH /gst, by an owner who is signed in: the company, its outlets and rates at once.
Gst(p) ==
  /\ panel[p].token # Nowhere /\ panel[p].at = "form" /\ Trouble
  /\ LET b == panel[p].token IN
     firm' = [firm EXCEPT ![b].gst = ~@,
                ![b].rates = IF firm[b].gst THEN @ \ {"rate"} ELSE @ \cup {"rate"}]
  /\ UNCHANGED <<setting, panel>>

Handle(p) ==
  \/ Resolve(p) \/ ReadFirst(p) \/ Company(p) \/ Outlet(p)
  \/ ClaimOwner(p) \/ Session(p) \/ OwnerSet(p) \/ Tax(p) \/ Part(p) \/ Answer(p)

OnbNext ==
  \E p \in Panels :
    \/ Load(p) \/ Relink(p) \/ Back(p) \/ CutOff(p) \/ LoseToken(p) \/ Lapse(p) \/ Renew(p)
    \/ Save(p) \/ Handle(p) \/ Gst(p)
    \/ \E b \in Firms \cup {Own} : SignIn(p, b)
-----------------------------------------------------------------------------
\* Who has been nobody to the server for a while, and may come to its own database.
Unaccounted(p) == Owns(p) = {} \/ panel[p].acct # "held"

Rightful(p) ==
  Owns(p) \cup IF Unaccounted(p) /\ setting.front /\ Coded(p) THEN {Own} ELSE {}

(* No step of a setup is written into a database other than a business of the account that  *)
(* makes it, or, by somebody whose account did not count at some time and with the code if  *)
(* there is one, the process's own: whichever of several businesses a page, a link and a    *)
(* session name, and though the registry may not be readable when it is asked.              *)
AtHome == \A b \in DOMAIN firm : \A p \in firm[b].by : b \in Rightful(p)

\* No page of an account that has a business has written into the process's own database,
\* which the code's comment on the first middleware asks for and an account that stops
\* counting in the middle of a setup escapes.
NeverAstray == \A p \in Panels : Owns(p) # {} => p \notin firm[Own].by
=============================================================================
