------------------------------ MODULE Accounts ------------------------------
(***************************************************************************)
(* The owner's account of one address (src/routes/account.js): made by     *)
(* whoever types the address, or by a provider that vouches for it, proved *)
(* by a code that is mailed to it, signed in to by code or by password.    *)
(* Every request reads the row once, when it begins, and what it writes    *)
(* afterwards goes by what it read; no two statements share a transaction. *)
(***************************************************************************)
EXTENDS Naturals

CONSTANTS
  Clients,     \* requests at the same time
  CodeTries,   \* CODE_TRIES
  LockTries,   \* LOCK_TRIES
  Limit,       \* MAX_BUSINESSES_PER_ACCOUNT
  MaxCalls     \* bound on requests, and on what goes wrong

VARIABLES
  acct,        \* chain.account's row: [on, verified, pw, code, tries, failed, locked, known]
  req,         \* what each client's request read, and where it stands
  linked,      \* chain.account_business rows
  signed,      \* a session was given
  calls        \* requests made

accVars == <<acct, req, linked, signed, calls>>

\* pw is nobody's ("none"), or typed before the address was proved, or by who proved it.
NoRow == [on |-> FALSE, verified |-> FALSE, pw |-> "none", code |-> FALSE, tries |-> 0,
          failed |-> 0, locked |-> FALSE, known |-> FALSE]
Quiet == [kind |-> "none", at |-> "", seen |-> NoRow]

AccInit ==
  /\ acct = NoRow /\ req = [c \in Clients |-> Quiet]
  /\ linked = 0 /\ signed = FALSE /\ calls = 0

\* byEmail, at the head of every request; one with a session finds the row by its id.
Call(c, kind) ==
  /\ req[c] = Quiet /\ calls < MaxCalls /\ calls' = calls + 1
  /\ kind \in {"password", "business"} => signed /\ acct.on
  /\ req' = [req EXCEPT ![c] = [kind |-> kind, at |-> "read", seen |-> acct]]
  /\ UNCHANGED <<acct, linked, signed>>

On(c, kind, at) == req[c].kind = kind /\ req[c].at = at
Goes(c, at) == req' = [req EXCEPT ![c].at = at]
Ends(c) == req' = [req EXCEPT ![c] = Quiet]
Saw(c) == req[c].seen

\* A request fails, or the server stops, between two statements.
Cut(c) ==
  /\ req[c] # Quiet /\ calls < MaxCalls /\ calls' = calls + 1 /\ Ends(c)
  /\ UNCHANGED <<acct, linked, signed>>
-----------------------------------------------------------------------------
\* issueCode: a new code in place of the old one, and its tries are counted from nothing.
IssueCode(c) ==
  /\ req[c].at = "issue" /\ Ends(c)
  /\ acct' = [acct EXCEPT !.code = TRUE, !.tries = 0]
  /\ UNCHANGED <<linked, signed, calls>>

\* /signup: an address that is known gets a code; one that is not gets a row, with the
\* password that was typed.  The address is unique: the second of two inserts fails.
Signup(c) ==
  /\ On(c, "signup", "read")
  /\ IF Saw(c).on THEN Goes(c, "issue") /\ UNCHANGED acct
     ELSE IF acct.on THEN Ends(c) /\ UNCHANGED acct
     ELSE /\ \E pw \in {"none", "early"} : acct' = [NoRow EXCEPT !.on = TRUE, !.pw = pw]
          /\ Goes(c, "issue")
  /\ UNCHANGED <<linked, signed, calls>>

AskCode(c) ==
  /\ On(c, "code", "read")
  /\ IF Saw(c).on THEN Goes(c, "issue") ELSE Ends(c)
  /\ UNCHANGED <<acct, linked, signed, calls>>

\* clearCode
ClearCode(proved) ==
  [acct EXCEPT !.code = FALSE, !.tries = 0, !.verified = proved \/ @,
               !.failed = IF proved THEN 0 ELSE @]

\* Mutant: whoever proves the address and types no password keeps the one that is there.
KeepTyped(typed) == IF typed = "none" THEN acct.pw ELSE typed
\* The first proof of an address decides its password: what was typed with it, or none.
FirstProof(typed) == typed

\* /code/verify.  A code expires, runs out of tries, does not match, or is proof.
Verify(c) ==
  /\ On(c, "verify", "read")
  /\ LET seen == Saw(c) IN
       \/ ~seen.code /\ Ends(c) /\ UNCHANGED acct
       \/ /\ seen.code                           \* expired, or out of tries
          /\ acct' = ClearCode(FALSE) /\ Ends(c)
       \/ /\ seen.code /\ seen.tries < CodeTries       \* a wrong one
          /\ acct' = [acct EXCEPT !.tries = @ + 1] /\ Ends(c)
       \/ /\ seen.code /\ seen.tries < CodeTries
          /\ IF seen.verified THEN UNCHANGED acct
             ELSE \E typed \in {"none", "own"} : acct' = [acct EXCEPT !.pw = FirstProof(typed)]
          /\ Goes(c, "proved")
  /\ UNCHANGED <<linked, signed, calls>>

VerifyEnds(c) ==
  /\ On(c, "verify", "proved") /\ acct' = ClearCode(TRUE) /\ signed' = TRUE /\ Ends(c)
  /\ UNCHANGED <<linked, calls>>

\* /signin: a wrong password is counted from what was read, and enough of them lock the row.
Signin(c) ==
  /\ On(c, "signin", "read") /\ Ends(c)
  /\ LET seen == Saw(c) n == seen.failed + 1 IN
       \/ (~seen.on \/ seen.pw = "none" \/ seen.locked) /\ UNCHANGED <<acct, signed>>
       \/ /\ seen.pw # "none" /\ ~seen.locked
          /\ acct' = [acct EXCEPT !.failed = n, !.locked = n >= LockTries \/ @]
          /\ UNCHANGED signed
       \/ /\ seen.pw # "none" /\ ~seen.locked /\ seen.verified
          /\ acct' = [acct EXCEPT !.failed = 0, !.locked = FALSE] /\ signed' = TRUE
  /\ UNCHANGED <<linked, calls>>

LockPasses ==
  /\ acct.locked /\ acct' = [acct EXCEPT !.locked = FALSE]
  /\ UNCHANGED <<req, linked, signed, calls>>

\* /password, of who is signed in.
SetPassword(c) ==
  /\ On(c, "password", "read") /\ Ends(c)
  /\ acct' = [acct EXCEPT !.pw = "own"]
  /\ UNCHANGED <<linked, signed, calls>>

\* linkIdentity, with an address the provider has verified: a row it makes is proved, and one
\* it finds unproved loses its password.
Provider(c) ==
  /\ On(c, "provider", "read")
  /\ LET seen == Saw(c) IN
       IF seen.known THEN Goes(c, "in") /\ UNCHANGED acct
       ELSE IF ~seen.on
       THEN IF acct.on THEN Ends(c) /\ UNCHANGED acct
            ELSE Goes(c, "link") /\ acct' = [NoRow EXCEPT !.on = TRUE, !.verified = TRUE]
       ELSE /\ Goes(c, "link")
            /\ acct' = IF seen.verified THEN acct
                       ELSE [acct EXCEPT !.verified = TRUE, !.pw = "none"]
  /\ UNCHANGED <<linked, signed, calls>>

ProviderEnds(c) ==
  /\ req[c].at \in {"link", "in"} /\ Ends(c)
  /\ acct' = [acct EXCEPT !.known = TRUE] /\ signed' = TRUE
  /\ UNCHANGED <<linked, calls>>

\* /business: of an address that is proved, up to the limit; then it is built, and linked.
Business(c) ==
  /\ On(c, "business", "read")
  /\ IF Saw(c).verified /\ linked < Limit THEN Goes(c, "build") ELSE Ends(c)
  /\ UNCHANGED <<acct, linked, signed, calls>>

Link(c) ==
  /\ On(c, "business", "build") /\ Ends(c) /\ linked' = linked + 1
  /\ UNCHANGED <<acct, signed, calls>>

AccNext ==
  \/ \E c \in Clients :
       \/ \E k \in {"signup", "code", "verify", "signin", "password", "provider", "business"} :
            Call(c, k)
       \/ Signup(c) \/ AskCode(c) \/ IssueCode(c) \/ Verify(c) \/ VerifyEnds(c) \/ Signin(c)
       \/ SetPassword(c) \/ Provider(c) \/ ProviderEnds(c) \/ Business(c) \/ Link(c) \/ Cut(c)
  \/ LockPasses
-----------------------------------------------------------------------------
(* A password that was typed before the address was proved opens nothing afterwards,       *)
(* however signing up, proving and a provider overlap (account.js: "the first proof of an   *)
(* address decides its password").                                                          *)
VerifiedPasswordIsProven == acct.verified => acct.pw # "early"
=============================================================================
