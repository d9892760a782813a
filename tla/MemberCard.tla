----------------------------- MODULE MemberCard -----------------------------
(***************************************************************************)
(* A member's card: invited from the counter, opened with a code, closed   *)
(* by the counter (routes/guest.js, routes/outlet.js, migrations 007, 020, *)
(* 046 and 057).                                                           *)
(*                                                                         *)
(* Each handler is one transaction on the member's row, which it locks     *)
(* with the first UPDATE it makes, so two of them do not interleave.  The  *)
(* code is sent after that transaction has committed: by mail where that   *)
(* works, and by a second transaction on the floor board otherwise.        *)
(***************************************************************************)
EXTENDS Integers, FiniteSets

CONSTANTS Members, MaxCodes, MaxInvites, CodeTries  \* CODE_TRIES
ASSUME CardAssumption == MaxCodes \in Nat /\ MaxInvites \in Nat /\ CodeTries \in Nat

VARIABLES
  card,      \* chain.member: [code, tries, lapsed, invite, used, revoked]
  codes,     \* codes drawn so far: a code is its number
  invites,   \* tokens drawn so far
  sending,   \* codes committed and not yet sent: <<member, code>>
  inbox,     \* codes that reached the member's mail
  board,     \* codes on the floor board
  pass,      \* members whose phone holds a member token
  guessed    \* history: how often each code was compared with another one

cardVars == <<card, codes, invites, sending, inbox, board, pass, guessed>>

NoCard == [code |-> 0, tries |-> 0, lapsed |-> FALSE, invite |-> 0, used |-> FALSE,
           revoked |-> FALSE]

CardFrom(held) ==
  /\ card = [m \in Members |-> NoCard]
  /\ codes = 0 /\ invites = 0
  /\ sending = {} /\ inbox = {} /\ board = {} /\ pass = held
  /\ guessed = [n \in 1..MaxCodes |-> 0]
CardInit == CardFrom({})

\* member_code_set: a new code takes the place of the last, its tries with it.
WithCode(m, n) == [card EXCEPT ![m].code = n, ![m].tries = 0, ![m].lapsed = FALSE]
Coded(m) ==
  /\ codes < MaxCodes /\ codes' = codes + 1
  /\ card' = WithCode(m, codes + 1)
  /\ sending' = sending \cup {<<m, codes + 1>>}

\* member_code_clear
Cleared(m) == [card EXCEPT ![m].code = 0, ![m].tries = 0, ![m].lapsed = FALSE]

\* POST member/start, for a number that is one member's: the revoked get no code.
StartCard(m) ==
  /\ ~card[m].revoked /\ Coded(m)
  /\ UNCHANGED <<invites, inbox, board, pass, guessed>>

\* POST member/:id/invite: the token before stops working; a card taken back opens.
Invite(m) ==
  /\ invites < MaxInvites /\ invites' = invites + 1
  /\ card' = [card EXCEPT ![m].invite = invites + 1, ![m].used = FALSE, ![m].revoked = FALSE]
  /\ UNCHANGED <<codes, sending, inbox, board, pass, guessed>>

\* member_invite_spend
Spendable(m, t) == card[m].invite = t /\ ~card[m].used /\ ~card[m].revoked

\* POST member/join/code: the token is spent and a code set in one transaction.
JoinCode(m, t) ==
  /\ Spendable(m, t)
  /\ codes < MaxCodes /\ codes' = codes + 1
  /\ card' = [WithCode(m, codes + 1) EXCEPT ![m].used = TRUE]
  /\ sending' = sending \cup {<<m, codes + 1>>}
  /\ UNCHANGED <<invites, inbox, board, pass, guessed>>

\* The mail is tried once; what it answers decides whether the board has the code.
Send(m, n) ==
  /\ <<m, n>> \in sending /\ sending' = sending \ {<<m, n>>}
  /\ \/ inbox' = inbox \cup {n} /\ UNCHANGED board
     \/ board' = board \cup {n} /\ UNCHANGED inbox
     \/ inbox' = inbox \cup {n} /\ board' = board \cup {n}  \* sent, but its answer was lost
     \/ UNCHANGED <<inbox, board>>                          \* the process ends first
  /\ UNCHANGED <<card, codes, invites, pass, guessed>>

\* Mutant: the try is counted only once the code has been compared and found wrong,
\* by a statement that the lock of the row no longer covers.
TakeUncounted(m) == card

\* member_code_take counts the try in the statement that reads the code.
Take(m) == [card EXCEPT ![m].tries = @ + 1]

\* POST member/verify with code n: spent by too many tries, or too late, or right.
Verify(m, n) ==
  /\ card[m].code # 0
  /\ LET row == Take(m)[m]
         over == row.tries > CodeTries \/ row.lapsed IN
     /\ card' = IF over \/ n = row.code THEN Cleared(m) ELSE Take(m)
     /\ pass' = IF ~over /\ n = row.code THEN pass \cup {m} ELSE pass
     /\ guessed' = IF ~over /\ n # row.code THEN [guessed EXCEPT ![row.code] = @ + 1] ELSE guessed
  /\ UNCHANGED <<codes, invites, sending, inbox, board>>

Lapse(m) ==
  /\ card[m].code # 0 /\ ~card[m].lapsed /\ card' = [card EXCEPT ![m].lapsed = TRUE]
  /\ UNCHANGED <<codes, invites, sending, inbox, board, pass, guessed>>

\* POST member/:id/revoke: the code and the invitation go with it.
RevokeCard(m) ==
  /\ ~card[m].revoked
  /\ card' = [card EXCEPT ![m] = [NoCard EXCEPT !.revoked = TRUE, !.used = card[m].used]]
  /\ UNCHANGED <<codes, invites, sending, inbox, board, pass, guessed>>

\* GET member/me: a card that no longer answers signs the phone out.
ReadCard(m) ==
  /\ m \in pass /\ card[m].revoked /\ pass' = pass \ {m}
  /\ UNCHANGED <<card, codes, invites, sending, inbox, board, guessed>>

CardNext ==
  \E m \in Members :
    \/ StartCard(m) \/ Invite(m) \/ Lapse(m) \/ RevokeCard(m) \/ ReadCard(m)
    \/ \E t \in 1..invites : JoinCode(m, t)
    \/ \E n \in 1..codes : Send(m, n)
    \/ \E n \in 0..codes : Verify(m, n)
-----------------------------------------------------------------------------
\* However its tries are spread over callers and over time, a code is compared with
\* a wrong one no more than CODE_TRIES times before it is spent, and a code that was
\* replaced never again (guest.js:269; member_code_take).
CodeTriesHold == \A n \in 1..MaxCodes : guessed[n] <= CodeTries
=============================================================================
