------------------------------- MODULE Guests -------------------------------
(* What a guest's phone reads and sends: the menu's declarations, the rounds of the phone, *)
(* and the card of a guest who is also a member.                                          *)
EXTENDS GuestRounds, MemberCard, SetupFile

\* POST order names the member of the card's token, unless the card was taken back.
Ordering == LET own == {m \in Members : m \in pass /\ ~card[m].revoked}
            IN  IF own = {} THEN {Nobody} ELSE own

(* A phone may have been given its token at an earlier visit. *)
CardKept == CardFrom(Members)
Init == RoundsInit /\ (CardInit \/ CardKept) /\ MenuInit

\* The menu is written before anybody is seated, the card is opened before the guest orders,
\* and the three are explored side by side.  A phone that orders has its card and keeps it:
\* whose an order is shows on the bill alone, which no list of the phone's goes by.
Seated == edits = 0
Ready == codes = 0 /\ invites = 0 /\ Ordering # {Nobody}
Next == \/ /\ Seated /\ Ready /\ \E by \in Ordering : RoundsNext(by)
           /\ UNCHANGED <<cardVars, menuVars>>
        \/ /\ Seated /\ made = 0 /\ CardNext
           /\ UNCHANGED <<roundVars, menuVars>>
        \/ /\ RoundsInit /\ CardInit /\ MenuNext
           /\ UNCHANGED <<roundVars, cardVars>>

\* The phone's flush goes off, its requests end, and what an answer carries is stamped.
\* Nothing is asked of the counter.
Fairness ==
  /\ WF_roundVars(Flush)
  /\ \A s \in Slots : /\ WF_roundVars(Check(s)) /\ WF_roundVars(Stamp(s))
                      /\ WF_roundVars(\E by \in Ordering : Insert(s, by))

Spec == Init /\ [][Next]_<<roundVars, cardVars, menuVars>> /\ Fairness
-----------------------------------------------------------------------------
\* "It goes as soon as you are back online": a round is answered for, unless the bill of
\* its sitting was paid first (guest.html:1261, 1479).
HeldRoundsGoOut ==
  \A r \in Rounds : made >= r ~> (oid[r] # 0 \/ r \in bill.cut)
=============================================================================
