------------------------------ MODULE MCEstate ------------------------------
EXTENDS Estate

\* Two trials that end on different days, and what is paid for.
Trial(n) == [kind |-> "trial", ends |-> n]
Paid == [kind |-> "paid", ends |-> 0]
Sales == {Trial(1), Trial(2), Paid}

\* Two owners of one business, one of whom has another; and on a server whose own database is
\* a business and that asks for a code, an owner beside somebody without an account who was
\* given it, or an owner who was.
Cases ==
  {[owns |-> <<{1, 2}, {2}>>, front |-> FALSE, fence |-> FALSE, coded |-> {}],
   [owns |-> <<{1}, {}>>, front |-> TRUE, fence |-> TRUE, coded |-> {2}],
   [owns |-> <<{1}, {}>>, front |-> TRUE, fence |-> TRUE, coded |-> {1}]}
=============================================================================
