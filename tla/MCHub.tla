------------------------------- MODULE MCHub -------------------------------
(* A tablet rings a dish and fires it; the kitchen, on seeing it, bumps it. *)
EXTENDS Hub
CONSTANTS tablet, kitchen, line, fire, bump
MCBy == [o \in {line, fire, bump} |-> IF o = bump THEN kitchen ELSE tablet]
MCNeeds == [o \in {line, fire, bump} |->
              CASE o = line -> {} [] o = fire -> {line} [] OTHER -> {line, fire}]
=============================================================================
