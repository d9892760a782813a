------------------------------- MODULE Watch -------------------------------
(***************************************************************************)
(* The watchdog (src/watch.js) and the probes it asks (server.js): every   *)
(* minute a sweep goes through the conditions and says what has changed.   *)
(* A sweep may take longer than its minute, so that two are under way and  *)
(* the older one speaks last.  What has been said is in memory only.       *)
(* Beside it the platform asks /readyz, which keeps a good answer a while. *)
(***************************************************************************)
EXTENDS Naturals

CONSTANTS
  Sweeps,       \* sweeps under way at the same time
  MaxTurns      \* bound on changes of a condition, failed probes and restarts

\* sweep's order: are there outlets, do they answer, the fleet, quiet devices, the archives.
Checks == <<"vanished", "readyz", "schema", "devices", "backups">>
Keys == {Checks[i] : i \in 1..5}

VARIABLES
  wrong,        \* the conditions that hold; with no outlets to reach, a business database
                \* that does not open is "readyz" still, and both are told
  firing,       \* firing's keys: told, and not taken back
  seen,         \* seenOutlets > 0
  sweeps,        \* sweeps: the next check, and what the probe answered
  ready,        \* /readyz: the answer that is kept, if any, and one under way
  turns

watVars == <<wrong, firing, seen, sweeps, ready, turns>>

NotAsked == {"unread"}
NotSweeping == [next |-> 0, bad |-> NotAsked]
NoAnswer == [kept |-> "none", asked |-> "none"]

WatInit ==
  /\ wrong \in {{}, {"vanished"}} /\ firing = {} /\ seen = FALSE
  /\ sweeps = [s \in Sweeps |-> NotSweeping] /\ ready = NoAnswer /\ turns = 0

Turn == turns < MaxTurns /\ turns' = turns + 1

Change ==
  /\ Turn
  /\ \E k \in Keys : wrong' = IF k \in wrong THEN wrong \ {k} ELSE wrong \cup {k}
  /\ UNCHANGED <<firing, seen, sweeps, ready>>

\* The process starts again, and knows nothing.
StartsAgain ==
  /\ Turn /\ firing' = {} /\ seen' = FALSE /\ ready' = NoAnswer
  /\ sweeps' = [s \in Sweeps |-> NotSweeping]
  /\ UNCHANGED wrong
-----------------------------------------------------------------------------
\* tick
StartSweep(s) ==
  /\ sweeps[s].next = 0 /\ sweeps' = [sweeps EXCEPT ![s].next = 1]
  /\ UNCHANGED <<wrong, firing, seen, ready, turns>>

Asking(s) == sweeps[s].next # 0 /\ sweeps[s].bad = NotAsked

\* readiness, fleetState, quietDevices, backupState: an answer, as of when it was asked.
ProbeAnswers(s) ==
  /\ Asking(s) /\ sweeps' = [sweeps EXCEPT ![s].bad = wrong]
  /\ UNCHANGED <<wrong, firing, seen, ready, turns>>

\* The first two checks share one answer.
Onwards(s) ==
  sweeps' = [sweeps EXCEPT ![s] =
              CASE @.next = 1 -> [@ EXCEPT !.next = 2]
                [] @.next = 5 -> NotSweeping
                [] OTHER -> [next |-> @.next + 1, bad |-> NotAsked]]

\* Mutant: what has cleared is told, and stays in memory.
OverKept(k) == firing
Over(k) == firing \ {k}

\* say: a message when it begins, a reminder now and then, and one when it is over.
Say(s) ==
  /\ sweeps[s].next # 0 /\ ~Asking(s)
  /\ LET k == Checks[sweeps[s].next]
         bad == k \in sweeps[s].bad /\ (k = "vanished" => seen)
     IN /\ firing' = IF bad THEN firing \cup {k} ELSE Over(k)
        /\ seen' = (seen \/ (k = "vanished" /\ k \notin sweeps[s].bad))
  /\ Onwards(s)
  /\ UNCHANGED <<wrong, ready, turns>>

\* A probe fails: for readiness that is the bad news, for the others it is no news.
ProbeFails(s) ==
  /\ Asking(s) /\ Turn
  /\ firing' = IF sweeps[s].next = 1 THEN firing \cup {"readyz"} ELSE firing
  /\ sweeps' = [sweeps EXCEPT ![s] = IF @.next = 5 THEN NotSweeping
                ELSE [next |-> IF @.next = 1 THEN 3 ELSE @.next + 1, bad |-> NotAsked]]
  /\ UNCHANGED <<wrong, seen, ready>>
-----------------------------------------------------------------------------
(* /readyz: a good answer is kept for a while, another is asked for again. *)

ReadyAsk ==
  /\ ready.kept # "good" /\ ready.asked = "none"
  /\ ready' = [ready EXCEPT !.asked = IF "readyz" \in wrong THEN "bad" ELSE "good"]
  /\ UNCHANGED <<wrong, firing, seen, sweeps, turns>>

ReadyKeep ==
  /\ ready.asked # "none" /\ ready' = [kept |-> ready.asked, asked |-> "none"]
  /\ UNCHANGED <<wrong, firing, seen, sweeps, turns>>

ReadyTtl ==
  /\ ready.kept = "good" /\ ready' = [ready EXCEPT !.kept = "none"]
  /\ UNCHANGED <<wrong, firing, seen, sweeps, turns>>

SweepNext(s) == StartSweep(s) \/ ProbeAnswers(s) \/ Say(s)
WatNext ==
  \/ Change \/ StartsAgain \/ ReadyAsk \/ ReadyKeep \/ ReadyTtl
  \/ \E s \in Sweeps : SweepNext(s) \/ ProbeFails(s)
-----------------------------------------------------------------------------
(* When the conditions stay as they are, what has been told comes to be what is wrong, and  *)
(* nothing else: an older sweep that speaks last, a failed probe or a restart is put right, *)
(* and no outlet that is out of reach is reported ready for long (watch.js say,              *)
(* "AN ALERT FIRES ON A TRANSITION").                                                        *)
TellsWhatIs ==
  <>[](/\ firing = IF seen THEN wrong ELSE wrong \ {"vanished"}
       /\ "readyz" \in wrong => ready.kept # "good")
=============================================================================
