-------------------------------- MODULE Hub --------------------------------
(***************************************************************************)
(* The store hub (hub.js): between the devices of a shop and the cloud.    *)
(*                                                                         *)
(* A push the cloud cannot be reached for is answered 503 and kept a copy  *)
(* of, which the kitchen reads.  The devices keep their ops and try again. *)
(* Before a push goes through, the hub delivers what it holds in the order *)
(* it arrived, under the tokens of the devices that sent it.               *)
(***************************************************************************)
EXTENDS Integers, Sequences, Functions

CONSTANTS
  Devices, HubOps, By,   \* By[o]: the device that makes o
  Needs,                 \* Needs[o]: the ops a person must have on the screen to make o
  RunCap,                \* ops in one delivery of the drain: 200
  Budget                 \* outages, restarts, lost answers, refusals and lapses, together

ASSUME HubAssumption ==
  /\ By \in [HubOps -> Devices] /\ Needs \in [HubOps -> SUBSET HubOps]
  /\ RunCap \in Nat \ {0}

VARIABLES
  box,       \* each device's outbox: ops made and not acknowledged, in order
  made,
  link,      \* the cloud can be reached
  log,       \* the cloud's op_log, in the order applied
  held,      \* held.jsonl, and heldIds
  tokens,    \* held ops whose token the hub has
  allowed,   \* sessions the cloud has cleared here, within GRACE_MS
  snap,      \* the last pull the cloud answered
  screen,    \* what each device shows
  push,      \* each device's push at the hub: [phase, ops], "wait"ing for a drain,
             \* "pass"ing to the cloud, or "failed" with the drain
  drain,     \* the drain under way: [on, rest]
  lost,      \* history: ops whose copy was dropped, or could no longer be sent
  spent

hubVars == <<box, made, link, log, held, tokens, allowed, snap, screen, push, drain, lost, spent>>

None == {"none"}         \* no pull kept
NoPush == [phase |-> "idle", ops |-> <<>>]
NoDrain == [on |-> FALSE, rest |-> <<>>]
Of(d) == {o \in HubOps : By[o] = d}
Spend == spent < Budget /\ spent' = spent + 1

HubInit ==
  /\ box = [d \in Devices |-> <<>>] /\ made = {}
  /\ link = TRUE /\ log = <<>>
  /\ held = <<>> /\ tokens = {} /\ allowed = {} /\ snap = None
  /\ screen = [d \in Devices |-> {}]
  /\ push = [d \in Devices |-> NoPush] /\ drain = NoDrain
  /\ lost = {} /\ spent = 0

\* What of s is not in R, in its order.
Without(s, R) ==
  LET upTo[k \in 0..Len(s)] == IF k = 0 THEN <<>>
                               ELSE IF s[k] \in R THEN upTo[k - 1] ELSE Append(upTo[k - 1], s[k])
  IN upTo[Len(s)]

\* The cloud applies what it has not applied: a replay is answered from op_log.
Applied(ops) == log \o Without(ops, Range(log))

-----------------------------------------------------------------------------
(* The devices. *)

\* A person acts on what the device shows, or on what was done at it.
Make(d) ==
  \E o \in Of(d) \ made :
    /\ Needs[o] \subseteq screen[d] \cup (made \cap Of(d))
    /\ made' = made \cup {o} /\ box' = [box EXCEPT ![d] = Append(@, o)]
    /\ UNCHANGED <<link, log, held, tokens, allowed, snap, screen, push, drain, lost, spent>>

\* Mutant: a push goes through whatever the hub holds.
WaitsNever == FALSE
\* pushThrough: while the hub holds anything, a push waits for the drain.
Waits == held # <<>>

\* A drain in progress is the one that is waited for.
Push(d) ==
  /\ push[d].phase = "idle" /\ box[d] # <<>>
  /\ push' = [push EXCEPT ![d] = [phase |-> IF Waits THEN "wait" ELSE "pass", ops |-> box[d]]]
  /\ drain' = IF Waits /\ ~drain.on THEN [on |-> TRUE, rest |-> held] ELSE drain
  /\ UNCHANGED <<box, made, link, log, held, tokens, allowed, snap, screen, lost, spent>>

-----------------------------------------------------------------------------
(* Store and forward. *)

\* hold: a copy of each op not yet held, for a session the cloud has cleared.
HeldWith(d) == IF d \in allowed THEN held \o Without(push[d].ops, Range(held)) ELSE held

\* Mutant: the hub's copy acknowledges the ops.
KeptOnlyHere(d) == [box EXCEPT ![d] = Without(@, Range(HeldWith(d)))]
\* The answer has no results: the device deletes nothing.
Kept(d) == box

\* Mutant: a push that waited for a drain hears nothing when it fails.
AnsweredNever(d) == IF push[d].phase = "pass" THEN [push EXCEPT ![d] = NoPush] ELSE push
\* The 503 that ends it.
Answered(d) == [push EXCEPT ![d] = NoPush]

Hold(d) ==
  /\ held' = HeldWith(d) /\ tokens' = tokens \cup (Range(HeldWith(d)) \ Range(held))
  /\ box' = Kept(d)
  /\ push' = Answered(d)

\* The cloud answered: the device deletes what it acknowledged.
PassOk(d) ==
  /\ push[d].phase = "pass" /\ link
  /\ log' = Applied(push[d].ops)
  /\ box' = [box EXCEPT ![d] = Without(@, Range(push[d].ops))]
  /\ push' = [push EXCEPT ![d] = NoPush] /\ allowed' = allowed \cup {d}
  /\ UNCHANGED <<made, link, held, tokens, snap, screen, drain, lost, spent>>

\* It refused the session: nothing is applied, and the device keeps it all.
PassRefused(d) ==
  /\ push[d].phase = "pass" /\ link /\ Spend
  /\ push' = [push EXCEPT ![d] = NoPush]
  /\ UNCHANGED <<box, made, link, log, held, tokens, allowed, snap, screen, drain, lost>>

\* The connection failed, before the cloud had the push or after it applied it.
PassFails(d) ==
  /\ push[d].phase = "pass" /\ Hold(d)
  /\ \/ ~link /\ UNCHANGED <<log, spent>>
     \/ link /\ Spend /\ log' = Applied(push[d].ops)
  /\ UNCHANGED <<made, link, allowed, snap, screen, drain, lost>>

\* The ops of one device that stand together, as far as the hub has their token, and no
\* more than one delivery takes.
RunLength(s) ==
  CHOOSE n \in 1..Len(s) :
    /\ n <= RunCap /\ \A i \in 1..n : By[s[i]] = By[s[1]] /\ s[i] \in tokens
    /\ n \in {RunCap, Len(s)} \/ By[s[n + 1]] # By[s[1]] \/ s[n + 1] \notin tokens
Run(s) == SubSeq(s, 1, RunLength(s))
After(s) == SubSeq(s, RunLength(s) + 1, Len(s))

\* It has something to send.
Sending == drain.on /\ drain.rest # <<>> /\ Head(drain.rest) \in tokens

DrainSkip ==
  /\ drain.on /\ drain.rest # <<>> /\ Head(drain.rest) \notin tokens
  /\ drain' = [drain EXCEPT !.rest = Tail(@)]
  /\ UNCHANGED <<box, made, link, log, held, tokens, allowed, snap, screen, push, lost, spent>>

\* Any answer is the cloud's to give: a refused run counts as delivered.
DrainRun ==
  /\ Sending /\ link
  /\ drain' = [drain EXCEPT !.rest = After(@)]
  /\ \/ log' = Applied(Run(drain.rest)) /\ UNCHANGED <<lost, spent>>
     \/ Spend /\ lost' = lost \cup Range(Run(drain.rest)) /\ UNCHANGED log
  /\ UNCHANGED <<box, made, link, held, tokens, allowed, snap, screen, push>>

Waiting == {d \in Devices : push[d].phase = "wait"}

\* The pushes that wait go on, each as its phase says.
Go(phase) == [d \in Devices |-> IF d \in Waiting THEN [push[d] EXCEPT !.phase = phase] ELSE push[d]]

\* The drain throws, before the cloud had the run or after it applied it: everything stays
\* held ..
DrainFails ==
  /\ Sending
  /\ \/ ~link /\ UNCHANGED <<log, spent>>
     \/ link /\ Spend /\ log' = Applied(Run(drain.rest))
  /\ drain' = NoDrain /\ push' = Go("failed")
  /\ UNCHANGED <<box, made, link, held, tokens, allowed, snap, screen, lost>>

\* .. and so is each push that waited.
WaitFails(d) ==
  /\ push[d].phase = "failed" /\ Hold(d)
  /\ UNCHANGED <<made, link, log, allowed, snap, screen, drain, lost, spent>>

\* The copy ends with the outage, whatever was added to it meanwhile.
DrainEnds ==
  /\ drain.on /\ drain.rest = <<>>
  /\ held' = <<>> /\ tokens' = {} /\ drain' = NoDrain
  /\ lost' = lost \cup (Range(held) \ Range(log))
  /\ push' = Go("pass")
  /\ UNCHANGED <<box, made, link, log, allowed, snap, screen, spent>>

-----------------------------------------------------------------------------
(* The kitchen's view, and the sessions. *)

\* keepPull
PullUp(d) ==
  /\ link
  /\ screen' = [screen EXCEPT ![d] = Range(log)] /\ snap' = Range(log)
  /\ allowed' = allowed \cup {d}
  /\ UNCHANGED <<box, made, link, log, held, tokens, push, drain, lost, spent>>

\* kitchenView: the last pull, with what is held folded onto it.
PullDown(d) ==
  /\ ~link /\ d \in allowed /\ snap # None
  /\ screen' = [screen EXCEPT ![d] = snap \cup Range(held)]
  /\ UNCHANGED <<box, made, link, log, held, tokens, allowed, snap, push, drain, lost, spent>>

\* mayPrint: the relay asks the cloud, and uses its last yes while it cannot.
MayPrint(d) ==
  /\ link /\ allowed' = allowed \cup {d}
  /\ UNCHANGED <<box, made, link, log, held, tokens, snap, screen, push, drain, lost, spent>>

Lapse(d) ==
  /\ d \in allowed /\ Spend /\ allowed' = allowed \ {d}
  /\ UNCHANGED <<box, made, link, log, held, tokens, snap, screen, push, drain, lost>>

LinkDown == /\ link /\ Spend /\ link' = FALSE
            /\ UNCHANGED <<box, made, log, held, tokens, allowed, snap, screen, push, drain, lost>>
LinkUp == /\ ~link /\ link' = TRUE
          /\ UNCHANGED <<box, made, log, held, tokens, allowed, snap, screen, push, drain, lost, spent>>

\* The file is read back; the tokens, the sessions and the pull were in memory.
Restart ==
  /\ Spend
  /\ tokens' = {} /\ allowed' = {} /\ snap' = None /\ drain' = NoDrain
  /\ push' = [d \in Devices |-> NoPush] /\ lost' = lost \cup Range(held)
  /\ UNCHANGED <<box, made, link, log, held, screen>>

HubNext ==
  \/ \E d \in Devices : \/ Make(d) \/ Push(d) \/ PassOk(d) \/ PassRefused(d)
                        \/ PassFails(d) \/ WaitFails(d) \/ PullUp(d)
                        \/ PullDown(d) \/ MayPrint(d) \/ Lapse(d)
  \/ DrainSkip \/ DrainRun \/ DrainFails \/ DrainEnds
  \/ LinkDown \/ LinkUp \/ Restart

\* A device retries every few seconds, a request ends, and an outage does.
Fairness ==
  /\ \A d \in Devices : /\ WF_hubVars(Push(d)) /\ WF_hubVars(PassOk(d))
                        /\ WF_hubVars(PassFails(d)) /\ WF_hubVars(WaitFails(d))
  /\ WF_hubVars(DrainSkip) /\ WF_hubVars(DrainRun) /\ WF_hubVars(DrainFails)
  /\ WF_hubVars(DrainEnds) /\ WF_hubVars(LinkUp)

HubSpec == HubInit /\ [][HubNext]_hubVars /\ Fairness
-----------------------------------------------------------------------------
At(o) == CHOOSE i \in 1..Len(log) : log[i] = o

\* What a person did on seeing another's work through the hub reaches the cloud after
\* that work, unless the hub had lost its copy of it (hub.js:272).
CauseFirst ==
  \A o \in Range(log) : \A n \in Needs[o] \ lost : n \in Range(log) /\ At(n) < At(o)

\* Custody never moves: what the cloud has not applied is in the outbox of the device
\* that made it (hub.js:124).
Custody == \A o \in made : o \in Range(log) \/ o \in Range(box[By[o]])

\* Whatever fails on the way, what was made at a device is applied and acknowledged in
\* the end (hub.js:293).
EverythingArrives == \A d \in Devices : (box[d] # <<>>) ~> (box[d] = <<>>)

=============================================================================
