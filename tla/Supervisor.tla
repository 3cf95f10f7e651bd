----------------------------- MODULE Supervisor -----------------------------
(***************************************************************************)
(* The recovery policy of bridge_supervisor.py: what Supervisor.tick        *)
(* observes, when Supervisor.fault lets Runtime.repair act on it, and how   *)
(* its three budgets are kept in runtime/supervisor-status.json so that     *)
(* they outlive the process.                                                *)
(*                                                                         *)
(* Time is counted in ticks of PERIOD seconds.  A moment in the past is its *)
(* age, one in the future what is left of it.  An attempt that no budget    *)
(* counts any more, since every reader of the lists prunes it first, is     *)
(* dropped as it expires.  What a check finds is up to the environment.  A  *)
(* finding is its kind, and one kind stands for those treated alike:        *)
(* "source_misrouted" also for receiver_misrouted, "unavailable" for the    *)
(* kinds never acted on.  The repairs themselves, and `stage`, which only   *)
(* selects the services one of them restarts, are left out.                 *)
(***************************************************************************)
EXTENDS Integers, FiniteSets

CONSTANTS
    Broken,              \* kinds that infrastructure() reports
    Silent,              \* kinds that probe() reports, but for pcm_paused
    WINDOW,              \* the ten minutes a budget looks back
    ROUTE_REPAIR_LIMIT,  \* route moves, and destructive repairs, per WINDOW
    PCM_RESUME_LIMIT,    \* resumes of the PCM player per WINDOW
    PROBE_PERIOD, SETTLE, REPAIR_SETTLE,
    PCM_RESUME_PROBE, PCM_RESUME_SETTLE,
    MaxCrashes           \* bound: crashes, failed writes of the status file

ASSUME SupervisorAssumption ==
    /\ {"none", "unavailable", "pcm_paused", "source_misrouted", "capture_misrouted"}
         \intersect (Broken \union Silent) = {}
    /\ {WINDOW, ROUTE_REPAIR_LIMIT, PCM_RESUME_LIMIT, PROBE_PERIOD, SETTLE,
        PCM_RESUME_PROBE, PCM_RESUME_SETTLE} \subseteq Nat \ {0}
    /\ REPAIR_SETTLE \in Nat
    /\ SETTLE <= REPAIR_SETTLE
    /\ REPAIR_SETTLE < WINDOW
    /\ MaxCrashes \in Nat

Routes == {"source_misrouted", "capture_misrouted"}
Repairable == Routes \union Broken \union Silent \union {"pcm_paused"}
Kinds  == Repairable \union {"unavailable"}

Budgets == {"repair", "route", "pcm"}

VARIABLES
    pc,           \* where the tick stands
    infraFault,   \* infrastructure_fault
    infra,        \* ticks until next_infrastructure
    probe,        \* ticks until next_probe
    settle,       \* ticks until settle_until
    previous,     \* previous_fault
    consecutive,  \* counted no further than matters
    budget,       \* repair_times, route_repair_times, pcm_resume_times
    repairing,    \* the finding fault() is about to repair
    stored,       \* the budgets in the status file
    attempts,     \* history: the repairs that were carried out
    observed,     \* history: the findings since the last repair, or another one
    crashes

vars == <<pc, infraFault, infra, probe, settle, previous, consecutive, budget, repairing,
          stored, attempts, observed, crashes>>

timers  == <<infra, probe, settle>>
streak  == <<previous, consecutive, observed>>
history == <<attempts, crashes>>

Ages == SUBSET (0 .. WINDOW - 1)

Longest == REPAIR_SETTLE + SETTLE + PROBE_PERIOD + PCM_RESUME_PROBE + PCM_RESUME_SETTLE

TypeOK ==
    /\ pc \in {"infrastructure", "routes", "reconcile", "probe", "save", "repair", "persist",
               "asleep", "down"}
    /\ infraFault \in Broken \union {"none", "unavailable"}
    /\ infra \in 0 .. Longest
    /\ probe \in 0 .. Longest
    /\ settle \in 0 .. Longest
    /\ previous \in Repairable \union {"none"}
    /\ consecutive \in 0 .. 2
    /\ budget \in [Budgets -> Ages]
    /\ repairing \in Repairable \union {"none"}
    /\ stored \in [Budgets -> Ages]
    /\ attempts \in [Budgets -> Ages]
    /\ observed \in [kind : Repairable \union {"none"}, times : 0 .. 2]
    /\ crashes \in 0 .. MaxCrashes

Unobserved == [kind |-> "none", times |-> 0]

Init ==
    /\ pc = "infrastructure"
    /\ infraFault = "none"
    /\ infra = 0
    /\ probe = 0
    /\ settle = 0
    /\ previous = "none"
    /\ consecutive = 0
    /\ budget = [b \in Budgets |-> {}]
    /\ repairing = "none"
    /\ stored = [b \in Budgets |-> {}]
    /\ attempts = [b \in Budgets |-> {}]
    /\ observed = Unobserved
    /\ crashes = 0

-----------------------------------------------------------------------------
(* Faults the properties are sensitive to: each replaces the operator it is    *)
(* named after, and nothing of the specification uses it.                      *)

RequiredOnce(kind) == 1

\* What cannot be repaired is remembered as if it could.
IgnoredRemembered(kind) ==
    /\ kind = "unavailable"
    /\ previous' = kind /\ consecutive' = 0 /\ UNCHANGED observed
    /\ pc' = "persist"
    /\ UNCHANGED <<budget, repairing>>

\* A restarted supervisor does not wait.
GraceForgotten(left, ages) == left = 0

\* The attempt is stored only at the end of the tick, after the repair.
SaveLater ==
    /\ pc = "save"
    /\ pc' = "repair"
    /\ UNCHANGED <<infraFault, timers, streak, budget, repairing, stored, history>>

-----------------------------------------------------------------------------
(* fault() *)

BudgetOf(kind) ==
    IF kind \in Routes THEN "route" ELSE IF kind = "pcm_paused" THEN "pcm" ELSE "repair"

Limit(b) == IF b = "pcm" THEN PCM_RESUME_LIMIT ELSE ROUTE_REPAIR_LIMIT

\* A misrouted capture can feed back: it is moved at once.
Required(kind) == IF kind = "capture_misrouted" THEN 1 ELSE 2

AtMost2(n) == IF n < 2 THEN n ELSE 2

\* This finding counts towards a repair.
Counted(kind) == AtMost2((IF previous = kind THEN consecutive ELSE 0) + 1)

Observe(kind) ==
    /\ previous' = kind
    /\ consecutive' = Counted(kind)
    /\ observed' = [kind  |-> kind,
                    times |-> AtMost2((IF observed.kind = kind THEN observed.times ELSE 0) + 1)]

\* Only a finding confirmed, past the settling time and within its budget is
\* repaired; its attempt is stored first.
Due(kind) == Counted(kind) >= Required(kind) /\ (settle = 0 \/ kind \in Routes)

Affordable(kind) == Cardinality(budget[BudgetOf(kind)]) < Limit(BudgetOf(kind))

Forget == previous' = "none" /\ consecutive' = 0 /\ UNCHANGED observed

Ignored(kind) ==
    /\ kind = "unavailable"
    /\ Forget
    /\ pc' = "persist"
    /\ UNCHANGED <<budget, repairing>>

Unrepaired(kind) ==
    /\ kind # "unavailable"
    /\ ~(Due(kind) /\ Affordable(kind))
    /\ Observe(kind)
    /\ pc' = "persist"
    /\ UNCHANGED <<budget, repairing>>

Accepted(kind) ==
    /\ kind # "unavailable"
    /\ Due(kind)
    /\ Affordable(kind)
    /\ Observe(kind)
    /\ budget' = [budget EXCEPT ![BudgetOf(kind)] = @ \union {0}]
    /\ repairing' = kind
    /\ pc' = "save"

fault(kind) == Ignored(kind) \/ Unrepaired(kind) \/ Accepted(kind)

-----------------------------------------------------------------------------
(* What each check can find, in the order tick() makes them *)

infrastructure == Broken \union {"unavailable"}
capture_route  == {"capture_misrouted", "unavailable"}
source_route   == {"source_misrouted", "unavailable"}
receiver_route == {"source_misrouted"}
probed         == Silent \union {"pcm_paused", "unavailable"}

-----------------------------------------------------------------------------
(* tick() *)

CheckInfrastructure ==
    /\ pc = "infrastructure"
    /\ infra = 0
    /\ infra' = PROBE_PERIOD
    /\ \/ /\ infraFault' = "none"
          /\ pc' = "routes"
          /\ UNCHANGED <<streak, budget, repairing>>
       \/ \E kind \in infrastructure :
            /\ infraFault' = kind
            /\ fault(kind)
    /\ UNCHANGED <<probe, settle, stored, history>>

\* A fault: a tick that does not check takes the fault for refuted.
InfrastructureNotDueForgets ==
    /\ pc = "infrastructure"
    /\ infra > 0
    /\ pc' = IF infraFault = "none" THEN "routes" ELSE "persist"
    /\ Forget
    /\ UNCHANGED <<infraFault, timers, budget, repairing, stored, history>>

InfrastructureNotDue ==
    /\ pc = "infrastructure"
    /\ infra > 0
    /\ pc' = IF infraFault = "none" THEN "routes" ELSE "persist"
    /\ UNCHANGED <<infraFault, timers, streak, budget, repairing, stored, history>>

\* The first of the three that finds something ends the tick.
CheckRoutes ==
    /\ pc = "routes"
    /\ \/ pc' = "reconcile" /\ UNCHANGED <<streak, budget, repairing>>
       \/ \E kind \in capture_route \union source_route \union receiver_route : fault(kind)
    /\ UNCHANGED <<infraFault, timers, stored, history>>

\* Runtime.reconcile: a change lets the receivers settle.
Reconcile ==
    /\ pc = "reconcile"
    /\ pc' = "probe"
    /\ \/ UNCHANGED <<probe, settle, streak>>
       \/ settle' = SETTLE /\ probe' = SETTLE
          /\ consecutive' = 0 /\ UNCHANGED <<previous, observed>>
    /\ UNCHANGED <<infraFault, infra, budget, repairing, stored, history>>

\* Nothing is probed in the modes stopped and manual, or before its time.
NoProbe ==
    /\ pc = "probe"
    /\ pc' = "persist"
    /\ UNCHANGED <<infraFault, timers, streak, budget, repairing, stored, history>>

NotPlaying ==
    /\ pc = "probe"
    /\ Forget
    /\ pc' = "persist"
    /\ UNCHANGED <<infraFault, timers, budget, repairing, stored, history>>

\* A probe verifies playback, says nothing of it, or finds a fault; a paused PCM
\* player that is not resumed yet is probed again soon.
Probe ==
    /\ pc = "probe"
    /\ settle = 0
    /\ probe = 0
    /\ \/ /\ probe' = PROBE_PERIOD
          /\ Forget
          /\ pc' = "persist"
          /\ UNCHANGED <<budget, repairing>>
       \/ \E kind \in probed :
            /\ fault(kind)
            /\ probe' = IF kind = "pcm_paused" /\ pc' = "persist"
                        THEN PCM_RESUME_PROBE ELSE PROBE_PERIOD
    /\ UNCHANGED <<infraFault, infra, settle, stored, history>>

\* A check raises, and main() goes on to the end of the tick.
TickRaises ==
    /\ \/ pc \in {"infrastructure", "routes", "reconcile"} /\ UNCHANGED probe
       \/ pc = "probe" /\ settle = 0 /\ probe = 0 /\ probe' = PROBE_PERIOD
    /\ pc' = "persist"
    /\ UNCHANGED <<infraFault, infra, settle, streak, budget, repairing, stored, history>>

\* persist() within fault(): the attempt is on disk before it is made.
Save ==
    /\ pc = "save"
    /\ stored' = budget
    /\ pc' = "repair"
    /\ UNCHANGED <<infraFault, timers, streak, budget, repairing, history>>

Attempted == attempts' = [attempts EXCEPT ![BudgetOf(repairing)] = @ \union {0}]

\* Runtime.repair succeeds or raises: the `finally` is the same.
Repair ==
    /\ pc = "repair"
    /\ Attempted
    /\ consecutive' = 0
    /\ observed' = Unobserved
    /\ settle' = IF repairing = "pcm_paused" THEN PCM_RESUME_SETTLE
                 ELSE IF repairing \in Routes THEN SETTLE ELSE REPAIR_SETTLE
    /\ probe' = IF repairing = "pcm_paused" THEN PCM_RESUME_SETTLE ELSE probe
    /\ infra' = 0
    /\ repairing' = "none"
    /\ pc' = "persist"
    /\ UNCHANGED <<infraFault, previous, budget, stored, crashes>>

\* The status file is written at the end of each tick.
Persist ==
    /\ pc = "persist"
    /\ stored' = budget
    /\ repairing' = "none"
    /\ pc' = "asleep"
    /\ UNCHANGED <<infraFault, timers, streak, budget, history>>

Tick ==
    \/ CheckInfrastructure \/ InfrastructureNotDue \/ CheckRoutes \/ Reconcile
    \/ NoProbe \/ NotPlaying \/ Probe \/ TickRaises \/ Save \/ Repair \/ Persist

-----------------------------------------------------------------------------
(* Time, crashes and restarts *)

\* budget[:] = [attempt for attempt in budget if now - attempt < 600]
Recent(ages) == {a \in ages : a < WINDOW}

Aged(ages) == Recent({a + 1 : a \in ages})

Older(book) == [b \in Budgets |-> Aged(book[b])]

Left(timer) == IF timer > 0 THEN timer - 1 ELSE 0

Sleep ==
    /\ pc = "asleep"
    /\ pc' = "infrastructure"
    /\ infra' = Left(infra)
    /\ probe' = Left(probe)
    /\ settle' = Left(settle)
    /\ budget' = Older(budget)
    /\ stored' = Older(stored)
    /\ attempts' = Older(attempts)
    /\ UNCHANGED <<infraFault, streak, repairing, crashes>>

Troubled == crashes < MaxCrashes /\ crashes' = crashes + 1

\* The process ends; a repair it was about to make may have been made.
Crash ==
    /\ pc # "down"
    /\ Troubled
    /\ pc' = "down"
    /\ \/ pc = "repair" /\ Attempted
       \/ UNCHANGED attempts
    /\ UNCHANGED <<infraFault, timers, streak, budget, repairing, stored>>

\* write_status raises: fault() is left before its repair, main() ends.
SaveFails ==
    /\ pc \in {"save", "persist"}
    /\ Troubled
    /\ pc' = IF pc = "save" THEN "persist" ELSE "down"
    /\ UNCHANGED <<infraFault, timers, streak, budget, repairing, stored, attempts>>

StayDown ==
    /\ pc = "down"
    /\ stored' = Older(stored)
    /\ attempts' = Older(attempts)
    /\ UNCHANGED <<pc, infraFault, timers, streak, budget, repairing, crashes>>

\* restore(): the budgets in the file, and what is left of a repair's grace time.
Restored == Older(stored)

IsGrace(left, ages) ==
    /\ left = 0 \/ REPAIR_SETTLE - left \in ages
    /\ \A a \in ages : a + left >= REPAIR_SETTLE

Restart ==
    /\ pc = "down"
    /\ pc' = "infrastructure"
    /\ infraFault' = "none"
    /\ infra' = 0
    /\ \E left \in 0 .. REPAIR_SETTLE :
         IsGrace(left, Restored["repair"]) /\ settle' = left /\ probe' = left
    /\ previous' = "none" /\ consecutive' = 0 /\ observed' = Unobserved
    /\ budget' = Restored
    /\ stored' = Restored
    /\ attempts' = Older(attempts)
    /\ repairing' = "none"
    /\ UNCHANGED crashes

Next == Tick \/ Sleep \/ Crash \/ SaveFails \/ StayDown \/ Restart

Spec == Init /\ [][Next]_vars

\* systemd keeps the supervisor running, and its loop never waits for anything
\* that does not time out.
FairSpec == Spec /\ WF_vars(Tick \/ Sleep) /\ WF_vars(Restart)

-----------------------------------------------------------------------------
(* Properties *)

\* README "at most three such repairs per ten minutes [...] a separate
\* six-per-ten-minute budget [...] Budgets survive supervisor restarts": whenever
\* the process dies, what was carried out within the window keeps the limits.
BudgetHolds == \A b \in Budgets : Cardinality(attempts[b]) <= Limit(b)

\* README "Two observations are required for destructive recovery": since its
\* last repair or restart this supervisor has seen the fault twice, and no other.
TwoObservations ==
    pc = "repair" /\ repairing # "capture_misrouted"
        => observed = [kind |-> repairing, times |-> 2]

\* README "with buffering grace": neither a restart of the supervisor nor another
\* repair in between lets a second intervention follow a destructive one sooner
\* than SETTLE.  (A misrouted stream is moved at any time.)
GraceHolds ==
    pc = "repair" /\ repairing \notin Routes => \A a \in attempts["repair"] : a >= SETTLE

\* A container found broken again and again is repaired again and again: budgets
\* run out but recover, as do settling times, and confirmations that were lost.
KeepsRepairing ==
    \A kind \in Broken :
        <>[](infraFault = kind) /\ []<><<CheckInfrastructure>>_vars
            => []<>(pc = "repair" /\ repairing = kind)
=============================================================================
