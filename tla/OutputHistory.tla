---------------------------- MODULE OutputHistory ----------------------------
(***************************************************************************)
(* BridgeOutputs with what its state forgets: whether anything outside the  *)
(* bridge acted since a process took the lock, what the supervisor's look   *)
(* outside the lock found in this tick, whether the tick has passed the     *)
(* source guard, and for how many ticks playback has been off.              *)
(***************************************************************************)
EXTENDS BridgeOutputs

VARIABLES
    quiet,      \* per process: nothing outside acted since its TakeLock
    whole,      \* the look of the supervisor's current tick found the pair whole
    guarded,    \* a source guard passed in the supervisor's current tick
    idleTicks   \* ticks in a row without playback, counted to IDLE_DISCONNECT

hvars == <<vars, quiet, whole, guarded, idleTicks>>

HistoryTypeOK ==
    /\ TypeOK
    /\ quiet \in [Processes -> BOOLEAN]
    /\ whole \in BOOLEAN
    /\ guarded \in BOOLEAN
    /\ idleTicks \in 0 .. IDLE_DISCONNECT

HInit ==
    /\ Init
    /\ quiet = [p \in Processes |-> FALSE]
    /\ whole = FALSE
    /\ guarded = FALSE
    /\ idleTicks = IDLE_DISCONNECT

RecordTick ==
    /\ whole' = FALSE
    /\ guarded' = FALSE
    /\ idleTicks' = IF playback = "playing" THEN 0
                    ELSE IF idleTicks < IDLE_DISCONNECT THEN idleTicks + 1 ELSE idleTicks
    /\ UNCHANGED quiet

\* What was played before a restart is not held against the new supervisor.
RecordRestart ==
    /\ whole' = FALSE
    /\ guarded' = FALSE
    /\ idleTicks' = IDLE_DISCONNECT
    /\ UNCHANGED quiet

\* Every step of a process moves its pc; what is outside moves none.
OutsideActs == pc' = pc /\ <<owntone, world>>' # <<owntone, world>>

PassesGuard ==
    /\ pc["supervisor"] \in {"guard", "guard_locked"} /\ source # "other"
    /\ pc'["supervisor"] \in {"lock", "probe", "validate"}

FindsWhole ==
    /\ pc["supervisor"] = "outer_read" /\ pc'["supervisor"] \in {"lock", "probe"}
    /\ configured_outputs_selected

RecordAct ==
    /\ quiet' = [p \in Processes |->
                    IF holder # p /\ holder' = p THEN TRUE ELSE quiet[p] /\ ~OutsideActs]
    /\ whole' = (whole \/ FindsWhole)
    /\ guarded' = (guarded \/ PassesGuard)
    /\ UNCHANGED idleTicks

HNext ==
    \/ (Tick \/ TickBlocked) /\ RecordTick
    \/ SupervisorRestarts /\ RecordRestart
    \/ Act /\ RecordAct

HSpec == HInit /\ [][HNext]_hvars

HFairSpec == HSpec /\ Fairness

-----------------------------------------------------------------------------
(* Properties *)

\* p selects the WiiM, which was not selected.
Joins(p) == pc'[p] # pc[p] /\ "wiim" \in selected' \ selected

\* README "restores the WiiM's configured level before joining it": the lock
\* keeps the whole reconcile_once transaction, of the command as of the
\* supervisor, from joining the WiiM at any other level, as long as nothing
\* outside the lock interferes with it.  (A select-all command joins as it is.)
JoinsAtConfiguredLevel ==
    [][\A p \in Processes :
         Joins(p) /\ quiet[p] /\ op[p] # "select_all" => level = "configured"]_hvars

\* README "Active playback reconnects and resumes the pipe only after
\* topology/source guards": with guarded priority, the supervisor joins the WiiM
\* only in a tick whose source guard passed (Runtime.reconcile).
GuardsReconnect ==
    [][Joins("supervisor") /\ Guarded => guarded]_hvars

\* "Active playback reconnects ... only after topology/source guards" as far as it
\* goes: the supervisor joins the WiiM without a source guard only where observe()
\* reconnects a pair that was whole when Runtime.reconcile looked, in this tick.
JoinsGuarded ==
    [][Joins("supervisor") /\ Guarded /\ ~guarded
        => op["supervisor"] = "observe" /\ whole]_hvars

\* volume_handoff.py "Leave unrelated user-selected outputs alone": recovery of
\* active playback deselects no output outside the pair, unless a listener selected
\* it while the recovery was under way.
SparesUnrelated ==
    [][(/\ SupervisorSelects
        /\ op["supervisor"] \in {"observe", "wiim_disconnected", "fallback"}
        /\ quiet["supervisor"])
        => ("other" \in selected => "other" \in selected')]_hvars

\* "Leave unrelated user-selected outputs alone" as far as it goes: undisturbed since
\* it took the lock, recovery replaces an unrelated output only in the repair of a
\* stale session, and only if it was selected without the PC's.
ReplacesAlone ==
    [][(/\ SupervisorSelects
        /\ op["supervisor"] \in {"observe", "wiim_disconnected", "fallback"}
        /\ quiet["supervisor"]
        /\ "other" \in selected \ selected')
        => op["supervisor"] = "wiim_disconnected" /\ "local" \notin selected]_hvars

\* README "Idle playback disconnects the pair after 60 seconds": the pair is
\* released only when no tick of the last IDLE_DISCONNECT saw playback.
ReleasesAfterIdle ==
    [][(SupervisorSelects /\ op["supervisor"] = "release")
        => idleTicks = IDLE_DISCONNECT]_hvars
=============================================================================
