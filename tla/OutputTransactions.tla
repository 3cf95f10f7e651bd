-------------------------- MODULE OutputTransactions --------------------------
(***************************************************************************)
(* What the output lock promises: the policy and the outputs change only in *)
(* transactions, one at a time, of a command or of the supervisor.  A       *)
(* command stores its own intent and no other; those that take outputs away *)
(* store it first.  The supervisor stores none, and asks for what the       *)
(* stored one permits.  Outside all this a listener, the network and the    *)
(* WiiM change the selection as they like; a transaction may end at any     *)
(* point, half done.                                                        *)
(***************************************************************************)

VARIABLES
    policy,     \* the stored intent
    selected,   \* the selected outputs
    working,    \* whose transaction is open: a command, "automatic" or "none"
    position    \* where the processes stand; only their own steps change it

vars == <<policy, selected, working, position>>

Intent ==
    [stop |-> "stopped", select_local |-> "local", select_all |-> "auto", reconcile |-> "auto"]

Commands == DOMAIN Intent

\* The intent stored before the outputs change, so that it survives a failure.
IntentFirst == {"stop", "select_local"}

Both == {"wiim", "local"}

\* What may be selected after a request: the WiiM only if OwnTone lists it.
Leaves ==
    [stop |-> {{}}, select_local |-> {{"local"}}, select_all |-> {{"local"}, Both},
     reconcile |-> {{}, {"local"}, Both}]

Permits ==
    [auto |-> {{}, {"local"}, Both}, local |-> {{"local"}}, stopped |-> {{}}, manual |-> {}]

Init ==
    /\ policy \in {"auto", "manual"}
    /\ selected = {}
    /\ working = "none"

Begin ==
    /\ working = "none"
    /\ working' \in Commands \union {"automatic"}
    /\ UNCHANGED <<policy, selected>>

Intend ==
    /\ working \in Commands
    /\ policy' = Intent[working]
    /\ UNCHANGED <<selected, working>>

CommandRequests ==
    /\ working \in Commands
    /\ working \in IntentFirst => policy = Intent[working]
    /\ selected' \in Leaves[working]
    /\ UNCHANGED <<policy, working>>

SupervisorRequests ==
    /\ working = "automatic"
    /\ selected' \in Permits[policy]
    /\ UNCHANGED <<policy, working>>

End ==
    /\ working # "none"
    /\ working' = "none"
    /\ UNCHANGED <<policy, selected>>

\* A process reads, waits or fails.
Proceed == UNCHANGED <<policy, selected, working>>

\* No process moves, but the selection may.
Elsewhere == UNCHANGED <<policy, working, position>>

Next ==
    Proceed \/ Elsewhere \/ Begin \/ Intend \/ CommandRequests \/ SupervisorRequests \/ End

Spec == Init /\ [][Next]_vars
=============================================================================
