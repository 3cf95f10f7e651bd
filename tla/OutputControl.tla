---------------------------- MODULE OutputControl ----------------------------
(***************************************************************************)
(* output_control.py: the persisted output policy and the advisory lock     *)
(* that serializes output changes of the command line and the supervisor.   *)
(* The policy file is replaced atomically; the kernel frees the lock of a   *)
(* process that ends in whatever way.                                       *)
(***************************************************************************)
EXTENDS Integers

Processes == {"cli", "supervisor"}

Modes == {"auto", "local", "stopped", "manual"}

VARIABLES
    policy,   \* cache/output-policy.json
    holder    \* who holds wiim-pc-bridge-outputs.lock, or "nobody"

control == <<policy, holder>>

ControlTypeOK ==
    /\ policy \in Modes
    /\ holder \in Processes \union {"nobody"}

\* Without a policy file the mode is "auto", or "manual" if an old
\* installation left its marker.
ControlInit ==
    /\ policy \in {"auto", "manual"}
    /\ holder = "nobody"

\* Fault: waiting for the lock without end.
LockWaits(p) == FALSE /\ UNCHANGED holder

\* Fault: a shared lock.
LockShared(p) == holder' = p

\* flock(LOCK_EX | LOCK_NB) succeeded.
Lock(p) ==
    /\ holder = "nobody"
    /\ holder' = p

\* locked() polls for ten seconds, then raises.
LockTimesOut(p) ==
    /\ holder \notin {"nobody", p}
    /\ UNCHANGED holder

\* Leaving the `with` block, or the process, closes the descriptor.
Unlocked(p) == IF holder = p THEN "nobody" ELSE holder

set_mode(value) == policy' = value

automatic_enabled == policy = "auto"
=============================================================================
