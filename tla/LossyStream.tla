----------------------------- MODULE LossyStream -----------------------------
(***************************************************************************)
(* What the capture relay promises of live sound: blocks are captured one   *)
(* after the other, some get lost on the way, and the others are heard in   *)
(* the order they were captured, none twice.  Capturing a block may push    *)
(* out any older ones, never the new block itself.                          *)
(***************************************************************************)
EXTENDS Integers

VARIABLES
    sent,    \* the newest block captured
    queue,   \* the blocks on their way
    heard    \* the last block heard

vars == <<sent, queue, heard>>

Init ==
    /\ sent = 0
    /\ queue = {}
    /\ heard = 0

Capture ==
    /\ sent' = sent + 1
    /\ queue' \in SUBSET (queue \union {sent + 1})
    /\ sent + 1 \in queue'
    /\ UNCHANGED heard

Lose ==
    /\ queue' \in SUBSET queue
    /\ UNCHANGED <<sent, heard>>

Hear ==
    \E block \in queue :
        /\ \A other \in queue : block <= other
        /\ block > heard
        /\ heard' = block
        /\ queue' = queue \ {block}
        /\ UNCHANGED sent

Next == Capture \/ Lose \/ Hear

Spec == Init /\ [][Next]_vars
=============================================================================
