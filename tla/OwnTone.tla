------------------------------- MODULE OwnTone -------------------------------
(***************************************************************************)
(* What the bridge controls through two HTTP interfaces, as far as src/     *)
(* relies on it: OwnTone's outputs, player and queue (bridge.py request,    *)
(* outputs, set_outputs) and the WiiM group's topology and active source    *)
(* (validate_wiim_group, source_guard).  External to the repository.        *)
(*                                                                         *)
(* Outputs are the managed pair and one unrelated output a listener may     *)
(* select in OwnTone's own interface.  The WiiM's volume and offset are one *)
(* level: as configured, as set by a listener, or a default OwnTone fell    *)
(* back to.  A "stop" of the player is a "pause": src/ treats both alike.   *)
(***************************************************************************)
EXTENDS Integers

Outputs == {"local", "wiim", "other"}
Pair    == {"local", "wiim"}

\* "fresh" is the default of a WiiM that has just been (re)discovered,
\* "reset" the default OwnTone falls back to while it connects one.
Levels  == {"configured", "user", "fresh", "reset"}
Sources == {"airplay", "none", "other"}
Queues  == {"bridge", "foreign", "empty"}

VARIABLES
    selected,   \* the outputs OwnTone plays to
    listed,     \* does OwnTone list the WiiM?
    level,      \* the WiiM output's level
    player,     \* OwnTone's player
    queue,      \* OwnTone's queue: the bridge's PCM pipe, another one, empty
    source,     \* what the WiiM group plays: our session, nothing, another source
    group,      \* is the native group as configured?
    playback,   \* Soloist: "playing", "idle", or "misreported": idle with live PCM
    pcSink      \* does the PC's audio sink exist?

owntone == <<selected, listed, level, player, queue, source>>
world   == <<group, playback, pcSink>>

OwnToneTypeOK ==
    /\ selected \in SUBSET Outputs
    /\ listed \in BOOLEAN
    /\ level \in Levels
    /\ player \in {"play", "pause"}
    /\ queue \in Queues
    /\ source \in Sources
    /\ group \in BOOLEAN
    /\ playback \in {"playing", "idle", "misreported"}
    /\ pcSink \in BOOLEAN

\* A healthy system at rest: everything discovered, nothing selected.
OwnToneInit ==
    /\ selected = {}
    /\ listed = TRUE
    /\ level = "configured"
    /\ player = "pause"
    /\ queue = "bridge"
    /\ source \in {"none", "other"}
    /\ group = TRUE
    /\ playback \in {"playing", "idle"}
    /\ pcSink = TRUE

-----------------------------------------------------------------------------
(* Requests *)

\* PUT /outputs/set; an output OwnTone does not list is not selected.  Connecting
\* the WiiM takes its source over and may reset its level; disconnecting it ends
\* our session.
SetOutputs(outputs) ==
    LET wiim == listed /\ "wiim" \in outputs
    IN  /\ selected' = {o \in outputs : o = "wiim" => wiim}
        /\ IF wiim /\ "wiim" \notin selected
           THEN /\ source' = "airplay"
                /\ level' \in {level, "reset"}
           ELSE /\ source' = IF ~wiim /\ source = "airplay" THEN "none" ELSE source
                /\ UNCHANGED level
        /\ UNCHANGED <<listed, player, queue>>

\* PUT /player/volume and PUT /outputs/<id> for the WiiM.
SetLevel(value) ==
    /\ level' = value
    /\ UNCHANGED <<selected, listed, player, queue, source>>

\* PUT /player/play and PUT /player/pause.
SetPlayer(state) ==
    /\ player' = state
    /\ UNCHANGED <<selected, listed, level, queue, source>>

\* POST /queue/items/add of the bridge's pipe to an empty queue, playing at once.
AddPipe ==
    /\ queue' = IF queue = "empty" THEN "bridge" ELSE "foreign"
    /\ player' = "play"
    /\ UNCHANGED <<selected, listed, level, source>>

-----------------------------------------------------------------------------
(* What happens on its own *)

\* The network drops sessions; OwnTone may pause when it loses its outputs.
SessionsDrop ==
    \E lost \in SUBSET Pair \ {{}} :
        /\ lost \subseteq selected
        /\ selected' = selected \ lost
        /\ player' \in {player, "pause"}
        /\ source' = IF "wiim" \in lost /\ source = "airplay" THEN "none" ELSE source
        /\ UNCHANGED <<listed, level, queue, world>>

WiimVanishes ==
    /\ listed
    /\ listed' = FALSE
    /\ selected' = selected \ {"wiim"}
    /\ source' = IF source = "airplay" THEN "none" ELSE source
    /\ UNCHANGED <<level, player, queue, world>>

WiimAppears ==
    /\ ~listed
    /\ listed' = TRUE
    /\ level' = "fresh"
    /\ UNCHANGED <<selected, player, queue, source, world>>

\* The WiiM is given another source, or goes quiet while OwnTone keeps it selected.
SourceChanges ==
    \E s \in Sources \ {"airplay", source} :
        /\ source' = s
        /\ UNCHANGED <<selected, listed, level, player, queue, world>>

GroupChanges ==
    /\ group' = ~group
    /\ UNCHANGED <<owntone, playback, pcSink>>

PcSinkChanges ==
    /\ pcSink' = ~pcSink
    /\ UNCHANGED <<owntone, group, playback>>

PlaybackChanges ==
    /\ playback' \in {"playing", "idle", "misreported"} \ {playback}
    /\ UNCHANGED <<owntone, group, pcSink>>

\* A listener in OwnTone's own interface, which takes no lock of the bridge.
ListenerSelects ==
    \E outputs \in SUBSET Outputs \ {selected} :
        /\ "wiim" \in outputs => listed
        /\ SetOutputs(outputs)
        /\ UNCHANGED world

ListenerPlays ==
    /\ SetPlayer(IF player = "play" THEN "pause" ELSE "play")
    /\ UNCHANGED world

ListenerQueues ==
    \E q \in Queues \ {queue} :
        /\ queue' = q
        /\ player' \in {player, "pause"}
        /\ UNCHANGED <<selected, listed, level, source, world>>

\* bridge.py set-volume and set-offset take no lock either.
ListenerSetsLevel ==
    /\ SetLevel("user")
    /\ UNCHANGED world

Outside ==
    \/ SessionsDrop \/ WiimVanishes \/ WiimAppears \/ SourceChanges \/ GroupChanges
    \/ PcSinkChanges \/ PlaybackChanges
    \/ ListenerSelects \/ ListenerPlays \/ ListenerQueues \/ ListenerSetsLevel
=============================================================================
