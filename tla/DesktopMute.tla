----------------------------- MODULE DesktopMute -----------------------------
(***************************************************************************)
(* How the supervisor keeps the Spotify desktop app silent while the bridge *)
(* plays (Supervisor.guard_desktop_audio and the Runtime methods it calls), *)
(* beside a user at the volume control and PipeWire, which ends, recreates  *)
(* and moves the app's streams between any two commands of the supervisor.  *)
(*                                                                         *)
(* One step is one listing or one pactl command.  The rest of the tick is   *)
(* the infrastructure check before it and the status file after it.  Muting *)
(* is known by who did it, which the program cannot see: it tells muted     *)
(* streams from others.                                                     *)
(***************************************************************************)
EXTENDS Integers, FiniteSets

CONSTANTS
    Overlapping,      \* may the app open a stream before the last one is closed?
    MaxStreams,       \* bound: streams the desktop app ever opens
    MaxDisturbances   \* bound: outside events, failed commands and crashes

ASSUME MuteAssumption ==
    /\ Overlapping \in BOOLEAN
    /\ MaxStreams \in Nat
    /\ MaxDisturbances \in Nat

Streams == 1 .. MaxStreams
Muters  == {"nobody", "user", "bridge"}

VARIABLES
    \* the host
    opened,      \* streams opened so far; their indices are never used again
    streams,     \* the desktop app's streams
    muter,       \* who muted each of them
    inBridge,    \* those on the private bridge sink
    remembered,  \* the mute PipeWire restores to a new stream of the app
    pcSink,      \* does the PC's audio sink exist?
    playback,    \* does Soloist play?
    infraFault,  \* does infrastructure() find a fault?
    \* the supervisor
    pc, playing,
    listing,     \* the streams listed at the beginning, and those of them muted
    conflict,
    wanted,      \* the mute set_desktop_spotify_mute asks for
    claim,       \* muted_desktop_stream; 0 stands for None
    stored,      \* muted_desktop_stream in the status file
    disturbances

host  == <<opened, streams, muter, inBridge, remembered, pcSink, playback, infraFault>>
guard == <<playing, listing, conflict, wanted>>
vars  == <<host, pc, guard, claim, stored, disturbances>>

TypeOK ==
    /\ opened \in 0 .. MaxStreams
    /\ streams \in SUBSET Streams
    /\ muter \in [Streams -> Muters]
    /\ inBridge \in SUBSET Streams
    /\ remembered \in Muters
    /\ pcSink \in BOOLEAN
    /\ playback \in BOOLEAN
    /\ infraFault \in BOOLEAN
    /\ pc \in {"idle", "list", "sinks", "move", "moved", "decide", "set", "command",
               "confirm", "end"}
    /\ playing \in BOOLEAN
    /\ listing \in [present : SUBSET Streams, muted : SUBSET Streams]
    /\ conflict \in BOOLEAN
    /\ wanted \in BOOLEAN
    /\ claim \in Streams \union {0}
    /\ stored \in Streams \union {0}
    /\ disturbances \in 0 .. MaxDisturbances

NoStreams == [present |-> {}, muted |-> {}]

Init ==
    /\ opened = 0
    /\ streams = {}
    /\ muter = [i \in Streams |-> "nobody"]
    /\ inBridge = {}
    /\ remembered = "nobody"
    /\ pcSink = TRUE
    /\ playback = FALSE
    /\ infraFault = FALSE
    /\ pc = "idle"
    /\ playing = FALSE
    /\ listing = NoStreams
    /\ conflict = FALSE
    /\ wanted = FALSE
    /\ claim = 0
    /\ stored = 0
    /\ disturbances = 0

Muted == {i \in streams : muter[i] # "nobody"}

\* The one stream listed: guard_desktop_audio acts on no other number of them.
Sole == CHOOSE i \in listing.present : TRUE

OneListed == Cardinality(listing.present) = 1

-----------------------------------------------------------------------------
(* The tick up to the decision *)

Goto(label) == pc' = label /\ UNCHANGED <<host, claim, stored, disturbances>>

\* An infrastructure fault ends the tick before the desktop app is looked at.
BeginTick ==
    /\ pc = "idle"
    /\ Goto(IF infraFault THEN "end" ELSE "list")
    /\ playing' = playback
    /\ listing' = NoStreams
    /\ conflict' = FALSE
    /\ wanted' = FALSE

List ==
    /\ pc = "list"
    /\ listing' = [present |-> streams, muted |-> Muted]
    /\ conflict' = playing
    /\ Goto(IF Cardinality(streams) = 1 THEN "sinks" ELSE "decide")
    /\ UNCHANGED <<playing, wanted>>

\* Fault: a stream that cannot be moved is no conflict.
ReadSinksNoConflict ==
    /\ pc = "sinks"
    /\ conflict' = playing
    /\ Goto(IF Sole \in streams \intersect inBridge /\ pcSink THEN "move" ELSE "decide")
    /\ UNCHANGED <<playing, listing, wanted>>

\* desktop_spotify_in_bridge: a stream on the capture sink is moved to the PC's.
ReadSinks ==
    /\ pc = "sinks"
    /\ LET found == Sole \in streams \intersect inBridge
       IN  /\ conflict' = (playing \/ (found /\ ~pcSink))
           /\ Goto(IF found /\ pcSink THEN "move" ELSE "decide")
    /\ UNCHANGED <<playing, listing, wanted>>

\* pactl fails on what is no longer there.
Move ==
    /\ pc = "move"
    /\ IF Sole \in streams /\ pcSink
       THEN inBridge' = inBridge \ {Sole} /\ pc' = "moved"
       ELSE pc' = "end" /\ UNCHANGED inBridge
    /\ UNCHANGED <<opened, streams, muter, remembered, pcSink, playback, infraFault, guard,
                   claim, stored, disturbances>>

VerifyMove ==
    /\ pc = "moved"
    /\ conflict' = (playing \/ Sole \in streams \intersect inBridge)
    /\ Goto("decide")
    /\ UNCHANGED <<playing, listing, wanted>>

-----------------------------------------------------------------------------
(* Faults: wrong versions of definitions below, each refuting a property. *)

\* The claim is stored with the rest of the status, at the end of the tick.
ClaimInMemory(i) == claim' = i /\ UNCHANGED stored

\* A claimed stream that is gone is forgotten.
ReplacedForgotten ==
    /\ claim # 0
    /\ claim \notin listing.present
    /\ OneListed
    /\ Sole \in listing.muted
    /\ claim' = 0
    /\ pc' = "end"
    /\ UNCHANGED <<stored, wanted>>

-----------------------------------------------------------------------------
(* The decision *)

Ask(mute) == pc' = "set" /\ wanted' = mute

Keep == pc' = "end" /\ UNCHANGED wanted

\* What to do with a claimed stream; a conflict it is muted for already is kept.
Enforce(owned) ==
    IF conflict THEN IF owned \in listing.muted THEN Keep ELSE Ask(TRUE)
    ELSE Ask(FALSE)

\* A claim is stored before anything is muted.
Claim(i) == claim' = i /\ stored' = i

Unclaimed == claim' = 0 /\ UNCHANGED stored

\* The claimed stream is there.
DecideOwned ==
    /\ claim \in listing.present
    /\ Enforce(claim)
    /\ UNCHANGED <<claim, stored>>

\* It is gone, and its mute may come back with the one stream that replaces it.
DecideReplaced ==
    /\ claim # 0
    /\ claim \notin listing.present
    /\ OneListed
    /\ Sole \in listing.muted
    /\ Claim(Sole)
    /\ Enforce(Sole)

DecideAmbiguous ==
    /\ claim # 0
    /\ claim \notin listing.present
    /\ ~OneListed
    /\ Keep
    /\ UNCHANGED <<claim, stored>>

\* Nothing is claimed, or the replacement came unmuted.
DecideUnowned ==
    /\ claim \notin listing.present
    /\ claim # 0 => OneListed /\ Sole \notin listing.muted
    /\ IF conflict /\ OneListed /\ Sole \notin listing.muted
       THEN Claim(Sole) /\ Ask(TRUE)
       ELSE Unclaimed /\ Keep

Decide ==
    /\ pc = "decide"
    /\ DecideOwned \/ DecideReplaced \/ DecideAmbiguous \/ DecideUnowned
    /\ UNCHANGED <<host, playing, listing, conflict, disturbances>>

-----------------------------------------------------------------------------
(* set_desktop_spotify_mute: list, change what differs, and list again *)

SetMute ==
    /\ pc = "set"
    /\ Goto(IF claim \notin streams THEN "end"
            ELSE IF (claim \in Muted) = wanted THEN "confirm" ELSE "command")
    /\ UNCHANGED guard

\* pactl set-sink-input-mute; muting what is muted changes nothing.
Command ==
    /\ pc = "command"
    /\ IF claim \in streams
       THEN LET by == IF ~wanted THEN "nobody"
                      ELSE IF claim \in Muted THEN muter[claim] ELSE "bridge"
            IN  /\ muter' = [muter EXCEPT ![claim] = by]
                /\ remembered' = by
                /\ pc' = "confirm"
       ELSE pc' = "end" /\ UNCHANGED <<muter, remembered>>
    /\ UNCHANGED <<opened, streams, inBridge, pcSink, playback, infraFault, guard,
                   claim, stored, disturbances>>

\* Only a mute seen to be gone ends the claim.
Confirm ==
    /\ pc = "confirm"
    /\ claim' = IF ~wanted /\ claim \in streams \ Muted THEN 0 ELSE claim
    /\ pc' = "end"
    /\ UNCHANGED <<host, guard, stored, disturbances>>

\* The end of every tick writes the status file.
EndTick ==
    /\ pc = "end"
    /\ stored' = claim
    /\ pc' = "idle"
    /\ UNCHANGED <<host, guard, claim, disturbances>>

Tick ==
    \/ BeginTick \/ List \/ ReadSinks \/ Move \/ VerifyMove \/ Decide
    \/ SetMute \/ Command \/ Confirm \/ EndTick

-----------------------------------------------------------------------------
(* Disturbances *)

\* A command raises: guard_desktop_audio logs it, and the tick goes on.
CommandFails ==
    /\ pc \in {"list", "sinks", "move", "moved", "set", "command", "confirm"}
    /\ pc' = "end"
    /\ UNCHANGED <<host, guard, claim, stored>>

\* The status file cannot be written: the claim is made, but nothing is muted.
ClaimFails ==
    /\ pc = "decide"
    /\ OneListed
    /\ claim \notin listing.present
    /\ IF Sole \in listing.muted THEN claim # 0 ELSE conflict
    /\ claim' = Sole
    /\ pc' = "end"
    /\ UNCHANGED <<host, guard, stored>>

\* The supervisor dies, and its successor restores the claim in the file.
Crash ==
    /\ pc' = "idle"
    /\ claim' = stored
    /\ UNCHANGED <<host, guard, stored>>

\* A new stream comes with the mute PipeWire remembers, on any sink.
StreamOpens ==
    /\ opened < MaxStreams
    /\ streams # {} => Overlapping
    /\ opened' = opened + 1
    /\ streams' = streams \union {opened + 1}
    /\ muter' = [muter EXCEPT ![opened + 1] = remembered]
    /\ inBridge' \in {inBridge, inBridge \union {opened + 1}}
    /\ UNCHANGED <<remembered, pcSink, playback, infraFault>>

StreamCloses ==
    \E i \in streams :
        /\ streams' = streams \ {i}
        /\ muter' = [muter EXCEPT ![i] = "nobody"]
        /\ inBridge' = inBridge \ {i}
        /\ UNCHANGED <<opened, remembered, pcSink, playback, infraFault>>

\* The PC's sink goes, and PipeWire may move its streams to ours; or it returns.
PcSinkChanges ==
    /\ pcSink' = ~pcSink
    /\ inBridge' \in {inBridge, IF pcSink THEN streams ELSE inBridge}
    /\ UNCHANGED <<opened, streams, muter, remembered, playback, infraFault>>

UserMutes ==
    \E i \in streams :
        /\ muter' = [muter EXCEPT ![i] = IF @ = "nobody" THEN "user" ELSE "nobody"]
        /\ remembered' = muter'[i]
        /\ UNCHANGED <<opened, streams, inBridge, pcSink, playback, infraFault>>

PlaybackChanges ==
    /\ playback' = ~playback
    /\ UNCHANGED <<opened, streams, muter, inBridge, remembered, pcSink, infraFault>>

InfrastructureChanges ==
    /\ infraFault' = ~infraFault
    /\ UNCHANGED <<opened, streams, muter, inBridge, remembered, pcSink, playback>>

Disturbance ==
    /\ disturbances < MaxDisturbances
    /\ disturbances' = disturbances + 1
    /\ \/ CommandFails \/ ClaimFails \/ Crash
       \/ /\ \/ StreamOpens \/ StreamCloses \/ PcSinkChanges \/ UserMutes
             \/ PlaybackChanges \/ InfrastructureChanges
          /\ UNCHANGED <<pc, guard, claim, stored>>

Next == Tick \/ Disturbance

Spec == Init /\ [][Next]_vars

\* The supervisor goes on ticking.
FairSpec == Spec /\ WF_vars(Tick)

-----------------------------------------------------------------------------
(* Properties *)

\* "Persist ownership before the mute so a supervisor restart can safely undo a
\* mute that completed just before a crash": at any moment, the status file has a
\* claim for a stream the bridge muted.
OwnMuteClaimed == (\E i \in streams : muter[i] = "bridge") => stored # 0

\* README "restoring only a mute it applied itself when the conflict ends": neither
\* crashes nor recreated streams strand the bridge's mute on the desktop app.
OwnMuteEnds ==
    <>[](~playback /\ ~infraFault /\ pcSink /\ Cardinality(streams) = 1)
        => <>[](\A i \in streams : muter[i] # "bridge")

\* README "until then the stream stays muted to prevent it feeding the bridge".
FeedbackSilenced ==
    <>[](~pcSink /\ ~infraFault /\ Cardinality(streams) = 1 /\ streams \subseteq inBridge)
        => <>[](streams \subseteq Muted)

\* README "restoring only a mute it applied itself": a mute the supervisor removes
\* was the bridge's.
RestoresOnlyOwn ==
    [][\A i \in streams \intersect streams' :
         pc = "command" /\ pc' = "confirm" /\ muter'[i] # muter[i] /\ ~wanted
            => muter[i] = "bridge"]_vars
=============================================================================
