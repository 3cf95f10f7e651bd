-------------------------- MODULE DesktopMute_proofs --------------------------
(***************************************************************************)
(* What the desktop audio guard promises for any number of streams and of   *)
(* disturbances: the types, and, while the app has one stream at a time,    *)
(* that the status file has a claim for every mute of the bridge's.         *)
(***************************************************************************)
EXTENDS DesktopMute, FiniteSetTheorems, TLAPS

\* A listing of one stream has one.
LEMMA SoleListed ==
    ASSUME OneListed
    PROVE  Sole \in listing.present
<1>1. listing.present # {}
  BY FS_EmptySet DEF OneListed
<1> QED
  BY <1>1 DEF Sole

-----------------------------------------------------------------------------
(* The types *)

LEMMA TypeInitial == Init => TypeOK
<1> SUFFICES ASSUME Init PROVE TypeOK
  OBVIOUS
<1>1. muter \in [Streams -> Muters] /\ remembered \in Muters
  BY DEF Init, Muters
<1>2. listing \in [present : SUBSET Streams, muted : SUBSET Streams]
  BY DEF Init, NoStreams
<1>3. /\ pcSink \in BOOLEAN /\ playback \in BOOLEAN /\ infraFault \in BOOLEAN
      /\ playing \in BOOLEAN /\ conflict \in BOOLEAN /\ wanted \in BOOLEAN
  BY DEF Init
<1> QED
  BY <1>1, <1>2, <1>3, MuteAssumption DEF Init, TypeOK

\* The decision claims listed streams only.
LEMMA TypeDecide ==
    ASSUME TypeOK, Decide
    PROVE  TypeOK'
<1>1. listing.present \subseteq Streams
  BY DEF TypeOK
<1>2. /\ claim' \in Streams \union {0} /\ stored' \in Streams \union {0}
      /\ pc' \in {"set", "end"} /\ wanted' \in BOOLEAN
  <2>1. CASE DecideOwned
    BY <2>1 DEF DecideOwned, Enforce, Ask, Keep, TypeOK
  <2>2. CASE DecideReplaced
    BY <2>2, <1>1, SoleListed DEF DecideReplaced, Claim, Enforce, Ask, Keep, TypeOK
  <2>3. CASE DecideAmbiguous
    BY <2>3 DEF DecideAmbiguous, Keep, TypeOK
  <2>4. CASE DecideUnowned
    BY <2>4, <1>1, SoleListed DEF DecideUnowned, Claim, Unclaimed, Ask, Keep, TypeOK
  <2> QED
    BY <2>1, <2>2, <2>3, <2>4 DEF Decide
<1>3. UNCHANGED <<opened, streams, muter, inBridge, remembered, pcSink, playback, infraFault,
                  playing, listing, conflict, disturbances>>
  BY DEF Decide, host
<1> QED
  BY <1>2, <1>3 DEF TypeOK

\* The supervisor's steps keep the types.
LEMMA TypeTick ==
    ASSUME TypeOK, Tick
    PROVE  TypeOK'
<1>1. CASE BeginTick
  <2>1. playing' \in BOOLEAN /\ conflict' \in BOOLEAN /\ wanted' \in BOOLEAN
    BY <1>1 DEF BeginTick, TypeOK
  <2>2. listing' \in [present : SUBSET Streams, muted : SUBSET Streams]
    BY <1>1 DEF BeginTick, NoStreams
  <2> QED
    BY <1>1, <2>1, <2>2 DEF BeginTick, Goto, TypeOK, host
<1>6. CASE List
  <2>1. playing' \in BOOLEAN /\ conflict' \in BOOLEAN /\ wanted' \in BOOLEAN
    BY <1>6 DEF List, TypeOK
  <2>2. listing' \in [present : SUBSET Streams, muted : SUBSET Streams]
    BY <1>6 DEF List, Muted, TypeOK
  <2> QED
    BY <1>6, <2>1, <2>2 DEF List, Goto, TypeOK, host
<1>2. CASE ReadSinks \/ Move \/ VerifyMove
  BY <1>2 DEF ReadSinks, Move, VerifyMove, Goto, TypeOK, host, guard
<1>3. CASE Decide
  BY <1>3, TypeDecide
<1>4. CASE SetMute \/ Confirm \/ EndTick
  BY <1>4 DEF SetMute, Confirm, EndTick, Goto, TypeOK, host, guard
<1>5. CASE Command
  <2>1. CASE claim \in streams
    <3> DEFINE by == IF ~wanted THEN "nobody"
                     ELSE IF claim \in Muted THEN muter[claim] ELSE "bridge"
    <3>1. by \in Muters
      BY <2>1 DEF TypeOK, Muters
    <3>2. muter' = [muter EXCEPT ![claim] = by] /\ remembered' = by /\ pc' = "confirm"
      BY <1>5, <2>1 DEF Command
    <3> QED
      BY <1>5, <3>1, <3>2 DEF Command, TypeOK, guard
  <2>2. CASE claim \notin streams
    BY <1>5, <2>2 DEF Command, TypeOK, guard
  <2> QED
    BY <2>1, <2>2
<1> QED
  BY <1>1, <1>2, <1>3, <1>4, <1>5, <1>6 DEF Tick

\* What is outside, and what fails, keep them too.
LEMMA TypeDisturbance ==
    ASSUME TypeOK, Disturbance
    PROVE  TypeOK'
<1>0. disturbances' \in 0 .. MaxDisturbances
  BY MuteAssumption DEF Disturbance, TypeOK
<1>1. CASE CommandFails
  BY <1>0, <1>1 DEF CommandFails, TypeOK, host, guard
<1>7. CASE Crash
  BY <1>0, <1>7 DEF Crash, TypeOK, host, guard
<1>2. CASE ClaimFails
  BY <1>0, <1>2, SoleListed DEF ClaimFails, TypeOK, host, guard
<1>3. CASE UNCHANGED <<pc, guard, claim, stored>> /\ StreamOpens
  <2>1. opened + 1 \in Streams
    BY <1>3, MuteAssumption DEF StreamOpens, TypeOK, Streams
  <2> QED
    BY <1>0, <1>3, <2>1, MuteAssumption DEF StreamOpens, TypeOK, guard
<1>4. CASE UNCHANGED <<pc, guard, claim, stored>> /\ (StreamCloses \/ UserMutes)
  BY <1>0, <1>4 DEF StreamCloses, UserMutes, TypeOK, Muters, guard
<1>5. CASE UNCHANGED <<pc, guard, claim, stored>>
           /\ (PcSinkChanges \/ PlaybackChanges \/ InfrastructureChanges)
  <2>1. pcSink' \in BOOLEAN /\ playback' \in BOOLEAN /\ infraFault' \in BOOLEAN
    BY <1>5 DEF PcSinkChanges, PlaybackChanges, InfrastructureChanges, TypeOK
  <2>2. inBridge' \in SUBSET Streams
    BY <1>5 DEF PcSinkChanges, PlaybackChanges, InfrastructureChanges, TypeOK
  <2>3. UNCHANGED <<opened, streams, muter, remembered>>
    BY <1>5 DEF PcSinkChanges, PlaybackChanges, InfrastructureChanges
  <2> QED
    BY <1>0, <1>5, <2>1, <2>2, <2>3 DEF TypeOK, guard
<1> QED
  BY <1>1, <1>2, <1>3, <1>4, <1>5, <1>7 DEF Disturbance

LEMMA TypeStep ==
    ASSUME TypeOK, [Next]_vars
    PROVE  TypeOK'
<1>1. CASE UNCHANGED vars
  BY <1>1 DEF vars, host, guard, TypeOK
<1> QED
  BY <1>1, TypeTick, TypeDisturbance DEF Next

\* The variables of the guard and of the host keep their types.
THEOREM TypeCorrect == Spec => []TypeOK
<1> QED
  BY TypeInitial, TypeStep, PTL DEF Spec

-----------------------------------------------------------------------------
(* The claim of the bridge's mute *)

\* One stream at a time has the mute PipeWire would give the next one.
OneMute ==
    /\ \A i, j \in streams : i = j
    /\ \A i \in streams : muter[i] = remembered

\* Between two ticks, and until a tick ends, the file has the claim in memory.
InStep == pc # "end" => stored = claim

\* A mute of the bridge's, present or remembered, is claimed.
Claimed == remembered = "bridge" => claim # 0 /\ stored # 0

\* A stream listed without a mute had none to leave to its successor, and until
\* the decision only the user mutes.
ListedUnmuted ==
    pc \in {"sinks", "move", "moved", "decide"} /\ listing.present \ listing.muted # {}
        => remembered # "bridge"

IInv == TypeOK /\ OneMute /\ InStep /\ Claimed /\ ListedUnmuted

LEMMA IInvInitial == Init => IInv
  BY TypeInitial DEF Init, IInv, OneMute, InStep, Claimed, ListedUnmuted

\* The steps that neither mute nor claim.
LEMMA IInvListing ==
    ASSUME IInv, BeginTick \/ List \/ ReadSinks \/ Move \/ VerifyMove \/ SetMute \/ EndTick
    PROVE  (OneMute /\ InStep /\ Claimed /\ ListedUnmuted)'
<1> USE DEF IInv, OneMute, InStep, Claimed, ListedUnmuted, Goto, host, guard
<1>1. CASE BeginTick
  BY <1>1 DEF BeginTick
<1>2. CASE List
  BY <1>2 DEF List, Muted, TypeOK
<1>3. CASE ReadSinks
  BY <1>3 DEF ReadSinks
<1>4. CASE Move
  BY <1>4 DEF Move
<1>5. CASE VerifyMove
  BY <1>5 DEF VerifyMove
<1>6. CASE SetMute
  BY <1>6 DEF SetMute
<1>7. CASE EndTick
  BY <1>7 DEF EndTick
<1> QED
  BY <1>1, <1>2, <1>3, <1>4, <1>5, <1>6, <1>7

\* A claim is dropped only when the listed stream was not muted; then no mute of
\* the bridge's is left.
LEMMA IInvDecide ==
    ASSUME IInv, Decide
    PROVE  (OneMute /\ InStep /\ Claimed /\ ListedUnmuted)'
<1> USE DEF IInv, OneMute, InStep, Claimed, ListedUnmuted, Decide, host
<1>1. pc' \in {"set", "end"} /\ (pc' = "set" => stored' = claim')
  <2>1. CASE DecideOwned
    BY <2>1 DEF DecideOwned, Enforce, Ask, Keep
  <2>2. CASE DecideReplaced
    BY <2>2 DEF DecideReplaced, Claim, Enforce, Ask, Keep
  <2>3. CASE DecideAmbiguous
    BY <2>3 DEF DecideAmbiguous, Keep
  <2>4. CASE DecideUnowned
    BY <2>4 DEF DecideUnowned, Claim, Unclaimed, Ask, Keep
  <2> QED
    BY <2>1, <2>2, <2>3, <2>4
<1>2. remembered = "bridge" => claim' # 0 /\ stored' # 0
  <2>1. CASE DecideOwned
    BY <2>1 DEF DecideOwned
  <2>2. CASE DecideReplaced
    BY <2>2, SoleListed DEF DecideReplaced, Claim, TypeOK, Streams
  <2>3. CASE DecideAmbiguous
    BY <2>3 DEF DecideAmbiguous
  <2>4. CASE DecideUnowned
    <3>1. claim = 0 \/ listing.present \ listing.muted # {}
      BY <2>4, SoleListed DEF DecideUnowned
    <3> QED
      BY <3>1
  <2> QED
    BY <2>1, <2>2, <2>3, <2>4
<1> QED
  BY <1>1, <1>2

\* The command mutes what is claimed; a mute seen to be gone was the only one.
LEMMA IInvCommand ==
    ASSUME IInv, Command \/ Confirm
    PROVE  (OneMute /\ InStep /\ Claimed /\ ListedUnmuted)'
<1> USE DEF IInv, OneMute, InStep, Claimed, ListedUnmuted, host, guard
<1>1. CASE Confirm
  BY <1>1 DEF Confirm, Muted
<1>2. CASE Command /\ claim \in streams
  <2>1. claim # 0 /\ stored # 0
    BY <1>2 DEF Command, TypeOK, Streams
  <2>2. /\ \A i \in streams' : i = claim
        /\ muter'[claim] = remembered'
        /\ pc' = "confirm"
        /\ UNCHANGED <<claim, stored>>
    BY <1>2 DEF Command, TypeOK
  <2> QED
    BY <2>1, <2>2, <1>2 DEF Command
<1>3. CASE Command /\ claim \notin streams
  BY <1>3 DEF Command
<1> QED
  BY <1>1, <1>2, <1>3

\* Outside, only the user mutes, and every new stream comes as PipeWire remembers.
LEMMA IInvDisturbance ==
    ASSUME ~Overlapping, IInv, Disturbance
    PROVE  (OneMute /\ InStep /\ Claimed /\ ListedUnmuted)'
<1> USE DEF IInv, OneMute, InStep, Claimed, ListedUnmuted, host, guard
<1>1. CASE CommandFails
  BY <1>1 DEF CommandFails
<1>2. CASE ClaimFails
  BY <1>2, SoleListed DEF ClaimFails, TypeOK, Streams
<1>3. CASE Crash
  BY <1>3 DEF Crash
<1>4. CASE UNCHANGED <<pc, guard, claim, stored>> /\ StreamOpens
  <2>1. opened + 1 \in Streams
    BY <1>4, MuteAssumption DEF StreamOpens, TypeOK, Streams
  <2> QED
    BY <1>4, <2>1 DEF StreamOpens, TypeOK
<1>5. CASE UNCHANGED <<pc, guard, claim, stored>> /\ StreamCloses
  BY <1>5 DEF StreamCloses, TypeOK
<1>6. CASE UNCHANGED <<pc, guard, claim, stored>> /\ UserMutes
  BY <1>6 DEF UserMutes, TypeOK
<1>7. CASE UNCHANGED <<pc, guard, claim, stored>>
           /\ (PcSinkChanges \/ PlaybackChanges \/ InfrastructureChanges)
  BY <1>7 DEF PcSinkChanges, PlaybackChanges, InfrastructureChanges
<1> QED
  BY <1>1, <1>2, <1>3, <1>4, <1>5, <1>6, <1>7 DEF Disturbance

LEMMA IInvStep ==
    ASSUME ~Overlapping, IInv, [Next]_vars
    PROVE  IInv'
<1>1. TypeOK'
  BY TypeStep DEF IInv
<1>2. CASE UNCHANGED vars
  BY <1>1, <1>2 DEF vars, host, guard, IInv, OneMute, InStep, Claimed, ListedUnmuted
<1>3. CASE Tick
  BY <1>1, <1>3, IInvListing, IInvDecide, IInvCommand DEF Tick, IInv
<1>4. CASE Disturbance
  BY <1>1, <1>4, IInvDisturbance DEF IInv
<1> QED
  BY <1>2, <1>3, <1>4 DEF Next

\* "Persist ownership before the mute so a supervisor restart can safely undo a
\* mute that completed just before a crash": if the app opens no stream before the
\* last one is closed, the file has a claim whenever a stream has the bridge's mute.
THEOREM MuteClaimed ==
    ASSUME ~Overlapping
    PROVE  Spec => []OwnMuteClaimed
<1>1. IInv /\ [Next]_vars => IInv'
  BY IInvStep
<1>2. IInv => OwnMuteClaimed
  BY DEF IInv, OneMute, Claimed, OwnMuteClaimed
<1> QED
  BY IInvInitial, <1>1, <1>2, PTL DEF Spec
=============================================================================
