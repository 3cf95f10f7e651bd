------------------------- MODULE VolumeHandoff_proofs -------------------------
(***************************************************************************)
(* What the volume handoff promises for any set of volumes, settling time   *)
(* and number of disturbances: the first process of the container outlives  *)
(* Soloist and releases its sink, every start reads the volume stored last, *)
(* and a move the monitor saw ends with that volume at Soloist.             *)
(*                                                                         *)
(* The container is proved first, on its own: the monitor touches nothing   *)
(* of it but the file.                                                      *)
(***************************************************************************)
EXTENDS VolumeHandoff, SequenceTheorems, TLAPS

\* Where the script stands says what it has recorded and what it has started.
Progress ==
    /\ pid1 = "down" => ~signalled
    /\ pid1 \in {"down", "volume", "pulse", "sink", "launch"} =>
         ~soloist_pid /\ child = "none"
    /\ pid1 \in {"down", "volume", "pulse", "sink"} => ~module_id
    /\ pid1 = "assign" => ~soloist_pid
    /\ pid1 \in {"record", "wait"} => soloist_pid

\* A sink that the script will not unload is one that was left.
Orphaned == sink /\ ~module_id => leaked

ContainerInv ==
    ContainerTypeOK /\ file # Torn /\ Progress /\ Orphaned

LEMMA ContainerInitial ==
    ASSUME ContainerInit
    PROVE  ContainerInv
  BY VolumeAssumption
  DEF None, Torn, Alive, ContainerInit, ContainerInv, ContainerTypeOK, Progress,
     Orphaned

ContainerStep ==
    \/ Script \/ Start \/ Stop \/ Kill \/ SoloistEnds \/ SoloistStops
    \/ StartupFails \/ AnswerLost \/ PidFileFails \/ UnloadFails

\* A container may end with its sink abandoned.
LEMMA Abandoned ==
    ASSUME ContainerInv, Abandon, Gone
    PROVE  ContainerInv' /\ UNCHANGED file
<1> USE VolumeAssumption DEF ContainerInv
<1>1. Orphaned'
  BY DEF ContainerTypeOK, Orphaned, Abandon
<1>2. leaked' \in BOOLEAN
  BY DEF ContainerTypeOK, Abandon
<1>3. ContainerTypeOK'
  BY <1>2 DEF ContainerTypeOK, Abandon, Gone
<1> QED
  BY <1>1, <1>3 DEF Progress, Gone

\* No step of the script, of docker or of Soloist breaks any of it.
LEMMA ContainerKept ==
    ASSUME ContainerInv, ContainerStep
    PROVE  ContainerInv' /\ UNCHANGED file
<1> USE VolumeAssumption
    DEF ContainerInv, ContainerTypeOK, Progress, Orphaned, Alive, script
<1>1. CASE ReadVolume
  BY <1>1 DEF ReadVolume, At, Goto1
<1>2. CASE PulseReady
  BY <1>2 DEF PulseReady, At, Goto1
<1>3. CASE PrepareSink
  BY <1>3 DEF PrepareSink, At, Goto1
<1>4. CASE Launch
  BY <1>4 DEF Launch, At, Goto1
<1>5. CASE RecordPid
  BY <1>5 DEF RecordPid, At
<1>6. CASE WritePidFile
  BY <1>6 DEF WritePidFile, At, Goto1
<1>7. CASE HandleSignal
  <2>1. CASE PassSignal
    BY <1>7, <2>1 DEF PassSignal, Forward, Resumes
  <2>2. CASE ExitOnSignal
    BY <1>7, <2>2 DEF ExitOnSignal
  <2>3. CASE CutShort
    BY <2>3, Abandoned DEF CutShort
  <2> QED
    BY <1>7, <2>1, <2>2, <2>3 DEF HandleSignal
<1>8. CASE Reap
  BY <1>8 DEF Reap, At, Goto1
<1>9. CASE Cleanup
  BY <1>9 DEF Cleanup, At, Gone, Unloaded
<1>10. CASE Start
  BY <1>10 DEF Start
<1>11. CASE Stop
  BY <1>11 DEF Stop
<1>12. CASE Kill \/ UnloadFails
  BY <1>12, Abandoned DEF Kill, UnloadFails
<1>13. CASE StartupFails \/ AnswerLost \/ PidFileFails
  <2>1. CASE StartupFails
    BY <2>1 DEF StartupFails, At, Goto1
  <2>2. CASE AnswerLost
    BY <2>2 DEF AnswerLost, At, Goto1
  <2>3. CASE PidFileFails
    BY <2>3 DEF PidFileFails, At, Goto1
  <2> QED
    BY <1>13, <2>1, <2>2, <2>3
<1>14. CASE SoloistEnds \/ SoloistStops
  BY <1>14 DEF SoloistEnds, SoloistStops
<1> QED
  BY <1>1, <1>2, <1>3, <1>4, <1>5, <1>6, <1>7, <1>8, <1>9, <1>10, <1>11, <1>12, <1>13, <1>14
  DEF ContainerStep, Script

\* The monitor changes the container by storing a volume only.
LEMMA FileReplaced ==
    ASSUME ContainerInv, file' \in Volumes,
           UNCHANGED <<script, child, sink, leaked>>
    PROVE  ContainerInv'
  BY VolumeAssumption
  DEF ContainerInv, ContainerTypeOK, Progress, Orphaned, script

LEMMA ContainerUnchanged ==
    ASSUME ContainerInv, UNCHANGED container
    PROVE  ContainerInv'
  BY DEF ContainerInv, ContainerTypeOK, Progress, Orphaned, container,
     script

-----------------------------------------------------------------------------
(* The types, and the volume that is stored *)

\* The file is what save_volume stored last, and so is what the monitor remembers,
\* but while it saves and after a failure to.
StoredInv ==
    /\ remembered = file
    /\ pc \in {"set", "save"} => saved # None
    /\ Stored

FirstInv == ContainerInv /\ HandoffTypeOK /\ StoredInv

LEMMA FirstInitial ==
    ASSUME HandoffInit
    PROVE  FirstInv
<1>1. ContainerInv
  BY ContainerInitial DEF HandoffInit
<1>2. HandoffTypeOK
  <2>1. {inFlight, pipe, batch} \subseteq Seq({"active", "inactive"})
    BY EmptySeq DEF HandoffInit
  <2>2. 0 \in 0 .. 2 * SETTLE /\ 0 \in 0 .. SETTLE /\ 0 \in 0 .. MaxMoves
        /\ 0 \in 0 .. MaxDisturbances
    BY HandoffAssumption
  <2>3. initial_volume \in Volumes /\ file \in Volumes \union {None}
    BY VolumeAssumption DEF HandoffInit, ContainerInit
  <2> QED
    BY <1>1, <2>1, <2>2, <2>3 DEF HandoffInit, HandoffTypeOK, ContainerInv
<1>3. StoredInv
  BY DEF HandoffInit, StoredInv, Stored
<1> QED
  BY <1>1, <1>2, <1>3 DEF FirstInv

LEMMA FirstUnchanged ==
    ASSUME FirstInv, UNCHANGED vars
    PROVE  FirstInv'
<1>1. ContainerInv'
  BY ContainerUnchanged DEF FirstInv, vars
<1>2. HandoffTypeOK'
  BY <1>1 DEF FirstInv, ContainerInv, HandoffTypeOK, vars, container, spotify, trace,
     monitor,
       tracker, clock, history, bounds
<1>3. StoredInv'
  BY DEF FirstInv, StoredInv, Stored, vars, container, script, monitor, tracker, history
<1> QED
  BY <1>1, <1>2, <1>3 DEF FirstInv
-----------------------------------------------------------------------------
(* One step *)

\* What a step of the monitor, of Spotify or of the clock can be.
Acts ==
    \/ Connect \/ ReadTrace \/ TraceEnds \/ ReadLine \/ LinesRead \/ SetVolume \/ SetFails
    \/ Ask \/ ReadMpris \/ MprisMissing \/ SaveFails \/ Restart \/ Crash
    \/ Arrive \/ Tick \/ SlowSample \/ Move \/ SourceChanges \/ LevelChanges

\* Every step is one of these, Save, or one of the container.
LEMMA NextCases ==
    ASSUME HandoffNext
    PROVE  Acts \/ Save \/ Around(ContainerStep)
  BY DEF HandoffNext, Monitor, Container, Disturbance, Acts, ContainerStep, Around

LEMMA ActsSpareContainer ==
    ASSUME Acts
    PROVE  UNCHANGED container
  BY DEF Acts, Connect, ReadTrace, TraceEnds, ReadLine, LinesRead, SetVolume, SetFails,
     Ask, ReadMpris, MprisMissing, SaveFails, Restart, Crash, Arrive, Tick, SlowSample,
     Move, SourceChanges, LevelChanges, Quiet, Pass, Disconnected

LEMMA ContainerInvKept ==
    ASSUME FirstInv, HandoffNext
    PROVE  ContainerInv'
<1>1. CASE Acts
  BY <1>1, ActsSpareContainer, ContainerUnchanged DEF FirstInv
<1>2. CASE Save
  <2>1. saved \in Volumes
    BY <1>2 DEF FirstInv, StoredInv, HandoffTypeOK, Save
  <2> QED
    BY <1>2, <2>1, FileReplaced DEF Save, Store, FirstInv
<1>3. CASE Around(ContainerStep)
  BY <1>3, ContainerKept DEF Around, FirstInv
<1> QED
  BY <1>1, <1>2, <1>3, NextCases

LEMMA StoredKept ==
    ASSUME FirstInv, HandoffNext
    PROVE  StoredInv'
<1> USE DEF FirstInv, StoredInv, Stored, container, script, monitor, trace, tracker, clock,
        history, bounds
<1>1. CASE Connect
  BY <1>1 DEF Connect, Quiet
<1>2. CASE ReadTrace
  BY <1>2 DEF ReadTrace, Quiet
<1>3. CASE TraceEnds
  BY <1>3 DEF TraceEnds, Quiet
<1>4. CASE ReadLine
  BY <1>4 DEF ReadLine, HandsOver, Quiet
<1>5. CASE LinesRead
  BY <1>5 DEF LinesRead, Quiet
<1>6. CASE SetVolume
  BY <1>6 DEF SetVolume
<1>7. CASE SetFails
  BY <1>7 DEF SetFails
<1>8. CASE Ask
  BY <1>8 DEF Ask, Quiet
<1>9. CASE ReadMpris
  <2> DEFINE volume == IF device = "bridge" THEN level ELSE source_volume
  <2>1. volume # None
    BY VolumeAssumption DEF HandoffTypeOK
  <2>2. observe_source_volume(volume)
    BY <1>9 DEF ReadMpris
  <2>3. remembered' = file' /\ lost' = lost
    BY <1>9 DEF ReadMpris
  <2> HIDE DEF volume
  <2> QED
    BY <1>9, <2>1, <2>2, <2>3
    DEF ReadMpris, observe_source_volume, Settle, Settling, Unchanged
<1>10. CASE MprisMissing
  BY <1>10 DEF MprisMissing
<1>11. CASE SaveFails
  BY <1>11 DEF SaveFails, Disconnected
<1>12. CASE Restart
  BY <1>12 DEF Restart, Quiet
<1>13. CASE Crash
  BY <1>13 DEF Crash, Disconnected
<1>14. CASE Arrive
  BY <1>14 DEF Arrive, Quiet
<1>15. CASE Tick
  BY <1>15 DEF Tick, Pass
<1>16. CASE SlowSample
  BY <1>16 DEF SlowSample, Pass
<1>17. CASE Move
  BY <1>17 DEF Move
<1>18. CASE SourceChanges
  BY <1>18 DEF SourceChanges
<1>19. CASE LevelChanges
  BY <1>19 DEF LevelChanges
<1>20. CASE Save
  BY <1>20 DEF Save, Store
<1>21. CASE Around(ContainerStep)
  BY <1>21, ContainerKept DEF Around
<1> QED
  BY <1>1, <1>2, <1>3, <1>4, <1>5, <1>6, <1>7, <1>8, <1>9, <1>10, <1>11, <1>12, <1>13,
     <1>14, <1>15, <1>16, <1>17, <1>18, <1>19, <1>20, <1>21, NextCases DEF Acts

LEMMA BoundsKept ==
    ASSUME FirstInv, HandoffNext
    PROVE  moves' \in 0 .. MaxMoves /\ disturbances' \in 0 .. MaxDisturbances
<1> USE HandoffAssumption DEF FirstInv, HandoffTypeOK, bounds
<1>1. CASE Disturbance
  BY <1>1 DEF Disturbance
<1>2. CASE Move
  BY <1>2 DEF Move
<1>3. CASE Monitor \/ Arrive \/ Tick \/ Container
  <2>1. UNCHANGED bounds
    BY <1>3 DEF Monitor, Connect, ReadTrace, TraceEnds, ReadLine, LinesRead, SetVolume, Ask,
       ReadMpris, Save, Restart, Arrive, Tick, Container, Quiet
  <2> QED
    BY <2>1
<1> QED
  BY <1>1, <1>2, <1>3 DEF HandoffNext

LEMMA TypesKept ==
    ASSUME FirstInv, HandoffNext
    PROVE  HandoffTypeOK'
<1> USE HandoffAssumption, VolumeAssumption
    DEF FirstInv, HandoffTypeOK, spotify, trace, tracker, clock, history, bounds, monitor
<1>0. ContainerTypeOK' /\ moves' \in 0 .. MaxMoves /\ disturbances' \in 0 .. MaxDisturbances
  BY ContainerInvKept, BoundsKept DEF ContainerInv
<1> DEFINE Lines == Seq({"active", "inactive"})
<1>a. /\ <<>> \in Lines /\ <<"active">> \in Lines /\ <<"inactive">> \in Lines
      /\ 0 \in 0 .. SETTLE /\ 0 \in 0 .. 2 * SETTLE
  BY EmptySeq
<1>b. inFlight \in Lines /\ pipe \in Lines /\ batch \in Lines
  OBVIOUS
<1>1. CASE Connect
  BY <1>0, <1>a, <1>1 DEF Connect, Quiet, Activity, container
<1>2. CASE ReadTrace
  BY <1>0, <1>2 DEF ReadTrace, Quiet, container
<1>3. CASE TraceEnds
  BY <1>0, <1>3 DEF TraceEnds, Quiet, container
<1>4. CASE ReadLine
  BY <1>0, <1>4 DEF ReadLine, Quiet, container
<1>5. CASE LinesRead
  BY <1>0, <1>5 DEF LinesRead, Quiet, container
<1>6. CASE SetVolume
  BY <1>0, <1>6 DEF SetVolume, StoredInv, container
<1>7. CASE SetFails
  BY <1>0, <1>7 DEF SetFails, StoredInv, container
<1>8. CASE Ask
  BY <1>0, <1>a, <1>8 DEF Ask, Quiet, container
<1>9. CASE ReadMpris
  BY <1>0, <1>9 DEF ReadMpris, observe_source_volume, Settle, Settling, Unchanged, container
<1>10. CASE MprisMissing
  BY <1>0, <1>10 DEF MprisMissing, container
<1>11. CASE SaveFails
  BY <1>0, <1>a, <1>11 DEF SaveFails, Disconnected, container
<1>12. CASE Restart
  BY <1>0, <1>12 DEF Restart, Quiet, container
<1>13. CASE Crash
  BY <1>0, <1>a, <1>13 DEF Crash, Disconnected, container
<1>14. CASE Arrive
  BY <1>0, <1>14 DEF Arrive, Quiet, container
<1>15. CASE Tick
  BY <1>0, <1>15 DEF Tick, Pass, AtMost, container
<1>16. CASE SlowSample
  BY <1>0, <1>16 DEF SlowSample, Pass, AtMost, container
<1>17. CASE Move
  BY <1>0, <1>17 DEF Move, container
<1>18. CASE SourceChanges
  BY <1>0, <1>18 DEF SourceChanges, container
<1>19. CASE LevelChanges
  BY <1>0, <1>19 DEF LevelChanges, container
<1>20. CASE Save
  BY <1>0, <1>20 DEF Save, Store, container
<1>21. CASE Around(ContainerStep)
  <2>1. level' \in Volumes
    BY <1>21 DEF Around, ContainerInv, ContainerTypeOK
  <2>2. device' \in {"source", "bridge"} /\ connected' \in BOOLEAN /\ owed' \in BOOLEAN
    BY <1>21 DEF Around
  <2>3. inFlight' \in Lines /\ pipe' \in Lines /\ batch' \in Lines
    BY <1>a, <1>b, <1>21 DEF Around
  <2>4. /\ UNCHANGED <<source_volume, pc, saved, active, pending, since, due, asked>>
        /\ UNCHANGED <<remembered, heard, lost, doubtful>>
    BY <1>21 DEF Around
  <2> QED
    BY <1>0, <2>1, <2>2, <2>3, <2>4
<1> QED
  BY <1>1, <1>2, <1>3, <1>4, <1>5, <1>6, <1>7, <1>8, <1>9, <1>10, <1>11, <1>12, <1>13,
     <1>14, <1>15, <1>16, <1>17, <1>18, <1>19, <1>20, <1>21, NextCases DEF Acts

LEMMA FirstKept ==
    ASSUME FirstInv, [HandoffNext]_vars
    PROVE  FirstInv'
  BY FirstUnchanged, ContainerInvKept, TypesKept, StoredKept DEF FirstInv

-----------------------------------------------------------------------------
(* The connection *)

\* A connection begins with its trace, and a sample with Soloist inactive.
LinkInv ==
    /\ ~connected => inFlight = <<>>
    /\ pc \in {"down", "connect"} => ~connected /\ active = None /\ pipe = <<>> /\ ~due
    /\ pc \in {"asked", "save"} => active = "inactive"
    /\ pc \notin {"lines", "set"} => batch = <<>>
    /\ moves = 0 => device = "source"
    /\ source_volume \in heard

LEMMA LinkInitial ==
    ASSUME HandoffInit
    PROVE  LinkInv
  BY VolumeAssumption DEF HandoffInit, ContainerInit, LinkInv

\* Only a move to Soloist counts as one.
LEMMA MovesCounted ==
    ASSUME FirstInv, [HandoffNext]_vars
    PROVE  Move \/ UNCHANGED moves
<1>1. CASE Monitor \/ Arrive \/ Tick \/ Container
  BY <1>1 DEF bounds, Monitor, Connect, ReadTrace, TraceEnds, ReadLine, LinesRead, SetVolume,
     Ask, ReadMpris, Save, Restart, Arrive, Tick, Container, Quiet
<1>2. CASE Disturbance
  BY <1>2 DEF Disturbance
<1>3. CASE UNCHANGED vars
  BY <1>3 DEF vars, bounds
<1> QED
  BY <1>1, <1>2, <1>3 DEF HandoffNext

LEMMA OneLine ==
    /\ <<>> \o <<>> = <<>>
    /\ <<>> \o <<"active">> = <<"active">> /\ <<"active">> \o <<>> = <<"active">>
    /\ Append(<<>>, "active") = <<"active">>
    /\ Head(<<"active">>) = "active" /\ Tail(<<"active">>) = <<>>
    /\ <<"active">> # <<>>
  OBVIOUS

LEMMA LinkKept ==
    ASSUME FirstInv, LinkInv, [HandoffNext]_vars
    PROVE  LinkInv'
<1> USE DEF LinkInv, container, script, spotify, monitor, trace, tracker, clock, history,
        bounds
<1>0. moves \in Nat /\ (Move \/ UNCHANGED moves)
  BY HandoffAssumption, MovesCounted DEF FirstInv, HandoffTypeOK
<1>m. moves' = 0 => ~(Move /\ device = "source") /\ moves = 0
  BY <1>0 DEF Move
<1>1. CASE Connect
  BY <1>1 DEF Connect, Quiet
<1>2. CASE ReadTrace
  BY <1>2 DEF ReadTrace, Quiet
<1>3. CASE TraceEnds
  BY <1>3 DEF TraceEnds, Quiet
<1>4. CASE ReadLine
  BY <1>4 DEF ReadLine, Quiet
<1>5. CASE LinesRead
  BY <1>5 DEF LinesRead, Quiet
<1>6. CASE SetVolume
  BY <1>6 DEF SetVolume
<1>7. CASE SetFails
  BY <1>7, <1>m DEF SetFails, FirstInv, HandoffTypeOK
<1>8. CASE Ask
  BY <1>8 DEF Ask, Quiet
<1>9. CASE ReadMpris
  BY <1>9 DEF ReadMpris, observe_source_volume, Settle, Settling, Unchanged
<1>10. CASE MprisMissing
  BY <1>10, <1>m DEF MprisMissing
<1>11. CASE SaveFails
  BY <1>11, <1>m DEF SaveFails, Disconnected
<1>12. CASE Restart
  BY <1>12 DEF Restart, Quiet
<1>13. CASE Crash
  BY <1>13, <1>m DEF Crash, Disconnected
<1>14. CASE Arrive
  BY <1>14 DEF Arrive, Quiet
<1>15. CASE Tick
  BY <1>15, <1>m, OneLine DEF Tick, Pass
<1>16. CASE SlowSample
  BY <1>16, <1>m, OneLine DEF SlowSample, Pass
<1>17. CASE Move
  BY <1>0, <1>m, <1>17 DEF Move
<1>18. CASE SourceChanges
  BY <1>18, <1>m DEF SourceChanges
<1>19. CASE LevelChanges
  BY <1>19, <1>m DEF LevelChanges
<1>20. CASE Save
  BY <1>20 DEF Save, Store
<1>21. CASE Around(ContainerStep)
  BY <1>21, <1>m DEF Around
<1>22. CASE UNCHANGED vars
  BY <1>22 DEF vars
<1> QED
  BY <1>1, <1>2, <1>3, <1>4, <1>5, <1>6, <1>7, <1>8, <1>9, <1>10, <1>11, <1>12, <1>13,
     <1>14, <1>15, <1>16, <1>17, <1>18, <1>19, <1>20, <1>21, <1>22, NextCases DEF Acts

-----------------------------------------------------------------------------
(* What the monitor has not looked at *)

Lines == Seq({"active", "inactive"})

\* Emptying one end of the way into the other loses and reorders nothing.
LEMMA Joining ==
    ASSUME NEW s \in Lines, NEW t \in Lines
    PROVE  /\ s \o t \in Lines
           /\ s \o <<>> = s /\ <<>> \o s = s
           /\ s \o t = <<>> <=> s = <<>> /\ t = <<>>
  BY ConcatProperties, ConcatEmptySeq, ConcatEqualIffEmpty DEF Lines

\* A line read from the front leaves the rest.
LEMMA ReadingOne ==
    ASSUME NEW s \in Lines, NEW t \in Lines, s # <<>>
    PROVE  Head(s \o t) = Head(s) /\ Tail(s \o t) = Tail(s) \o t
<1>1. s \o t \in Lines /\ s \o t # <<>>
  BY Joining
<1>2. /\ Len(s \o t) = Len(s) + Len(t)
      /\ \A i \in 1 .. Len(s) + Len(t) :
           (s \o t)[i] = IF i <= Len(s) THEN s[i] ELSE t[i - Len(s)]
  BY ConcatProperties DEF Lines
<1>3. Len(s) \in Nat \ {0} /\ Len(t) \in Nat
  BY EmptySeq, LenProperties DEF Lines
<1>4. /\ Tail(s) \in Lines /\ Len(Tail(s)) = Len(s) - 1
      /\ \A i \in 1 .. Len(Tail(s)) : Tail(s)[i] = s[i + 1]
  BY HeadTailProperties DEF Lines
<1>5. /\ Tail(s \o t) \in Lines /\ Len(Tail(s \o t)) = Len(s \o t) - 1
      /\ \A i \in 1 .. Len(Tail(s \o t)) : Tail(s \o t)[i] = (s \o t)[i + 1]
  BY <1>1, HeadTailProperties DEF Lines
<1>6. /\ Tail(s) \o t \in Lines
      /\ Len(Tail(s) \o t) = Len(Tail(s)) + Len(t)
      /\ \A i \in 1 .. Len(Tail(s)) + Len(t) :
           (Tail(s) \o t)[i] =
             IF i <= Len(Tail(s)) THEN Tail(s)[i] ELSE t[i - Len(Tail(s))]
  BY <1>4, ConcatProperties DEF Lines
<1>7. Head(s \o t) = Head(s)
  BY <1>2, <1>3
<1>8. Len(Tail(s \o t)) = Len(Tail(s) \o t)
  BY <1>2, <1>3, <1>4, <1>5, <1>6
<1>9. \A i \in 1 .. Len(Tail(s \o t)) : Tail(s \o t)[i] = (Tail(s) \o t)[i]
  <2> TAKE i \in 1 .. Len(Tail(s \o t))
  <2>1. Tail(s \o t)[i] = (s \o t)[i + 1]
    BY <1>5
  <2>2. i \in Nat /\ i + 1 \in 1 .. Len(s) + Len(t)
    BY <1>2, <1>3, <1>5
  <2>3. (s \o t)[i + 1] = IF i + 1 <= Len(s) THEN s[i + 1] ELSE t[i + 1 - Len(s)]
    BY <1>2, <2>2
  <2>4. (Tail(s) \o t)[i] =
          IF i <= Len(Tail(s)) THEN Tail(s)[i] ELSE t[i - Len(Tail(s))]
    BY <1>6, <1>8
  <2>5. CASE i <= Len(Tail(s))
    BY <1>3, <1>4, <2>1, <2>2, <2>3, <2>4, <2>5
  <2>6. CASE ~(i <= Len(Tail(s)))
    <3>1. i - Len(Tail(s)) = i + 1 - Len(s)
      BY <1>3, <1>4, <2>2
    <3> QED
      BY <1>3, <1>4, <2>1, <2>2, <2>3, <2>4, <2>6, <3>1
  <2> QED
    BY <2>5, <2>6
<1>10. Tail(s \o t) = Tail(s) \o t
  BY <1>5, <1>6, <1>8, <1>9, SeqEqual DEF Lines
<1> QED
  BY <1>7, <1>10

\* A line written at the end of the way is at the end of what is unread.
LEMMA WritingOne ==
    ASSUME NEW s \in Lines, NEW t \in Lines, NEW u \in Lines,
           NEW line \in {"active", "inactive"}
    PROVE  s \o (t \o Append(u, line)) = Append(s \o (t \o u), line)
<1>1. /\ <<line>> \in Lines
      /\ \A q \in Lines : Append(q, line) = q \o <<line>>
  BY DEF Lines
<1>2. t \o (u \o <<line>>) = (t \o u) \o <<line>>
  BY <1>1, ConcatAssociative DEF Lines
<1>3. s \o ((t \o u) \o <<line>>) = (s \o (t \o u)) \o <<line>>
  BY <1>1, Joining, ConcatAssociative DEF Lines
<1> QED
  BY <1>1, <1>2, <1>3, Joining

LEMMA LinesTyped ==
    ASSUME FirstInv
    PROVE  batch \in Lines /\ pipe \in Lines /\ inFlight \in Lines /\ Unread \in Lines
<1>1. batch \in Lines /\ pipe \in Lines /\ inFlight \in Lines
  BY DEF FirstInv, HandoffTypeOK, Lines
<1> QED
  BY <1>1, Joining DEF Unread

\* While the trace lasts, a step leaves what is unread alone, reads its first line, or
\* is a move that adds the last one; a new trace begins with the present activity.
Resting == UNCHANGED <<Unread, active, device, moves>>

LineLooked ==
    /\ ReadLine
    /\ Unread # <<>>
    /\ active' = Head(Unread)
    /\ Unread' = Tail(Unread)
    /\ UNCHANGED <<device, moves>>

Played ==
    /\ device = "source" /\ device' = "bridge"
    /\ moves' = moves + 1
    /\ Unread' = Append(Unread, "active")
    /\ UNCHANGED active

Left == device' = "source" /\ device = "bridge" /\ ~owed' /\ UNCHANGED moves

Begun ==
    /\ active' = None
    /\ Unread' = <<Activity>>
    /\ UNCHANGED <<device, moves>>

LEMMA UnreadSteps ==
    ASSUME FirstInv, LinkInv, [HandoffNext]_vars, connected'
    PROVE  IF connected THEN Resting \/ LineLooked \/ Played \/ Left ELSE Begun
<1> USE LinesTyped, MovesCounted DEF Resting, spotify, monitor, trace, tracker, clock, bounds
<1>1. CASE Connect
  <2>1. pc = "connect" /\ ~connected /\ active = None /\ pipe = <<>> /\ batch = <<>>
    BY <1>1 DEF Connect, LinkInv
  <2>2. <<Activity>> \in Lines
    BY DEF Activity, Lines
  <2>3. /\ inFlight' = <<Activity>> /\ pipe' = <<>> /\ batch' = <<>>
        /\ UNCHANGED <<active, device, moves>>
    BY <1>1, <2>1 DEF Connect, Quiet
  <2>4. Unread' = <<Activity>>
    BY <2>2, <2>3, Joining DEF Unread
  <2> QED
    BY <2>1, <2>3, <2>4 DEF Begun
<1>2. CASE ReadTrace
  <2>1. pc = "select" /\ batch = <<>>
    BY <1>2 DEF ReadTrace, LinkInv
  <2>2. batch' = pipe /\ pipe' = <<>> /\ UNCHANGED <<inFlight, connected, active, device, moves>>
    BY <1>2 DEF ReadTrace, Quiet
  <2>3. Unread' = Unread
    BY <2>1, <2>2, Joining DEF Unread
  <2> QED
    BY <2>2, <2>3
<1>3. CASE ReadLine
  <2>1. batch # <<>> /\ active' = Head(batch) /\ batch' = Tail(batch)
        /\ UNCHANGED <<inFlight, pipe, connected, device, moves>>
    BY <1>3 DEF ReadLine, Quiet
  <2>2. pipe \o inFlight \in Lines
    BY Joining
  <2>3. Unread # <<>> /\ Head(Unread) = Head(batch) /\ Tail(Unread) = Tail(batch) \o (pipe \o inFlight)
    BY <2>1, <2>2, Joining, ReadingOne DEF Unread
  <2>4. Unread' = Tail(Unread)
    BY <2>1, <2>3 DEF Unread
  <2>5. connected
    BY <2>1
  <2> QED
    BY <1>3, <2>1, <2>3, <2>4, <2>5 DEF LineLooked
<1>4. CASE Move
  <2>1. connected /\ UNCHANGED <<pipe, batch, active>>
    BY <1>4 DEF Move
  <2>2. CASE device = "source"
    <3>1. inFlight' = Append(inFlight, "active") /\ device' = "bridge" /\ moves' = moves + 1
      BY <1>4, <2>1, <2>2 DEF Move
    <3>2. Unread' = Append(Unread, "active")
      BY <2>1, <3>1, WritingOne DEF Unread
    <3> QED
      BY <2>1, <2>2, <3>1, <3>2 DEF Played
  <2>3. CASE device # "source"
    <3>1. device = "bridge"
      BY <2>3 DEF FirstInv, HandoffTypeOK
    <3> QED
      BY <1>4, <2>1, <2>3, <3>1 DEF Move, Left
  <2> QED
    BY <2>2, <2>3
<1>5. CASE Arrive \/ Tick \/ SlowSample
  <2>1. pipe' = pipe \o inFlight /\ inFlight' = <<>>
        /\ UNCHANGED <<batch, connected, active, device, moves>>
    BY <1>5 DEF Arrive, Quiet, Tick, SlowSample, Pass, Move
  <2>2. Unread' = Unread
    BY <2>1, Joining DEF Unread
  <2> QED
    BY <2>1, <2>2 DEF LinkInv
<1>6. CASE TraceEnds
  BY <1>6 DEF TraceEnds
<1>7. CASE SaveFails \/ Crash
  BY <1>7 DEF SaveFails, Crash, Disconnected
<1>8. CASE Around(ContainerStep)
  <2>1. UNCHANGED <<pipe, batch, active, connected, inFlight, device>>
    BY <1>8 DEF Around
  <2>2. UNCHANGED moves
    BY <2>1, <1>8 DEF Around, Move
  <2> QED
    BY <2>1, <2>2 DEF Unread, LinkInv
<1>9. CASE \/ LinesRead \/ SetVolume \/ SetFails \/ Ask \/ ReadMpris \/ MprisMissing
           \/ Restart \/ SourceChanges \/ LevelChanges \/ Save \/ UNCHANGED vars
  <2>1. UNCHANGED <<pipe, batch, connected, inFlight, device>>
    BY <1>9 DEF LinesRead, Quiet, SetVolume, SetFails, Ask, ReadMpris, MprisMissing, Restart,
       SourceChanges, LevelChanges, Save, vars
  <2>2. UNCHANGED active
    BY <1>9 DEF LinesRead, SetVolume, SetFails, Ask, ReadMpris, MprisMissing, Restart,
       SourceChanges, LevelChanges, Save, vars, observe_source_volume, Settle, Settling,
       Unchanged
  <2>3. UNCHANGED moves
    BY <2>1 DEF Move, FirstInv, HandoffTypeOK
  <2> QED
    BY <2>1, <2>2, <2>3 DEF Unread
<1> QED
  BY <1>1, <1>2, <1>3, <1>4, <1>5, <1>6, <1>7, <1>8, <1>9, NextCases DEF Acts

-----------------------------------------------------------------------------
(* The move the trace showed *)

\* The activity the monitor will know of when it has read these lines.
Latest(lines) == IF lines = <<>> THEN active ELSE lines[Len(lines)]

\* The line that reports the move is the last one unread, and a handoff when read.
Coming == \E q \in Lines : Unread = Append(q, "active") /\ Latest(q) = "inactive"

\* It is read: Soloist is being given the volume, or has it.
Given == pc = "set" \/ (pc \in {"lines", "select"} /\ level = saved)

Seen == Unread = <<>> /\ active = "active" /\ Given

Owing ==
    owed => /\ device = "bridge" /\ child \in Alive /\ connected /\ saved # None
            /\ Coming \/ Seen

LEMMA OwingInitial ==
    ASSUME HandoffInit
    PROVE  Owing
  BY DEF HandoffInit, Owing

\* The line just written ends what is unread.
LEMMA Ending ==
    ASSUME NEW q \in Lines, NEW line \in {"active", "inactive"}
    PROVE  /\ Append(q, line) \in Lines /\ Append(q, line) # <<>>
           /\ q = <<>> => Head(Append(q, line)) = line /\ Tail(Append(q, line)) = <<>>
           /\ q # <<>> => /\ Head(Append(q, line)) = q[1]
                          /\ Tail(Append(q, line)) = Append(Tail(q), line)
                          /\ Tail(q) \in Lines /\ q[1] \in {"active", "inactive"}
                          /\ Tail(q) = <<>> => q[Len(q)] = q[1]
                          /\ Tail(q) # <<>> => Tail(q)[Len(Tail(q))] = q[Len(q)]
<1>1. /\ <<line>> \in Lines /\ <<line>> # <<>> /\ Head(<<line>>) = line /\ Tail(<<line>>) = <<>>
      /\ Append(q, line) = q \o <<line>>
      /\ \A s \in Lines : Append(s, line) = s \o <<line>>
  BY DEF Lines
<1>2. Append(q, line) \in Lines /\ Append(q, line) # <<>>
  BY <1>1, Joining
<1>3. ASSUME q = <<>>
      PROVE  Head(Append(q, line)) = line /\ Tail(Append(q, line)) = <<>>
  BY <1>1, <1>3, Joining
<1>4. ASSUME q # <<>>
      PROVE  /\ Head(Append(q, line)) = q[1]
             /\ Tail(Append(q, line)) = Append(Tail(q), line)
             /\ Tail(q) \in Lines /\ q[1] \in {"active", "inactive"}
             /\ Tail(q) = <<>> => q[Len(q)] = q[1]
             /\ Tail(q) # <<>> => Tail(q)[Len(Tail(q))] = q[Len(q)]
  <2>1. /\ Tail(q) \in Lines /\ Len(Tail(q)) = Len(q) - 1 /\ Head(q) = q[1]
        /\ Head(q) \in {"active", "inactive"}
        /\ \A i \in 1 .. Len(Tail(q)) : Tail(q)[i] = q[i + 1]
    BY <1>4, HeadTailProperties DEF Lines
  <2>2. Head(q \o <<line>>) = Head(q) /\ Tail(q \o <<line>>) = Tail(q) \o <<line>>
    BY <1>1, <1>4, ReadingOne
  <2>3. Len(q) \in Nat /\ Len(Tail(q)) \in Nat
    BY <2>1, LenProperties DEF Lines
  <2>4. Tail(q) = <<>> => Len(q) = 1
    <3>1. Tail(q) = <<>> => Len(Tail(q)) = 0
      BY <2>1, EmptySeq DEF Lines
    <3> QED
      BY <2>1, <2>3, <3>1
  <2>5. Tail(q) # <<>> => Len(Tail(q)) \in 1 .. Len(Tail(q))
    BY <2>1, <2>3, EmptySeq DEF Lines
  <2>6. Tail(q) # <<>> => Tail(q)[Len(Tail(q))] = q[Len(q)]
    BY <2>1, <2>3, <2>5
  <2> QED
    BY <1>1, <2>1, <2>2, <2>3, <2>4, <2>5
<1> QED
  BY <1>2, <1>3, <1>4

\* A step that leaves a debt writes it or keeps what it rests on.
LEMMA DebtKept ==
    ASSUME FirstInv, LinkInv, HandoffNext, owed, owed', ~Move,
           device = "bridge", child \in Alive, connected, saved # None
    PROVE  /\ device' = "bridge" /\ child' \in Alive /\ connected' /\ saved' # None
           /\ Unread = <<>> /\ active = "active" /\ Given => Given'
<1> USE DEF LinkInv, Given, Alive, container, script, spotify, monitor, trace, tracker,
        clock, history, bounds
<1>0. Unread = <<>> => pipe = <<>> /\ batch = <<>>
  BY LinesTyped, Joining DEF Unread
<1>1. CASE Connect \/ Restart \/ TraceEnds
  BY <1>1 DEF Connect, Restart, TraceEnds
<1>2. CASE ReadTrace
  BY <1>0, <1>2 DEF ReadTrace, Quiet
<1>3. CASE ReadLine
  BY <1>0, <1>3 DEF ReadLine, Quiet
<1>4. CASE LinesRead
  BY <1>4 DEF LinesRead, Quiet
<1>5. CASE SetVolume
  BY <1>5 DEF SetVolume
<1>6. CASE SetFails
  BY <1>6 DEF SetFails
<1>7. CASE Ask
  BY <1>7 DEF Ask, Quiet
<1>8. CASE ReadMpris
  <2> DEFINE volume == IF device = "bridge" THEN level ELSE source_volume
  <2>1. volume # None
    BY VolumeAssumption DEF FirstInv, HandoffTypeOK
  <2>2. /\ pc = "asked" /\ observe_source_volume(volume)
        /\ UNCHANGED <<child, device, connected>>
    BY <1>8 DEF ReadMpris
  <2>3. saved' # None
    BY <2>1, <2>2 DEF observe_source_volume, Settle, Settling, Unchanged
  <2> HIDE DEF volume
  <2> QED
    BY <2>2, <2>3
<1>9. CASE MprisMissing
  BY <1>9 DEF MprisMissing
<1>10. CASE SaveFails \/ Crash
  BY <1>10 DEF SaveFails, Crash
<1>11. CASE Arrive
  BY <1>11 DEF Arrive, Quiet
<1>12. CASE Tick \/ SlowSample
  BY <1>12 DEF Tick, SlowSample, Pass
<1>13. CASE SourceChanges
  BY <1>13 DEF SourceChanges
<1>14. CASE LevelChanges
  BY <1>14 DEF LevelChanges
<1>15. CASE Save
  BY <1>15 DEF Save, Store
<1>16. CASE Around(ContainerStep)
  BY <1>16 DEF Around
<1> QED
  BY <1>1, <1>2, <1>3, <1>4, <1>5, <1>6, <1>7, <1>8, <1>9, <1>10, <1>11, <1>12, <1>13,
     <1>14, <1>15, <1>16, NextCases DEF Acts

\* No step but a move to Soloist makes a debt.
LEMMA DebtMade ==
    ASSUME [HandoffNext]_vars, owed'
    PROVE  owed \/ Move
<1> USE DEF history
<1>1. CASE Acts
  BY <1>1 DEF Acts, Connect, ReadTrace, TraceEnds, ReadLine, LinesRead, SetVolume, SetFails,
     Ask, ReadMpris, MprisMissing, SaveFails, Restart, Crash, Arrive, Tick, SlowSample,
     SourceChanges, LevelChanges, Quiet, Pass
<1>2. CASE Save
  BY <1>2 DEF Save
<1>3. CASE Around(ContainerStep)
  BY <1>3 DEF Around
<1>4. CASE UNCHANGED vars
  BY <1>4 DEF vars
<1> QED
  BY <1>1, <1>2, <1>3, <1>4, NextCases

LEMMA OwingKept ==
    ASSUME FirstInv, LinkInv, Owing, [HandoffNext]_vars
    PROVE  Owing'
<1> SUFFICES ASSUME owed' PROVE Owing'
  BY DEF Owing
<1>1. CASE Move
  <2>1. device = "source" /\ Ready /\ device' = "bridge" /\ child = "running"
    BY <1>1 DEF Move, FirstInv, HandoffTypeOK
  <2>2. /\ connected /\ saved # None /\ connected' = connected /\ saved' = saved
        /\ child' = child /\ active' = active
    BY <1>1, <2>1 DEF Move, Ready, monitor, tracker, container
  <2>3. Played
    BY <1>1, <2>1, <2>2, UnreadSteps DEF Resting, LineLooked, Left
  <2>4. Coming'
    <3>1. Unread' = Append(Unread, "active") /\ Unread \in Lines
      BY <2>3, LinesTyped DEF Played
    <3>2. (IF Unread = <<>> THEN active' ELSE Unread[Len(Unread)]) = "inactive"
      BY <2>1, <2>2 DEF Ready
    <3> QED
      BY <3>1, <3>2 DEF Coming, Latest
  <2> QED
    BY <2>1, <2>2, <2>4 DEF Owing, Alive
<1>2. CASE UNCHANGED vars
  BY <1>2 DEF Owing, Coming, Seen, Given, Latest, Unread, vars, container, script, spotify, trace,
     monitor, tracker, clock, history
<1>3. CASE HandoffNext /\ ~Move
  <2>1. owed
    BY <1>3, DebtMade
  <2>2. device = "bridge" /\ child \in Alive /\ connected /\ saved # None
        /\ (Coming \/ Seen)
    BY <2>1 DEF Owing
  <2>3. /\ device' = "bridge" /\ child' \in Alive /\ connected' /\ saved' # None
        /\ Unread = <<>> /\ active = "active" /\ Given => Given'
    BY <1>3, <2>1, <2>2, DebtKept
  <2>4. Resting \/ LineLooked
    BY <2>2, <2>3, UnreadSteps DEF Played, Left
  <2>5. CASE Resting
    BY <2>2, <2>3, <2>5 DEF Resting, Owing, Coming, Seen, Latest
  <2>6. CASE LineLooked
    <3>1. PICK q \in Lines : Unread = Append(q, "active") /\ Latest(q) = "inactive"
      BY <2>2, <2>6 DEF LineLooked, Seen, Coming
    <3>2. CASE q = <<>>
      <4>1. active = "inactive" /\ active' = "active" /\ Unread' = <<>>
        BY <2>6, <3>1, <3>2, Ending DEF LineLooked, Latest
      <4>2. pc' = "set"
        BY <2>2, <2>6, <4>1 DEF LineLooked, ReadLine, HandsOver
      <4> QED
        BY <2>3, <4>1, <4>2 DEF Owing, Seen, Given
    <3>3. CASE q # <<>>
      <4>1. /\ Unread' = Append(Tail(q), "active") /\ Tail(q) \in Lines
            /\ active' = q[1] /\ q[Len(q)] = "inactive"
            /\ Tail(q) = <<>> => q[Len(q)] = q[1]
            /\ Tail(q) # <<>> => Tail(q)[Len(Tail(q))] = q[Len(q)]
        BY <2>6, <3>1, <3>3, Ending DEF LineLooked, Latest
      <4> QED
        BY <2>3, <4>1 DEF Owing, Coming, Latest
    <3> QED
      BY <3>2, <3>3
  <2> QED
    BY <2>4, <2>5, <2>6
<1> QED
  BY <1>1, <1>2, <1>3

\* The inductive invariant: with it, what the monitor owes is known at every line.
THEOREM Invariance == HandoffSpec => [](FirstInv /\ LinkInv /\ Owing)
<1>1. HandoffInit => FirstInv /\ LinkInv /\ Owing
  BY FirstInitial, LinkInitial, OwingInitial
<1>2. FirstInv /\ LinkInv /\ Owing /\ [HandoffNext]_vars => (FirstInv /\ LinkInv /\ Owing)'
  BY FirstKept, LinkKept, OwingKept
<1> QED
  BY <1>1, <1>2, PTL DEF HandoffSpec

-----------------------------------------------------------------------------
(* The promises *)

\* Every variable of the monitor and of the container keeps its type.
THEOREM TypeCorrect == HandoffSpec => []HandoffTypeOK
<1>1. FirstInv => HandoffTypeOK
  BY DEF FirstInv
<1> QED
  BY <1>1, Invariance, PTL

\* The script never ends before the child whose pid it has recorded, at whatever
\* command a signal finds it, but for an unwritable pid file.
THEOREM SoloistOutlived == HandoffSpec => OutlivesSoloist
<1>1. FirstInv /\ [HandoffNext]_vars =>
        [soloist_pid /\ pid1' = "exit" /\ pid1 # "exit"
           => child' = "none" \/ PidFileFails]_container
  <2> SUFFICES ASSUME FirstInv, HandoffNext, soloist_pid, pid1' = "exit", pid1 # "exit"
               PROVE  child' = "none" \/ PidFileFails
    BY DEF vars
  <2>1. ContainerStep
    BY NextCases, ActsSpareContainer DEF container, script, Save, Around
  <2>2. pid1 \notin {"volume", "pulse", "sink"}
    BY DEF FirstInv, ContainerInv, Progress
  <2> QED
    BY <2>1, <2>2
    DEF ContainerStep, Script, ReadVolume, PulseReady, At, PrepareSink, Launch, RecordPid,
        WritePidFile, HandleSignal, PassSignal, ExitOnSignal, CutShort, Resumes, Reap,
        Cleanup, UnloadFails, Gone, Start, Stop, Kill, StartupFails, AnswerLost,
        SoloistEnds, SoloistStops, script, Goto1
<1> QED
  BY <1>1, Invariance, PTL DEF OutlivesSoloist, HandoffSpec

\* A sink without a container is one left by a kill, a lost answer, a failed unload
\* or a trap cut short.
THEOREM SinkGone == HandoffSpec => []SinkReleased
<1>1. FirstInv => SinkReleased
  BY DEF FirstInv, ContainerInv, Progress, Orphaned, SinkReleased
<1> QED
  BY <1>1, Invariance, PTL

\* What the monitor remembers is in the file, but after a failed write.
THEOREM RememberedStored == HandoffSpec => []Stored
<1>1. FirstInv => Stored
  BY DEF FirstInv, StoredInv
<1> QED
  BY <1>1, Invariance, PTL

\* A container reads the volume stored last, whenever it starts.
THEOREM StartsRemembered == HandoffSpec => StartsAtRemembered
<1>1. FirstInv /\ [HandoffNext]_vars =>
        [pid1 = "volume" /\ pid1' = "pulse" =>
           start_at' = IF remembered = None THEN initial_volume ELSE remembered]_vars
  <2> SUFFICES ASSUME FirstInv, HandoffNext, pid1 = "volume", pid1' = "pulse"
               PROVE  start_at' = IF remembered = None THEN initial_volume ELSE remembered
    OBVIOUS
  <2>1. Around(ContainerStep)
    BY NextCases, ActsSpareContainer DEF container, script, Save
  <2>2. ReadVolume
    BY <2>1 DEF Around, ContainerStep, Script, PulseReady, At, PrepareSink, Launch,
       RecordPid, WritePidFile, HandleSignal, PassSignal, ExitOnSignal, CutShort, Resumes,
       Reap, Cleanup, UnloadFails, Gone, Start, Stop, Kill, StartupFails, AnswerLost,
       PidFileFails, SoloistEnds, SoloistStops, script, Goto1
  <2> QED
    BY <2>2, VolumeAssumption
    DEF ReadVolume, FirstInv, StoredInv, ContainerInv, ContainerTypeOK
<1> QED
  BY <1>1, Invariance, PTL DEF StartsAtRemembered, HandoffSpec

\* When the monitor rests after a move the trace showed it, Soloist has the remembered
\* volume, however the lines of this move and of those before it were batched.
THEOREM HandedOver == HandoffSpec => []HandoffApplied
<1>1. FirstInv /\ LinkInv /\ Owing => HandoffApplied
  <2> SUFFICES ASSUME FirstInv, LinkInv, Owing, owed,
                      pc = "select", inFlight = <<>>, pipe = <<>>
               PROVE  level = saved
    BY DEF HandoffApplied
  <2>1. Unread = <<>>
    BY LinesTyped, Joining DEF Unread, LinkInv
  <2>2. ~Coming
    BY <2>1, Ending DEF Coming
  <2> QED
    BY <2>2 DEF Owing, Seen, Given
<1> QED
  BY <1>1, Invariance, PTL
-----------------------------------------------------------------------------
(* Where a remembered volume comes from *)

\* Until Soloist has played twice, the monitor lags behind it by what is unread.
TraceInv ==
    /\ connected /\ moves = 0 =>
         \/ active = None /\ Unread = <<"inactive">>
         \/ active = "inactive" /\ Unread = <<>>
    /\ connected /\ moves = 1 /\ device = "bridge" =>
         \/ active = None /\ Unread \in {<<"active">>, <<"inactive", "active">>}
         \/ active = "inactive" /\ Unread = <<"active">>
         \/ active = "active" /\ Unread = <<>>

\* No sample begins before the monitor knows that Soloist plays.
Deaf ==
    /\ pc # "asked"
    /\ ~connected => ~due
    /\ connected /\ active = None => Unread = <<"active">>
    /\ connected /\ active = "inactive" =>
         \/ pc = "select" /\ (~due \/ pipe # <<>>)
         \/ pc = "lines" /\ batch # <<>>

\* Only a pending reading can be Soloist's, and it is the last while Soloist plays.
SourceInv ==
    moves < 2 /\ ~doubtful =>
        /\ saved # None => saved \in heard
        /\ file \in Volumes => file \in heard
        /\ pc = "asked" => ~due
        /\ moves = 0 => pending \in heard \union {None}
        /\ device = "bridge" /\ pending \notin heard \union {None} => Deaf

LEMMA OriginsInitial ==
    ASSUME HandoffInit
    PROVE  TraceInv /\ SourceInv
  BY VolumeAssumption
  DEF HandoffInit, ContainerInit, TraceInv, SourceInv, Deaf, None

\* A doubt stays, and what was heard stays heard.
LEMMA HistoryGrows ==
    ASSUME FirstInv, [HandoffNext]_vars
    PROVE  (doubtful => doubtful') /\ heard \subseteq heard'
<1> USE DEF history, FirstInv, HandoffTypeOK
<1>1. CASE Acts
  BY <1>1 DEF Acts, Connect, ReadTrace, TraceEnds, ReadLine, LinesRead, SetVolume, SetFails,
     Ask, ReadMpris, MprisMissing, SaveFails, Restart, Crash, Arrive, Tick, SlowSample,
     Move, SourceChanges, LevelChanges, Quiet, Pass
<1>2. CASE Save
  BY <1>2 DEF Save
<1>3. CASE Around(ContainerStep)
  BY <1>3 DEF Around
<1>4. CASE UNCHANGED vars
  BY <1>4 DEF vars
<1> QED
  BY <1>1, <1>2, <1>3, <1>4, NextCases

LEMMA TwoLines ==
    /\ <<"inactive">> # <<>> /\ <<"active">> # <<>> /\ <<"inactive", "active">> # <<>>
    /\ Head(<<"inactive">>) = "inactive" /\ Tail(<<"inactive">>) = <<>>
    /\ Head(<<"active">>) = "active" /\ Tail(<<"active">>) = <<>>
    /\ Head(<<"inactive", "active">>) = "inactive"
    /\ Tail(<<"inactive", "active">>) = <<"active">>
    /\ Append(<<>>, "active") = <<"active">>
    /\ Append(<<"inactive">>, "active") = <<"inactive", "active">>
    /\ <<"inactive">> # <<"active">>
<1>1. <<"inactive">> # <<>> /\ <<"active">> # <<>> /\ <<"inactive", "active">> # <<>>
  OBVIOUS
<1>2. Head(<<"inactive">>) = "inactive" /\ Tail(<<"inactive">>) = <<>>
  OBVIOUS
<1>3. Head(<<"inactive", "active">>) = "inactive"
  OBVIOUS
<1>4. Tail(<<"inactive", "active">>) = <<"active">>
  OBVIOUS
<1>5. Append(<<"inactive">>, "active") = <<"inactive", "active">>
  <2>1. /\ <<"inactive">> \in Lines /\ Len(<<"inactive">>) = 1
        /\ <<"inactive", "active">> \in Lines /\ Len(<<"inactive", "active">>) = 2
    BY DEF Lines
  <2>2. <<"inactive">>[1] = "inactive"
    OBVIOUS
  <2>3. <<"inactive", "active">>[1] = "inactive" /\ <<"inactive", "active">>[2] = "active"
    OBVIOUS
  <2> DEFINE q == Append(<<"inactive">>, "active")
  <2>4. /\ q \in Lines /\ Len(q) = 2 /\ q[1] = "inactive" /\ q[2] = "active"
    BY <2>1, <2>2 DEF Lines
  <2> HIDE DEF q
  <2>5. \A i \in 1 .. Len(q) : q[i] = <<"inactive", "active">>[i]
    BY <2>3, <2>4
  <2> QED
    BY <2>1, <2>4, <2>5, SeqEqual DEF Lines, q
<1>6. <<"inactive">> # <<"active">>
  OBVIOUS
<1> QED
  BY <1>1, <1>2, <1>3, <1>4, <1>5, <1>6, OneLine

LEMMA TraceKept ==
    ASSUME FirstInv, LinkInv, TraceInv, [HandoffNext]_vars
    PROVE  TraceInv'
<1> SUFFICES ASSUME connected' PROVE TraceInv'
  BY DEF TraceInv
<1>0. moves \in Nat /\ device \in {"source", "bridge"} /\ (moves = 0 => device = "source")
  BY HandoffAssumption DEF FirstInv, HandoffTypeOK, LinkInv
<1>1. IF connected THEN Resting \/ LineLooked \/ Played \/ Left ELSE Begun
  BY UnreadSteps
<1>2. CASE connected /\ Resting
  BY <1>2 DEF Resting, TraceInv
<1>3. CASE connected /\ LineLooked
  BY <1>3, TwoLines, VolumeAssumption DEF LineLooked, TraceInv
<1>4. CASE connected /\ Played
  <2>1. moves' # 0 /\ (moves' = 1 => moves = 0)
    BY <1>0, <1>4 DEF Played
  <2> QED
    BY <1>4, <2>1, TwoLines DEF Played, TraceInv
<1>5. CASE connected /\ Left
  BY <1>0, <1>5 DEF Left, TraceInv
<1>6. CASE ~connected
  BY <1>0, <1>1, <1>6 DEF Begun, Activity, TraceInv
<1> QED
  BY <1>1, <1>2, <1>3, <1>4, <1>5, <1>6

\* What can change what the monitor remembers or waits for, and when it asks.
LEMMA WhatChanges ==
    ASSUME [HandoffNext]_vars
    PROVE  /\ UNCHANGED <<saved, pending>> \/ ReadMpris \/ Restart \/ Crash
           /\ UNCHANGED file \/ Save \/ Around(ContainerStep)
           /\ UNCHANGED device \/ Move \/ device' = "source"
           /\ pc' = "asked" => (pc = "asked" /\ due' = due) \/ Ask \/ SlowSample
<1> USE DEF container, spotify, monitor, trace, tracker, clock, bounds
<1>1. CASE Acts
  BY <1>1
  DEF Acts, Connect, ReadTrace, TraceEnds, ReadLine, LinesRead, SetVolume, SetFails,
      Ask, ReadMpris, MprisMissing, SaveFails, Restart, Crash, Arrive, Tick, SlowSample,
      Move, SourceChanges, LevelChanges, Quiet, Pass, Disconnected,
      observe_source_volume, Settle, Settling, Unchanged
<1>2. CASE Save
  BY <1>2 DEF Save, Store
<1>3. CASE Around(ContainerStep)
  BY <1>3 DEF Around
<1>4. CASE UNCHANGED vars
  BY <1>4 DEF vars
<1> QED
  BY <1>1, <1>2, <1>3, <1>4, NextCases

\* While Soloist plays, the monitor that takes no sample takes none in the next step:
\* its line comes before the next tick's.
LEMMA DeafKept ==
    ASSUME FirstInv, LinkInv, TraceInv, Deaf, HandoffNext,
           moves = 1, device = "bridge", device' = "bridge"
    PROVE  Deaf'
<1> USE DEF Deaf, container, script, spotify, monitor, trace, tracker, clock, history,
        bounds
<1>0. /\ connected => \/ active = None /\ Unread = <<"active">>
                      \/ active = "inactive" /\ Unread = <<"active">>
                      \/ active = "active" /\ Unread = <<>>
      /\ None # "inactive" /\ None # "active"
  BY DEF TraceInv, None
<1>a. /\ connected' /\ ~connected => active' = None /\ Unread' = <<"active">>
      /\ connected' /\ connected =>
           \/ Unread' = Unread /\ active' = active
           \/ active' = "active"
  <2>1. connected' => IF connected THEN Resting \/ LineLooked ELSE Begun
    BY UnreadSteps DEF Played, Left
  <2>2. connected' /\ connected /\ LineLooked => active' = "active"
    BY <1>0, TwoLines DEF LineLooked
  <2> QED
    BY <2>1, <2>2 DEF Resting, Begun, Activity
<1>b. connected' /\ active' = None => Unread' = <<"active">>
  BY <1>0, <1>a
<1>c. connected' /\ active' = "inactive" =>
        /\ connected /\ active = "inactive" /\ Unread = <<"active">> /\ Unread' = Unread
        /\ \/ pc = "select" /\ (~due \/ pipe # <<>>)
           \/ pc = "lines" /\ batch # <<>>
  BY <1>0, <1>a
<1> HIDE DEF Deaf
<1> DEFINE Waiting == \/ pc = "select" /\ (~due \/ pipe # <<>>)
                      \/ pc = "lines" /\ batch # <<>>
<1>d. SUFFICES /\ pc' # "asked" /\ (~connected' => ~due')
               /\ connected' /\ active' = "inactive" => Waiting'
  BY <1>b DEF Deaf
<1>e. pc # "asked" /\ (~connected => ~due)
  BY DEF Deaf
<1>1. CASE Connect
  BY <1>1, <1>c DEF Connect, Quiet
<1>2. CASE ReadTrace
  BY <1>2, <1>e DEF ReadTrace, Quiet
<1>3. CASE TraceEnds
  BY <1>3 DEF TraceEnds, Quiet
<1>4. CASE ReadLine
  <2>1. ~(connected' /\ active' = "inactive")
    <3>1. connected' => LineLooked \/ (Unread' = Unread)
      BY <1>4, UnreadSteps DEF ReadLine, Begun, Resting, Left, Played
    <3>2. batch # <<>> /\ batch \in Lines /\ pipe \o inFlight \in Lines
      BY <1>4, LinesTyped, Joining DEF ReadLine
    <3>3. Head(Unread) = Head(batch) /\ Unread # <<>>
      BY <3>2, ReadingOne, Joining DEF Unread
    <3> QED
      BY <1>4, <1>c, <3>3, TwoLines DEF ReadLine, Quiet
  <2> QED
    BY <1>4, <1>e, <2>1 DEF ReadLine, Quiet
<1>5. CASE LinesRead
  BY <1>5, <1>e DEF LinesRead, Quiet
<1>6. CASE SetVolume
  BY <1>6, <1>c, <1>e DEF SetVolume
<1>7. CASE SetFails
  BY <1>7, <1>c, <1>e DEF SetFails
<1>8. CASE Ask
  BY <1>8, <1>c, <1>e, <1>0 DEF Ask, Quiet, Deaf
<1>9. CASE ReadMpris \/ MprisMissing \/ SlowSample
  BY <1>9, <1>e DEF ReadMpris, MprisMissing, SlowSample
<1>10. CASE Save
  BY <1>10, <1>c, <1>e DEF Save, Store
<1>11. CASE SaveFails \/ Crash
  BY <1>11, <1>e DEF SaveFails, Crash, Disconnected
<1>12. CASE Restart
  BY <1>12, <1>e DEF Restart, Quiet, LinkInv
<1>13. CASE Arrive
  <2>1. pipe' # <<>>
    BY <1>13, LinesTyped, Joining DEF Arrive
  <2> QED
    BY <1>13, <1>c, <1>e, <2>1 DEF Arrive, Quiet
<1>14. CASE Tick
  <2>1. connected' /\ active' = "inactive" /\ pc = "select" => pipe' # <<>>
    <3> SUFFICES ASSUME connected', active' = "inactive", pc = "select"
                 PROVE  pipe' # <<>>
      OBVIOUS
    <3>1. batch = <<>>
      BY DEF LinkInv
    <3>2. Unread = pipe \o inFlight
      BY <3>1, LinesTyped, Joining DEF Unread
    <3> QED
      BY <1>14, <1>c, <3>2, TwoLines DEF Tick, Pass
  <2> QED
    BY <1>14, <1>c, <1>e, <2>1 DEF Tick, Pass
<1>15. CASE Move
  BY <1>15 DEF Move
<1>16. CASE SourceChanges
  BY <1>16, <1>c, <1>e DEF SourceChanges
<1>17. CASE LevelChanges
  BY <1>17, <1>c, <1>e DEF LevelChanges
<1>18. CASE Around(ContainerStep)
  BY <1>18, <1>c, <1>e DEF Around
<1> QED
  BY <1>1, <1>2, <1>3, <1>4, <1>5, <1>6, <1>7, <1>8, <1>9, <1>10, <1>11, <1>12, <1>13,
     <1>14, <1>15, <1>16, <1>17, <1>18, NextCases DEF Acts

LEMMA SourceKept ==
    ASSUME FirstInv, LinkInv, TraceInv, SourceInv, [HandoffNext]_vars
    PROVE  SourceInv'
<1> DEFINE Own == heard \union {None}
<1>0. SUFFICES ASSUME moves' < 2, ~doubtful'
               PROVE  /\ saved' # None => saved' \in heard'
                      /\ file' \in Volumes => file' \in heard'
                      /\ pc' = "asked" => ~due'
                      /\ moves' = 0 => pending' \in Own'
                      /\ device' = "bridge" /\ pending' \notin Own' => Deaf'
  BY DEF SourceInv
<1>1. /\ moves \in Nat /\ (moves' = moves \/ moves' = moves + 1)
      /\ moves < 2 /\ (moves' = 0 => moves = 0)
  BY <1>0, HandoffAssumption, MovesCounted DEF Move, FirstInv, HandoffTypeOK
<1>2. ~doubtful /\ heard \subseteq heard' /\ Own \subseteq Own'
  BY <1>0, HistoryGrows
<1>3. /\ saved # None => saved \in heard
      /\ file \in Volumes => file \in heard
      /\ pc = "asked" => ~due
      /\ moves = 0 => pending \in Own
      /\ device = "bridge" /\ pending \notin Own => Deaf
  BY <1>1, <1>2 DEF SourceInv
<1>4. /\ device \in {"source", "bridge"} /\ source_volume \in heard
      /\ moves = 0 => device = "source"
  BY DEF FirstInv, HandoffTypeOK, LinkInv
<1> DEFINE volume == IF device = "bridge" THEN level ELSE source_volume
\* A reading settles only if the source had that volume.
<1>5. ReadMpris =>
        /\ pc = "asked" /\ ~due /\ saved # None /\ volume # None
        /\ (device = "bridge" => pending \in Own)
        /\ \/ saved' = volume /\ volume = pending /\ pending' = None
           \/ saved' = saved /\ pending' = volume /\ pc' = "select"
           \/ saved' = saved /\ pending' = None
        /\ UNCHANGED <<device, due, connected, heard, active, moves>>
  <2> SUFFICES ASSUME ReadMpris
               PROVE  /\ pc = "asked" /\ ~due /\ saved # None /\ volume # None
                      /\ (device = "bridge" => pending \in Own)
                      /\ \/ saved' = volume /\ volume = pending /\ pending' = None
                         \/ saved' = saved /\ pending' = volume /\ pc' = "select"
                         \/ saved' = saved /\ pending' = None
                      /\ UNCHANGED <<device, due, connected, heard, active, moves>>
    OBVIOUS
  <2>1. pc = "asked" /\ saved # None
    BY <1>0 DEF ReadMpris
  <2>2. device = "bridge" => pending \in Own
    BY <1>3, <2>1 DEF Deaf
  <2>3. volume # None
    BY VolumeAssumption DEF FirstInv, HandoffTypeOK
  <2>4. observe_source_volume(volume)
        /\ UNCHANGED <<device, due, connected, heard, active, moves>>
    BY DEF ReadMpris, spotify, trace, bounds
  <2> HIDE DEF volume
  <2> QED
    BY <1>3, <2>1, <2>2, <2>3, <2>4
    DEF observe_source_volume, Settle, Settling, Settled, Unchanged
<1>6. saved' # None => saved' \in heard'
  <2>1. CASE ReadMpris
    BY <1>2, <1>3, <1>4, <1>5, <2>1
  <2>2. CASE Restart
    BY <1>2, <1>3, <2>2 DEF Restart
  <2>3. CASE Crash
    BY <2>3 DEF Crash
  <2> QED
    BY <1>2, <1>3, <2>1, <2>2, <2>3, WhatChanges
<1>7. file' \in Volumes => file' \in heard'
  <2>1. CASE Save
    BY <1>2, <1>3, <2>1 DEF Save, Store, FirstInv, StoredInv
  <2>2. CASE Around(ContainerStep)
    BY <1>2, <1>3, <2>2, ContainerKept DEF Around, FirstInv
  <2> QED
    BY <1>2, <1>3, <2>1, <2>2, WhatChanges
<1>8. pc' = "asked" => ~due'
  BY <1>0, <1>3, WhatChanges DEF Ask, SlowSample
<1>9. moves' = 0 => pending' \in Own'
  <2>1. CASE ReadMpris
    BY <1>1, <1>2, <1>4, <1>5, <2>1
  <2>2. CASE Restart
    BY <1>1, <1>2, <1>3, <2>2 DEF Restart
  <2>3. CASE Crash
    BY <2>3 DEF Crash
  <2> QED
    BY <1>1, <1>2, <1>3, <2>1, <2>2, <2>3, WhatChanges
<1>10. ASSUME device' = "bridge", pending' \notin Own'
       PROVE  Deaf'
  <2>1. ~Crash
    BY <1>10 DEF Crash
  <2>2. CASE ReadMpris
    \* The reading that may be Soloist's is the last: the monitor waits for a tick.
    <3>1. pc' = "select" /\ ~due' /\ active' = "inactive" /\ connected' = connected
      BY <1>2, <1>5, <1>10, <2>2 DEF LinkInv
    <3> QED
      BY <3>1 DEF Deaf, None
  <2>3. CASE ~ReadMpris
    <3>1. pending' = pending /\ pending \notin Own
      BY <1>2, <1>10, <2>1, <2>3, WhatChanges DEF Restart
    <3>2. moves # 0
      BY <1>3, <3>1
    <3>3. ~Move
      BY <1>0, <1>1, <1>10, <3>2 DEF Move
    <3>4. device = "bridge" /\ moves = 1
      BY <1>1, <1>10, <3>2, <3>3, WhatChanges
    <3>5. Deaf
      BY <1>3, <3>1, <3>4
    <3>6. CASE HandoffNext
      BY <1>10, <3>4, <3>5, <3>6, DeafKept
    <3>7. CASE UNCHANGED vars
      BY <3>5, <3>7 DEF vars, monitor, trace, tracker, clock, Deaf, Unread
    <3> QED
      BY <3>6, <3>7
  <2> QED
    BY <2>2, <2>3
<1> QED
  BY <1>6, <1>7, <1>8, <1>9, <1>10

\* The inductive invariant for the origin of what is remembered.
THEOREM Origins == HandoffSpec => [](TraceInv /\ SourceInv)
<1>1. HandoffInit => TraceInv /\ SourceInv
  BY OriginsInitial
<1>2. FirstInv /\ LinkInv /\ TraceInv /\ SourceInv /\ [HandoffNext]_vars =>
        (TraceInv /\ SourceInv)'
  BY TraceKept, SourceKept
<1> QED
  BY <1>1, <1>2, Invariance, PTL DEF HandoffSpec

\* Until playback has come to Soloist a second time, and but for slow and first
\* samples, no volume is remembered that the source never had: a reading that falls
\* between the move and its line in the trace stays pending.
THEOREM SourceHeard == HandoffSpec => []SourceOnlyOnce
<1>1. SourceInv => SourceOnlyOnce
  BY DEF SourceInv, SourceOnlyOnce
<1> QED
  BY <1>1, Origins, PTL

=============================================================================
