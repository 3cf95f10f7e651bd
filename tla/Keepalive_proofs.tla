--------------------------- MODULE Keepalive_proofs ---------------------------
(***************************************************************************)
(* What the idle keepalive promises for any intervals and any number of     *)
(* disturbances: the service's bursts are an interval apart, none joins     *)
(* what was heard, and none follows a check that a lasting reason passed.   *)
(***************************************************************************)
EXTENDS Keepalive, TLAPS

\* The monitor dates its silence from the last burst at the earliest, ...
SilentSinceBurst == runner # "none" => last_audio <= lastBurst

\* ... and from the last sound it could hear.
SilentSinceSound == runner # "none" => last_audio <= lastSound

\* The service's guard begins an interval after the last burst.
IntervalKept == runner = "service" /\ pc \in {"guard", "recheck"} => lastBurst = INTERVAL

\* What lasts since the guard began speaks against a tone now, and the checks made
\* so far would have found it.
ChecksKept ==
    /\ pc = "guard" => /\ left \in 1 .. 6
                       /\ throughout \subseteq against
                       /\ \A i \in 1 .. (6 - left) : Checks[i] \notin throughout
    /\ pc = "recheck" => reason \/ throughout = {}

Running == runner = "none" <=> pc = "down"

IInv ==
    TypeOK /\ Running /\ SilentSinceBurst /\ SilentSinceSound /\ IntervalKept /\ ChecksKept

LEMMA SixChecks ==
    /\ Len(Checks) = 6
    /\ DOMAIN Checks = 1 .. 6
    /\ Reasons = {Checks[i] : i \in 1 .. 6}
    /\ Checks[2] = "spotify"
    /\ \A i \in 1 .. 6 : Checks[i] = "spotify" => i = 2
  BY DEF Checks, Reasons

LEMMA Constants ==
    /\ INTERVAL \in Nat /\ DURATION \in Nat /\ MaxDisturbances \in Nat
    /\ {QUIET_SECONDS, RETRY_SECONDS} \subseteq 0 .. INTERVAL
    /\ QUIET_SECONDS \in Nat
  BY KeepaliveAssumption

LEMMA AgesKept ==
    ASSUME NEW age \in Ages
    PROVE  Older(age) \in Ages /\ Sooner(age) \in Ages /\ 0 \in Ages
  BY KeepaliveAssumption DEF Ages, Older, Sooner

LEMMA Initial ==
    ASSUME Init
    PROVE  IInv
<1>1. 0 \in Ages /\ INTERVAL \in Ages /\ 0 \in 0 .. DURATION + 6 /\ 0 \in 0 .. MaxDisturbances
  BY Constants DEF Ages
<1> QED
  BY <1>1, SixChecks
  DEF Init, IInv, TypeOK, Ages, Running, SilentSinceBurst, SilentSinceSound, IntervalKept,
     ChecksKept

\* What changes without the program.
Outside ==
    /\ SoundChanges \/ SituationChanges \/ UnitChanges
    /\ UNCHANGED <<control, listening, timing, lastSound, lastBurst>>

LEMMA NextCases ==
    ASSUME [Next]_vars
    PROVE  \/ Ends \/ BeginGuard \/ Check \/ Decide \/ BurstEnds
           \/ \E who \in {"service", "once"} : Start(who)
           \/ MonitorReady \/ Tick \/ CheckFails \/ PlayerUnanswered \/ Dies
           \/ MonitorFails \/ StopRequested \/ Outside \/ UNCHANGED vars
  BY DEF Next, Run, StartUnit, Disturbance, Outside

LEMMA BoundKept ==
    ASSUME IInv, [Next]_vars
    PROVE  disturbances' \in 0 .. MaxDisturbances
<1>1. disturbances' = disturbances \/ (disturbances < MaxDisturbances /\ disturbances' = disturbances + 1)
  BY DEF Next, Run, Ends, BeginGuard, Check, Decide, BurstEnds, StartUnit, MonitorReady,
     Tick,
     Disturbance, vars
<1> QED
  BY <1>1, Constants DEF IInv, TypeOK

LEMMA TypesKept ==
    ASSUME IInv, [Next]_vars
    PROVE  TypeOK'
<1>a. /\ 0 \in Ages /\ INTERVAL \in Ages /\ RETRY_SECONDS \in Ages
      /\ {0, DURATION, 6} \subseteq 0 .. DURATION + 6
      /\ \A n \in 0 .. DURATION + 6 : n > 0 => n - 1 \in 0 .. DURATION + 6
  BY Constants DEF Ages
<1>b. Len(Checks) = 6 /\ (pc = "guard" => left - 1 \in 0 .. DURATION + 6)
  BY SixChecks, Constants DEF IInv, ChecksKept
<1>c. disturbances' \in 0 .. MaxDisturbances
  BY BoundKept
<1> USE <1>a, <1>b, <1>c, AgesKept DEF IInv, TypeOK, outside, control, timing, history
<1>1. CASE Ends
  BY <1>1 DEF Ends, Leave
<1>2. CASE BeginGuard
  BY <1>2 DEF BeginGuard, Goto
<1>3. CASE Check
  BY <1>3 DEF Check, Goto, Finds
<1>4. CASE Decide
  BY <1>4 DEF Decide, Leave, Goto
<1>5. CASE BurstEnds
  BY <1>5 DEF BurstEnds, Leave, Goto
<1>6. CASE \E who \in {"service", "once"} : Start(who)
  BY <1>6 DEF Start, FirstAudio
<1>7. CASE MonitorReady
  BY <1>7 DEF MonitorReady
<1>8. CASE Tick
  BY <1>8 DEF Tick
<1>9. CASE CheckFails
  BY <1>9 DEF CheckFails, Goto
<1>10. CASE PlayerUnanswered
  BY <1>10 DEF PlayerUnanswered, Goto
<1>11. CASE Dies
  BY <1>11 DEF Dies, Leave
<1>12. CASE MonitorFails
  BY <1>12 DEF MonitorFails
<1>13. CASE StopRequested
  BY <1>13 DEF StopRequested
<1>14. CASE Outside
  BY <1>14 DEF Outside, SoundChanges, SituationChanges, UnitChanges
<1>15. CASE UNCHANGED vars
  BY <1>15 DEF vars
<1> QED
  BY <1>1, <1>2, <1>3, <1>4, <1>5, <1>6, <1>7, <1>8, <1>9, <1>10, <1>11, <1>12, <1>13,
     <1>14, <1>15, NextCases

LEMMA RunningKept ==
    ASSUME IInv, [Next]_vars
    PROVE  Running'
<1> USE DEF IInv, TypeOK, Running, outside, control, timing, history
<1>1. CASE Ends
  BY <1>1 DEF Ends, Leave
<1>2. CASE BeginGuard
  BY <1>2 DEF BeginGuard, Goto
<1>3. CASE Check
  BY <1>3 DEF Check, Goto
<1>4. CASE Decide
  BY <1>4 DEF Decide, Leave, Goto
<1>5. CASE BurstEnds
  BY <1>5 DEF BurstEnds, Leave, Goto
<1>6. CASE \E who \in {"service", "once"} : Start(who)
  BY <1>6 DEF Start, FirstAudio
<1>7. CASE MonitorReady
  BY <1>7 DEF MonitorReady
<1>8. CASE Tick
  BY <1>8 DEF Tick
<1>9. CASE CheckFails
  BY <1>9 DEF CheckFails, Goto
<1>10. CASE PlayerUnanswered
  BY <1>10 DEF PlayerUnanswered, Goto
<1>11. CASE Dies
  BY <1>11 DEF Dies, Leave
<1>12. CASE MonitorFails
  BY <1>12 DEF MonitorFails
<1>13. CASE StopRequested
  BY <1>13 DEF StopRequested
<1>14. CASE Outside
  BY <1>14 DEF Outside, SoundChanges, SituationChanges, UnitChanges
<1>15. CASE UNCHANGED vars
  BY <1>15 DEF vars
<1> QED
  BY <1>1, <1>2, <1>3, <1>4, <1>5, <1>6, <1>7, <1>8, <1>9, <1>10, <1>11, <1>12, <1>13,
     <1>14, <1>15, NextCases

LEMMA SilenceKept ==
    ASSUME IInv, [Next]_vars
    PROVE  SilentSinceBurst' /\ SilentSinceSound'
<1> USE Constants DEF IInv, TypeOK, Running, SilentSinceBurst, SilentSinceSound, Ages,
        outside, control, timing, history
<1>1. CASE Ends
  BY <1>1 DEF Ends, Leave
<1>2. CASE BeginGuard
  BY <1>2 DEF BeginGuard, Goto
<1>3. CASE Check
  BY <1>3 DEF Check, Goto
<1>4. CASE Decide
  BY <1>4 DEF Decide, Leave, Goto
<1>5. CASE BurstEnds
  BY <1>5 DEF BurstEnds, Leave, Goto
<1>6. CASE \E who \in {"service", "once"} : Start(who)
  BY <1>6 DEF Start, FirstAudio
<1>7. CASE MonitorReady
  BY <1>7 DEF MonitorReady
<1>8. CASE Tick
  <2> SUFFICES ASSUME runner # "none" PROVE SilentSinceBurst' /\ SilentSinceSound'
    BY <1>8 DEF Tick
  <2>1. runner' = runner /\ lastBurst' = Older(lastBurst)
    BY <1>8 DEF Tick
  <2>2. CASE Heard
    BY <1>8, <2>1, <2>2 DEF Tick, Older
  <2>3. CASE ~Heard
    <3>1. last_audio' = Older(last_audio) /\ last_audio <= lastBurst
      BY <1>8, <2>3 DEF Tick
    <3>2. SilentSinceBurst'
      BY <2>1, <3>1 DEF Older
    <3>3. SilentSinceSound'
      <4>1. ~(sound /\ Audible)
        BY <2>3 DEF Heard, Loud, Audible
      <4>2. lastSound' = Older(lastSound) /\ last_audio <= lastSound
        BY <1>8, <4>1 DEF Tick
      <4> QED
        BY <3>1, <4>2 DEF Older
    <3> QED
      BY <3>2, <3>3
  <2> QED
    BY <2>2, <2>3
<1>9. CASE CheckFails
  BY <1>9 DEF CheckFails, Goto
<1>10. CASE PlayerUnanswered
  BY <1>10 DEF PlayerUnanswered, Goto
<1>11. CASE Dies
  BY <1>11 DEF Dies, Leave
<1>12. CASE MonitorFails
  BY <1>12 DEF MonitorFails
<1>13. CASE StopRequested
  BY <1>13 DEF StopRequested
<1>14. CASE Outside
  BY <1>14 DEF Outside, SoundChanges, SituationChanges, UnitChanges
<1>15. CASE UNCHANGED vars
  BY <1>15 DEF vars
<1> QED
  BY <1>1, <1>2, <1>3, <1>4, <1>5, <1>6, <1>7, <1>8, <1>9, <1>10, <1>11, <1>12, <1>13,
     <1>14, <1>15, NextCases

LEMMA IntervalStays ==
    ASSUME IInv, [Next]_vars
    PROVE  IntervalKept'
<1> USE Constants DEF IInv, TypeOK, Running, SilentSinceBurst, IntervalKept, Ages,
        outside, control, timing, history
<1>1. CASE Ends
  BY <1>1 DEF Ends, Leave
<1>2. CASE BeginGuard
  BY <1>2 DEF BeginGuard, Goto, Interval
<1>3. CASE Check
  BY <1>3 DEF Check, Goto
<1>4. CASE Decide
  BY <1>4 DEF Decide, Leave, Goto
<1>5. CASE BurstEnds
  BY <1>5 DEF BurstEnds, Leave, Goto
<1>6. CASE \E who \in {"service", "once"} : Start(who)
  BY <1>6 DEF Start, FirstAudio
<1>7. CASE MonitorReady
  BY <1>7 DEF MonitorReady
<1>8. CASE Tick
  BY <1>8 DEF Tick, Older
<1>9. CASE CheckFails
  BY <1>9 DEF CheckFails, Goto
<1>10. CASE PlayerUnanswered
  BY <1>10 DEF PlayerUnanswered, Goto
<1>11. CASE Dies
  BY <1>11 DEF Dies, Leave
<1>12. CASE MonitorFails
  BY <1>12 DEF MonitorFails
<1>13. CASE StopRequested
  BY <1>13 DEF StopRequested
<1>14. CASE Outside
  BY <1>14 DEF Outside, SoundChanges, SituationChanges, UnitChanges
<1>15. CASE UNCHANGED vars
  BY <1>15 DEF vars
<1> QED
  BY <1>1, <1>2, <1>3, <1>4, <1>5, <1>6, <1>7, <1>8, <1>9, <1>10, <1>11, <1>12, <1>13,
     <1>14, <1>15, NextCases

LEMMA ChecksStay ==
    ASSUME IInv, [Next]_vars
    PROVE  ChecksKept'
<1> USE SixChecks DEF IInv, TypeOK, Running, ChecksKept, outside, control, timing, history
<1>1. CASE Ends
  BY <1>1 DEF Ends, Leave
<1>2. CASE BeginGuard
  BY <1>2 DEF BeginGuard, Goto
<1>3. CASE Check
  <2>1. left \in 1 .. 6 /\ Current = Checks[7 - left] /\ throughout' = throughout
        /\ against' = against
    BY <1>3 DEF Check, Current
  <2>2. CASE reason'
    BY <1>3, <2>2 DEF Check, Goto
  <2>3. CASE ~reason'
    <3>1. Current \notin throughout
      BY <1>3, <2>1, <2>3 DEF Check, Finds
    <3>2. \A i \in 1 .. (7 - left) : Checks[i] \notin throughout
      BY <1>3, <2>1, <3>1 DEF Check
    <3>3. CASE left = 1
      <4>1. throughout = {}
        BY <1>3, <3>2, <3>3 DEF Check
      <4> QED
        BY <1>3, <2>1, <3>3, <4>1 DEF Check, Goto
    <3>4. CASE left # 1
      <4>1. pc' = "guard" /\ left' = left - 1
        BY <1>3, <2>3, <3>4 DEF Check, Goto
      <4> QED
        <5>1. left' \in 1 .. 6 /\ 6 - left' = 7 - left
          BY <2>1, <3>4, <4>1
        <5>2. \A i \in 1 .. (6 - left') : Checks[i] \notin throughout'
          BY <2>1, <3>2, <5>1
        <5>3. throughout' \subseteq against'
          BY <1>3, <2>1 DEF Check
        <5> QED
          BY <4>1, <5>1, <5>2, <5>3
    <3> QED
      BY <3>3, <3>4
  <2> QED
    BY <2>2, <2>3
<1>4. CASE Decide
  BY <1>4 DEF Decide, Leave, Goto
<1>5. CASE BurstEnds
  BY <1>5 DEF BurstEnds, Leave, Goto
<1>6. CASE \E who \in {"service", "once"} : Start(who)
  BY <1>6 DEF Start, FirstAudio
<1>7. CASE MonitorReady
  BY <1>7 DEF MonitorReady
<1>8. CASE Tick
  BY <1>8 DEF Tick
<1>9. CASE CheckFails
  BY <1>9 DEF CheckFails, Goto
<1>10. CASE PlayerUnanswered
  <2>1. left \in 1 .. 6 /\ Checks[7 - left] = "spotify"
    BY <1>10 DEF PlayerUnanswered, Current
  <2>2. left = 5
    BY <2>1
  <2>3. pc' = "guard" /\ left' = 4 /\ throughout' = throughout \ {"spotify"}
        /\ against' = against /\ throughout \subseteq against
        /\ Checks[1] \notin throughout
    BY <1>10, <2>2 DEF PlayerUnanswered, Goto
  <2> QED
    BY <2>3
<1>11. CASE Dies
  BY <1>11 DEF Dies, Leave
<1>12. CASE MonitorFails
  BY <1>12 DEF MonitorFails
<1>13. CASE StopRequested
  BY <1>13 DEF StopRequested
<1>14. CASE Outside
  BY <1>14 DEF Outside, SoundChanges, SituationChanges, UnitChanges
<1>15. CASE UNCHANGED vars
  BY <1>15 DEF vars
<1> QED
  BY <1>1, <1>2, <1>3, <1>4, <1>5, <1>6, <1>7, <1>8, <1>9, <1>10, <1>11, <1>12, <1>13,
     <1>14, <1>15, NextCases

-----------------------------------------------------------------------------
(* The promises *)

\* The inductive invariant.
THEOREM Invariance == Spec => []IInv
<1>1. Init => IInv
  BY Initial
<1>2. IInv /\ [Next]_vars => IInv'
  BY TypesKept, RunningKept, SilenceKept, IntervalStays, ChecksStay DEF IInv
<1> QED
  BY <1>1, <1>2, PTL DEF Spec

\* Every variable of the keepalive keeps its type.
THEOREM TypeCorrect == Spec => []TypeOK
<1>1. IInv => TypeOK
  BY DEF IInv
<1> QED
  BY <1>1, Invariance, PTL

\* Only Decide begins a burst, and with nothing against it.
LEMMA BurstDecided ==
    ASSUME IInv, [Next]_vars, Bursts
    PROVE  pc = "recheck" /\ ~Refused /\ runner # "none" /\ UNCHANGED runner
<1>1. Decide
  BY NextCases DEF Bursts, Ends, BeginGuard, Check, BurstEnds, Start, MonitorReady, Tick,
     CheckFails, PlayerUnanswered, Dies, MonitorFails, StopRequested, Outside, Leave, Goto,
     control, vars
<1>2. pc = "recheck" /\ ~Refused
  BY <1>1 DEF Decide, Bursts, Leave, Goto
<1>3. UNCHANGED runner
  BY <1>1, <1>2 DEF Decide, Bursts, Leave, Goto
<1> QED
  BY <1>2, <1>3 DEF IInv, Running

\* The service's bursts are an interval apart, whoever sent the one before.
THEOREM Spaced == Spec => BurstsSpaced
<1>1. IInv /\ [Next]_vars => [Bursts /\ runner = "service" => lastBurst = INTERVAL]_vars
  BY BurstDecided DEF IInv, IntervalKept
<1> QED
  BY <1>1, Invariance, PTL DEF BurstsSpaced, Spec

\* No burst joins what the monitor could hear.
THEOREM ApartFromAudio == Spec => NotOverAudio
<1>1. IInv /\ [Next]_vars => [Bursts => lastSound >= QUIET_SECONDS]_vars
  <2> SUFFICES ASSUME IInv, [Next]_vars, Bursts
               PROVE  lastSound >= QUIET_SECONDS
    OBVIOUS
  <2>1. last_audio >= QUIET_SECONDS /\ last_audio <= lastSound
    BY BurstDecided, Constants DEF IInv, SilentSinceSound, Refused, TypeOK, Ages
  <2> QED
    BY <2>1, Constants DEF IInv, TypeOK, Ages
<1> QED
  BY <1>1, Invariance, PTL DEF NotOverAudio, Spec

\* A reason that lasted from the first check to the burst would have been found.
THEOREM Suppressed == Spec => SuppressedThroughout
<1>1. IInv /\ [Next]_vars => [Bursts => throughout = {}]_vars
  BY BurstDecided DEF IInv, ChecksKept, Refused
<1> QED
  BY <1>1, Invariance, PTL DEF SuppressedThroughout, Spec
=============================================================================
