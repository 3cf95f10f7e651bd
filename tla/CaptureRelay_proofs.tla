------------------------- MODULE CaptureRelay_proofs -------------------------
(***************************************************************************)
(* What holds of the capture relay for every capacity of its buffers: its   *)
(* backlog is the newest run of captured blocks, OwnTone hears blocks in     *)
(* order and once, no closed descriptor stays registered, and the relay      *)
(* implements LossyStream.                                                   *)
(***************************************************************************)
EXTENDS CaptureRelay, TLAPS

\* Everything in the FIFO is older than the backlog, newer than what was heard,
\* and in capture order.
FifoOrdered ==
    /\ \A i, j \in 1 .. Len(fifo) : i < j => fifo[i] < fifo[j]
    /\ \A i \in 1 .. Len(fifo) : lastRead < fifo[i] /\ fifo[i] <= captured - Len(buf)
    /\ lastRead <= captured - Len(buf)

\* During flush_fifo and while blocks are appended the writer is unregistered
\* or about to be; an exited relay holds nothing.
ControlInv ==
    /\ pc = "flush" => ~registered
    /\ registered => fd
    /\ pc = "exited" => buf = <<>> /\ ~fd /\ ~registered

IInv == TypeOK /\ BacklogIsNewest /\ FifoOrdered /\ ControlInv

-----------------------------------------------------------------------------

\* A longer sequence, element by element.
LEMMA AppendIndexed ==
    ASSUME NEW S, NEW s \in Seq(S), NEW e \in S
    PROVE  \A i \in 1 .. Len(Append(s, e)) : Append(s, e)[i] = IF i <= Len(s) THEN s[i] ELSE e
OBVIOUS

\* The empty backlog, or FIFO, is one.
LEMMA NoBlocks == <<>> \in Seq(Nat) /\ Len(<<>>) = 0
OBVIOUS

\* The initial state satisfies the inductive invariant.
LEMMA InitIInv == Init => IInv
<1> SUFFICES ASSUME Init PROVE IInv
  OBVIOUS
<1> USE RelayAssumption DEF Init
<1>1. <<>> \in Seq(Nat) /\ Len(<<>>) = 0 /\ MAX_BLOCKS \in Nat
  BY NoBlocks
<1>2. TypeOK
  <2>1. ready \in SUBSET Keys /\ source \in 0 .. SOURCE_FRAGMENTS
    OBVIOUS
  <2>2. buf \in Seq(Nat) /\ fifo \in Seq(Nat)
    BY <1>1
  <2> QED
    BY <2>1, <2>2 DEF TypeOK, PCs
<1>3. BacklogIsNewest
  BY <1>1 DEF BacklogIsNewest
<1>4. FifoOrdered
  BY <1>1 DEF FifoOrdered
<1>5. ControlInv
  BY DEF ControlInv
<1> QED
  BY <1>2, <1>3, <1>4, <1>5 DEF IInv

\* A step that changes neither the blocks nor what was heard keeps their order.
LEMMA SameBlocks ==
    ASSUME IInv, UNCHANGED <<captured, buf, fifo, lastRead>>
    PROVE  BacklogIsNewest' /\ FifoOrdered'
BY DEF IInv, BacklogIsNewest, FifoOrdered

\* Emptying the backlog, and maybe the FIFO, keeps the order of what is left.
LEMMA EmptiedBacklog ==
    ASSUME IInv, buf' = <<>>, fifo' = fifo \/ fifo' = <<>>, UNCHANGED <<captured, lastRead>>
    PROVE  BacklogIsNewest' /\ FifoOrdered'
<1>1. buf \in Seq(Nat) /\ Len(buf) \in Nat /\ captured \in Nat /\ lastRead \in Nat
  BY DEF IInv, TypeOK
<1>2. Len(buf') = 0 /\ MAX_BLOCKS \in Nat
  BY RelayAssumption
<1>3. BacklogIsNewest'
  BY <1>1, <1>2 DEF BacklogIsNewest
<1>4. CASE fifo' = fifo
  BY <1>1, <1>2, <1>3, <1>4 DEF IInv, TypeOK, FifoOrdered
<1>5. CASE fifo' = <<>>
  BY <1>1, <1>2, <1>3, <1>5 DEF IInv, TypeOK, FifoOrdered
<1> QED
  BY <1>4, <1>5

\* The relay's way out keeps the invariant.
LEMMA LeaveIInv ==
    ASSUME IInv, Leave
    PROVE  IInv'
<1>1. TypeOK'
  <2>1. ready' \in SUBSET Keys /\ source' \in 0 .. SOURCE_FRAGMENTS /\ pending' \in Nat
    BY RelayAssumption DEF Leave
  <2>2. buf' \in Seq(Nat) /\ fifo' \in Seq(Nat)
    BY NoBlocks DEF IInv, TypeOK, Leave, Kept
  <2> QED
    BY <2>1, <2>2 DEF IInv, TypeOK, Leave, PCs
<1>2. BacklogIsNewest' /\ FifoOrdered'
  BY EmptiedBacklog DEF Leave, Kept
<1>3. ControlInv'
  BY DEF Leave, ControlInv
<1> QED
  BY <1>1, <1>2, <1>3 DEF IInv

\* Capturing a block, into a backlog with room or over a full one.
LEMMA AppendBlockIInv ==
    ASSUME IInv, AppendBlock
    PROVE  IInv'
<1> USE RelayAssumption
<1>1. buf \in Seq(Nat) /\ captured \in Nat /\ Len(buf) \in Nat /\ captured' = captured + 1
  BY DEF IInv, TypeOK, AppendBlock
<1>2. TypeOK'
  BY <1>1 DEF IInv, TypeOK, AppendBlock, Appended, PCs, Keys, envVars
<1>3. UNCHANGED <<fifo, lastRead>>
  BY DEF AppendBlock, envVars
<1>4. ASSUME Len(buf) + 1 > MAX_BLOCKS PROVE BacklogIsNewest' /\ FifoOrdered'
  <2>1. buf' = <<captured + 1>> /\ Len(buf') = 1 /\ buf'[1] = captured + 1
    BY <1>4 DEF AppendBlock, Appended
  <2>2. BacklogIsNewest'
    BY <1>1, <2>1 DEF BacklogIsNewest
  <2>3. FifoOrdered'
    BY <1>1, <1>3, <2>1 DEF IInv, TypeOK, FifoOrdered
  <2> QED
    BY <2>2, <2>3
<1>5. ASSUME ~(Len(buf) + 1 > MAX_BLOCKS) PROVE BacklogIsNewest' /\ FifoOrdered'
  <2>1. buf' = Append(buf, captured + 1) /\ Len(buf') = Len(buf) + 1
    BY <1>1, <1>5 DEF AppendBlock, Appended
  <2>2. \A i \in 1 .. Len(buf') : buf'[i] = IF i <= Len(buf) THEN buf[i] ELSE captured + 1
    BY <1>1, <2>1
  <2>3. BacklogIsNewest'
    BY <1>1, <1>5, <2>1, <2>2 DEF IInv, BacklogIsNewest
  <2>4. FifoOrdered'
    BY <1>1, <1>3, <2>1 DEF IInv, TypeOK, FifoOrdered
  <2> QED
    BY <2>3, <2>4
<1>6. ControlInv'
  BY DEF IInv, ControlInv, AppendBlock
<1> QED
  BY <1>2, <1>4, <1>5, <1>6 DEF IInv

\* Handing the head of the backlog to the kernel.
LEMMA WriteBlockIInv ==
    ASSUME IInv, WriteBlock
    PROVE  IInv'
<1> USE RelayAssumption
<1>1. /\ buf \in Seq(Nat) /\ buf # <<>> /\ Len(buf) \in Nat \ {0}
      /\ fifo \in Seq(Nat) /\ captured \in Nat /\ lastRead \in Nat
  BY DEF IInv, TypeOK, WriteBlock
<1>2. /\ Head(buf) = buf[1] /\ buf[1] = captured - Len(buf) + 1
      /\ Len(Tail(buf)) = Len(buf) - 1
      /\ \A i \in 1 .. Len(Tail(buf)) : Tail(buf)[i] = buf[i + 1]
  BY <1>1 DEF IInv, BacklogIsNewest
<1>3. TypeOK'
  BY <1>1 DEF IInv, TypeOK, WriteBlock, PCs, Keys
<1>4. BacklogIsNewest'
  BY <1>1, <1>2 DEF IInv, BacklogIsNewest, WriteBlock
<1>5. FifoOrdered'
  <2>1. Len(fifo') = Len(fifo) + 1
    BY <1>1 DEF WriteBlock
  <2>2. \A i \in 1 .. Len(fifo') : fifo'[i] = IF i <= Len(fifo) THEN fifo[i] ELSE buf[1]
    <3>1. Head(buf) = buf[1]
      BY <1>2
    <3>2. fifo \in Seq(Nat) /\ buf[1] \in Nat /\ fifo' = Append(fifo, buf[1])
      BY <1>1, <3>1 DEF WriteBlock
    <3> QED
      BY <3>2, AppendIndexed
  <2>3. captured' = captured /\ lastRead' = lastRead /\ Len(buf') = Len(buf) - 1
    BY <1>2 DEF WriteBlock
  <2>4. \A i \in 1 .. Len(fifo') : lastRead < fifo'[i] /\ fifo'[i] <= captured - Len(buf')
    <3> SUFFICES ASSUME NEW i \in 1 .. Len(fifo')
                 PROVE  lastRead < fifo'[i] /\ fifo'[i] <= captured - Len(buf')
      OBVIOUS
    <3>1. CASE i <= Len(fifo)
      <4>1. i \in 1 .. Len(fifo) /\ fifo'[i] = fifo[i] /\ fifo[i] \in Nat
        BY <1>1, <2>1, <2>2, <3>1
      <4>2. lastRead < fifo[i] /\ fifo[i] <= captured - Len(buf)
        BY <4>1 DEF IInv, FifoOrdered
      <4> QED
        BY <1>1, <2>3, <4>1, <4>2
    <3>2. CASE i > Len(fifo)
      <4>1. fifo'[i] = captured - Len(buf) + 1
        BY <1>1, <1>2, <2>1, <2>2, <3>2
      <4>2. lastRead <= captured - Len(buf)
        BY DEF IInv, FifoOrdered
      <4> QED
        BY <1>1, <2>3, <4>1, <4>2
    <3> QED
      BY <3>1, <3>2, <1>1, <2>1
  <2>5. \A i, j \in 1 .. Len(fifo') : i < j => fifo'[i] < fifo'[j]
    <3> SUFFICES ASSUME NEW i \in 1 .. Len(fifo'), NEW j \in 1 .. Len(fifo'), i < j
                 PROVE  fifo'[i] < fifo'[j]
      OBVIOUS
    <3>1. i \in 1 .. Len(fifo) /\ fifo'[i] = fifo[i] /\ fifo[i] \in Nat
      BY <1>1, <2>1, <2>2
    <3>2. fifo[i] <= captured - Len(buf)
      BY <3>1 DEF IInv, FifoOrdered
    <3>3. CASE j <= Len(fifo)
      BY <3>1, <3>3, <2>2 DEF IInv, FifoOrdered
    <3>4. CASE j > Len(fifo)
      BY <1>1, <1>2, <3>1, <3>2, <3>4, <2>2
    <3> QED
      BY <3>3, <3>4, <1>1, <2>1
  <2>6. lastRead' <= captured' - Len(buf')
    BY <1>1, <2>3 DEF IInv, FifoOrdered
  <2> QED
    BY <2>3, <2>4, <2>5, <2>6 DEF FifoOrdered
<1>6. ControlInv'
  BY DEF IInv, ControlInv, WriteBlock
<1> QED
  BY <1>3, <1>4, <1>5, <1>6 DEF IInv

\* OwnTone reading the head of the FIFO.
LEMMA ReaderReadIInv ==
    ASSUME IInv, ReaderRead
    PROVE  IInv'
<1> USE RelayAssumption
<1>1. /\ fifo \in Seq(Nat) /\ fifo # <<>> /\ Len(fifo) \in Nat \ {0}
      /\ captured \in Nat /\ lastRead \in Nat
  BY DEF IInv, TypeOK, ReaderRead
<1>2. /\ Head(fifo) = fifo[1]
      /\ Len(Tail(fifo)) = Len(fifo) - 1
      /\ \A i \in 1 .. Len(Tail(fifo)) : Tail(fifo)[i] = fifo[i + 1]
  BY <1>1
<1>3. TypeOK'
  BY <1>1 DEF IInv, TypeOK, ReaderRead, relayVars, PCs, Keys
<1>4. BacklogIsNewest'
  BY DEF IInv, BacklogIsNewest, ReaderRead, relayVars
<1>5. FifoOrdered'
  BY <1>1, <1>2 DEF IInv, TypeOK, FifoOrdered, ReaderRead, relayVars
<1>6. ControlInv'
  BY DEF IInv, ControlInv, ReaderRead, relayVars
<1> QED
  BY <1>3, <1>4, <1>5, <1>6 DEF IInv

\* Every step of the relay and of its environment keeps the invariant.
LEMMA NextIInv == IInv /\ [Next]_vars => IInv'
<1> SUFFICES ASSUME IInv, [Next]_vars PROVE IInv'
  OBVIOUS
<1> USE RelayAssumption
<1> DEFINE SameData == UNCHANGED <<captured, buf, fifo, lastRead>>
<1>1. CASE Register
  <2>1. TypeOK'
    BY <1>1 DEF IInv, TypeOK, Register, envVars, PCs, Keys
  <2>2. SameData
    BY <1>1 DEF Register, envVars
  <2>3. ControlInv'
    BY <1>1 DEF IInv, ControlInv, Register
  <2> QED
    BY <2>1, <2>2, <2>3, SameBlocks DEF IInv
<1>2. CASE Select
  <2>1. TypeOK'
    BY <1>2 DEF IInv, TypeOK, Select, Ready, NextEvent, envVars, PCs, Keys
  <2>2. SameData
    BY <1>2 DEF Select, envVars
  <2>3. ControlInv'
    BY <1>2 DEF IInv, ControlInv, Select, NextEvent
  <2> QED
    BY <2>1, <2>2, <2>3, SameBlocks DEF IInv
<1>3. CASE ReadSource
  <2>1. TypeOK'
    BY <1>3 DEF IInv, TypeOK, ReadSource, PCs, Keys
  <2>2. SameData
    BY <1>3 DEF ReadSource
  <2>3. ControlInv'
    BY <1>3 DEF IInv, ControlInv, ReadSource
  <2> QED
    BY <2>1, <2>2, <2>3, SameBlocks DEF IInv
<1>4. CASE AppendBlock
  BY <1>4, AppendBlockIInv
<1>5. CASE EndAppend
  <2>1. TypeOK'
    BY <1>5 DEF IInv, TypeOK, EndAppend, envVars, PCs, Keys
  <2>2. SameData
    BY <1>5 DEF EndAppend, envVars
  <2>3. ControlInv'
    BY <1>5 DEF IInv, ControlInv, EndAppend
  <2> QED
    BY <2>1, <2>2, <2>3, SameBlocks DEF IInv
<1>6. CASE FifoEvent
  <2>1. TypeOK'
    BY <1>6 DEF IInv, TypeOK, FifoEvent, envVars, PCs, Keys
  <2>2. SameData
    BY <1>6 DEF FifoEvent, envVars
  <2>3. ControlInv'
    BY <1>6 DEF IInv, ControlInv, FifoEvent
  <2> QED
    BY <2>1, <2>2, <2>3, SameBlocks DEF IInv
<1>7. CASE FlushDone \/ FifoFull
  <2>1. TypeOK'
    BY <1>7 DEF IInv, TypeOK, FlushDone, FifoFull, NextEvent, envVars, PCs, Keys
  <2>2. SameData
    BY <1>7 DEF FlushDone, FifoFull, envVars
  <2>3. ControlInv'
    BY <1>7 DEF IInv, ControlInv, FlushDone, FifoFull, NextEvent
  <2> QED
    BY <2>1, <2>2, <2>3, SameBlocks DEF IInv
<1>8. CASE OpenFifo
  <2>1. TypeOK'
    BY <1>8 DEF IInv, TypeOK, OpenFifo, envVars, PCs, Keys
  <2>2. SameData
    BY <1>8 DEF OpenFifo, envVars
  <2>3. ControlInv'
    BY <1>8 DEF IInv, ControlInv, OpenFifo
  <2> QED
    BY <2>1, <2>2, <2>3, SameBlocks DEF IInv
<1>9. CASE OpenNoReader \/ FifoClosed
  <2>1. TypeOK'
    BY <1>9, NoBlocks DEF IInv, TypeOK, OpenNoReader, FifoClosed, Kept, NextEvent, envVars, PCs, Keys
  <2>2. buf' = <<>> /\ (fifo' = fifo \/ fifo' = <<>>) /\ UNCHANGED <<captured, lastRead>>
    BY <1>9 DEF OpenNoReader, FifoClosed, Kept, envVars
  <2>3. ControlInv'
    BY <1>9 DEF IInv, ControlInv, OpenNoReader, FifoClosed, NextEvent
  <2> QED
    BY <2>1, <2>2, <2>3, EmptiedBacklog DEF IInv
<1>10. CASE WriteBlock
  BY <1>10, WriteBlockIInv
<1>11. CASE Stopped \/ EndOfCapture \/ Crash
  BY <1>11, LeaveIInv DEF Stopped, EndOfCapture, Crash
<1>12. CASE StopSignal \/ ParecWrite \/ ParecEnd \/ ReaderOpen
  <2>1. TypeOK'
    <3>1. CASE StopSignal
      BY <3>1 DEF IInv, TypeOK, StopSignal, envVars, PCs, Keys
    <3>2. CASE ParecWrite
      BY <3>2 DEF IInv, TypeOK, ParecWrite, relayVars, PCs, Keys
    <3>3. CASE ParecEnd \/ ReaderOpen
      BY <3>3 DEF IInv, TypeOK, ParecEnd, ReaderOpen, relayVars, PCs, Keys
    <3> QED
      BY <1>12, <3>1, <3>2, <3>3
  <2>2. SameData
    BY <1>12 DEF StopSignal, ParecWrite, ParecEnd, ReaderOpen, relayVars, envVars
  <2>3. ControlInv'
    BY <1>12 DEF IInv, ControlInv, StopSignal, ParecWrite, ParecEnd, ReaderOpen, relayVars
  <2> QED
    BY <2>1, <2>2, <2>3, SameBlocks DEF IInv
<1>13. CASE Restart
  <2>1. TypeOK'
    BY <1>13 DEF IInv, TypeOK, Restart, PCs, Keys
  <2>2. SameData
    BY <1>13 DEF Restart
  <2>3. ControlInv'
    BY <1>13 DEF IInv, ControlInv, Restart
  <2> QED
    BY <2>1, <2>2, <2>3, SameBlocks DEF IInv
<1>14. CASE ReaderClose
  <2>1. TypeOK'
    BY <1>14, NoBlocks DEF IInv, TypeOK, ReaderClose, Kept, relayVars, PCs, Keys
  <2>2. BacklogIsNewest'
    BY <1>14 DEF IInv, BacklogIsNewest, ReaderClose, relayVars
  <2>3. FifoOrdered'
    <3>1. UNCHANGED <<captured, buf, lastRead>> /\ (fifo' = fifo \/ fifo' = <<>>)
      BY <1>14 DEF ReaderClose, Kept, relayVars
    <3> QED
      BY <3>1 DEF IInv, FifoOrdered
  <2>4. ControlInv'
    BY <1>14 DEF IInv, ControlInv, ReaderClose, relayVars
  <2> QED
    BY <2>1, <2>2, <2>3, <2>4 DEF IInv
<1>15. CASE ReaderRead
  BY <1>15, ReaderReadIInv
<1>16. CASE UNCHANGED vars
  BY <1>16 DEF vars, relayVars, envVars, IInv, TypeOK, BacklogIsNewest, FifoOrdered, ControlInv
<1> QED
  BY <1>1, <1>2, <1>3, <1>4, <1>5, <1>6, <1>7, <1>8, <1>9, <1>10, <1>11, <1>12, <1>13,
     <1>14, <1>15, <1>16 DEF Next, Relay, Environment

\* The inductive invariant holds in every behaviour of the relay.
THEOREM Invariance == Spec => []IInv
<1>1. Init => IInv
  BY InitIInv
<1>2. IInv /\ [Next]_vars => IInv'
  BY NextIInv
<1> QED
  BY <1>1, <1>2, PTL DEF Spec

-----------------------------------------------------------------------------

\* Every variable stays in its type, whatever the capacities (run, PCMBuffer).
THEOREM TypeCorrect == Spec => []TypeOK
<1>1. IInv => TypeOK
  BY DEF IInv
<1> QED
  BY <1>1, Invariance, PTL

\* The backlog is always the newest run of captured blocks and never longer
\* than MAX_BUFFER_BYTES (PCMBuffer.append, flush_fifo).
THEOREM NewestBacklog == Spec => []BacklogIsNewest
<1>1. IInv => BacklogIsNewest
  BY DEF IInv
<1> QED
  BY <1>1, Invariance, PTL

\* flush_fifo never closes a descriptor the selector still holds.
THEOREM OpenWhileRegistered == Spec => []RegisteredIsOpen
<1>1. IInv => RegisteredIsOpen
  BY DEF IInv, ControlInv, RegisteredIsOpen
<1> QED
  BY <1>1, Invariance, PTL

\* What the FIFO and the backlog hold, one after the other, is in capture order
\* and newer than what OwnTone has read.
LEMMA QueuedInOrder == IInv => NoReplay
<1> SUFFICES ASSUME IInv PROVE NoReplay
  OBVIOUS
<1> DEFINE s == fifo \o buf
           n == Len(fifo)
           m == Len(buf)
<1>1. /\ fifo \in Seq(Nat) /\ buf \in Seq(Nat) /\ n \in Nat /\ m \in Nat
      /\ captured \in Nat /\ lastRead \in Nat
  BY DEF IInv, TypeOK
<1>2. Len(s) = n + m
  BY <1>1
<1>3. \A i \in 1 .. n : s[i] = fifo[i] /\ fifo[i] \in Nat
  BY <1>1
<1>4. \A i \in n + 1 .. n + m : s[i] = buf[i - n]
  BY <1>1
<1>5. \A i \in n + 1 .. n + m : s[i] = captured - m + (i - n)
  <2> SUFFICES ASSUME NEW i \in n + 1 .. n + m PROVE s[i] = captured - m + (i - n)
    OBVIOUS
  <2>1. i - n \in 1 .. m
    BY <1>1
  <2>2. buf[i - n] = captured - m + (i - n)
    BY <2>1 DEF IInv, BacklogIsNewest
  <2> QED
    BY <1>4, <2>2
<1>6. \A i \in 1 .. n : lastRead < fifo[i] /\ fifo[i] <= captured - m
  BY DEF IInv, FifoOrdered
<1>7. lastRead <= captured - m
  BY DEF IInv, FifoOrdered
<1>8. \A i \in 1 .. Len(s) : s[i] > lastRead
  <2> HIDE DEF s, n, m
  <2> SUFFICES ASSUME NEW i \in 1 .. n + m PROVE s[i] > lastRead
    BY <1>2
  <2>1. CASE i <= n
    BY <2>1, <1>1, <1>3, <1>6
  <2>2. CASE i > n
    BY <2>2, <1>1, <1>5, <1>7
  <2> QED
    BY <2>1, <2>2, <1>1
<1>9. \A i \in 1 .. n - 1 : fifo[i] < fifo[i + 1]
  <2>1. \A i, j \in 1 .. n : i < j => fifo[i] < fifo[j]
    BY DEF IInv, FifoOrdered
  <2> QED
    BY <1>1, <2>1
<1>10. \A i \in 1 .. Len(s) - 1 : s[i] < s[i + 1]
  <2> HIDE DEF s, n, m
  <2> SUFFICES ASSUME NEW i \in 1 .. (n + m) - 1 PROVE s[i] < s[i + 1]
    BY <1>2
  <2>1. CASE i + 1 <= n
    BY <2>1, <1>1, <1>3, <1>9
  <2>2. CASE i = n
    <3>1. n + 1 \in n + 1 .. n + m /\ n \in 1 .. n
      BY <2>2, <1>1
    <3>2. s[n + 1] = captured - m + 1
      BY <3>1, <1>1, <1>5
    <3>3. s[n] = fifo[n] /\ fifo[n] \in Nat /\ fifo[n] <= captured - m
      BY <3>1, <1>3, <1>6
    <3>4. s[n] < s[n + 1]
      BY <3>2, <3>3, <1>1
    <3> QED
      BY <2>2, <3>4
  <2>3. CASE i > n
    BY <2>3, <1>1, <1>5
  <2> QED
    BY <2>1, <2>2, <2>3, <1>1
<1> QED
  BY <1>8, <1>10 DEF NoReplay, Increasing

\* OwnTone never hears a block twice or out of order, however its reader and the
\* relay stall, close and restart (flush_fifo, PCMBuffer).
THEOREM HeardInOrder == Spec => []NoReplay
<1>1. IInv => NoReplay
  BY QueuedInOrder
<1> QED
  BY <1>1, Invariance, PTL

-----------------------------------------------------------------------------
(* Refinement of LossyStream *)

\* The abstract queue before and after a step that emptied the backlog.
LEMMA LosingIsLose ==
    ASSUME IInv, buf' = <<>>, fifo' = fifo \/ fifo' = <<>>, UNCHANGED <<captured, lastRead>>
    PROVE  Stream!Lose
<1>1. Len(buf') = 0
  BY NoBlocks
<1>2. {buf'[i] : i \in 1 .. Len(buf')} = {}
  BY <1>1
<1>3. {fifo'[i] : i \in 1 .. Len(fifo')} \subseteq {fifo[i] : i \in 1 .. Len(fifo)}
  BY NoBlocks
<1> QED
  BY <1>2, <1>3 DEF Stream!Lose, Queue

\* Capturing a block is Capture: an overflow loses the older blocks only.
LEMMA AppendIsCapture ==
    ASSUME IInv, AppendBlock
    PROVE  Stream!Capture
<1>1. /\ buf \in Seq(Nat) /\ Len(buf) \in Nat /\ captured \in Nat
      /\ captured' = captured + 1 /\ fifo' = fifo /\ lastRead' = lastRead
  BY DEF IInv, TypeOK, AppendBlock, envVars
<1> DEFINE B == {buf[i] : i \in 1 .. Len(buf)}
           C == {buf'[i] : i \in 1 .. Len(buf')}
<1>2. captured + 1 \in C /\ C \subseteq B \union {captured + 1}
  <2>1. CASE Len(buf) + 1 > MAX_BLOCKS
    <3>1. buf' = <<captured + 1>>
      BY <2>1 DEF AppendBlock, Appended
    <3>2. Len(buf') = 1 /\ buf'[1] = captured + 1
      BY <3>1
    <3> QED
      BY <3>2
  <2>2. CASE ~(Len(buf) + 1 > MAX_BLOCKS)
    <3>1. buf' = Append(buf, captured + 1)
      BY <2>2 DEF AppendBlock, Appended
    <3>2. Len(buf') = Len(buf) + 1 /\ buf'[Len(buf) + 1] = captured + 1
      BY <1>1, <3>1
    <3>3. \A i \in 1 .. Len(buf) : buf'[i] = buf[i]
      BY <1>1, <3>1
    <3>4. Len(buf) + 1 \in 1 .. Len(buf')
      BY <1>1, <3>2
    <3>5. captured + 1 \in C
      BY <3>2, <3>4
    <3>6. ASSUME NEW i \in 1 .. Len(buf') PROVE buf'[i] \in B \union {captured + 1}
      <4>1. i \in 1 .. Len(buf) \/ i = Len(buf) + 1
        BY <1>1, <3>2
      <4> QED
        BY <4>1, <3>2, <3>3
    <3> QED
      BY <3>5, <3>6
  <2> QED
    BY <2>1, <2>2
<1>3. Queue' = {fifo[i] : i \in 1 .. Len(fifo)} \union C
  BY <1>1 DEF Queue
<1>4. Queue = {fifo[i] : i \in 1 .. Len(fifo)} \union B
  BY DEF Queue
<1>5. captured + 1 \in Queue' /\ Queue' \in SUBSET (Queue \union {captured + 1})
  <2> HIDE DEF B, C
  <2> QED
    BY <1>2, <1>3, <1>4
<1> QED
  BY <1>1, <1>5 DEF Stream!Capture

\* Moving the head of the backlog into the FIFO is invisible.
LEMMA WriteIsStutter ==
    ASSUME IInv, WriteBlock
    PROVE  UNCHANGED Stream!vars
<1>1. /\ buf \in Seq(Nat) /\ buf # <<>> /\ Len(buf) \in Nat \ {0} /\ fifo \in Seq(Nat)
      /\ fifo' = Append(fifo, Head(buf)) /\ buf' = Tail(buf)
      /\ captured' = captured /\ lastRead' = lastRead
  BY DEF IInv, TypeOK, WriteBlock
<1> DEFINE F == {fifo[i] : i \in 1 .. Len(fifo)}
           B == {buf[i] : i \in 1 .. Len(buf)}
<1>2. {fifo'[i] : i \in 1 .. Len(fifo')} = F \union {buf[1]}
  <2>1. Len(fifo') = Len(fifo) + 1 /\ fifo'[Len(fifo) + 1] = buf[1] /\ Len(fifo) \in Nat
    BY <1>1
  <2>2. \A i \in 1 .. Len(fifo) : fifo'[i] = fifo[i]
    BY <1>1
  <2>3. 1 .. Len(fifo') = (1 .. Len(fifo)) \union {Len(fifo) + 1}
    BY <2>1
  <2> QED
    BY <2>1, <2>2, <2>3
<1>3. {buf'[i] : i \in 1 .. Len(buf')} \union {buf[1]} = B
  <2>1. Len(buf') = Len(buf) - 1
    BY <1>1
  <2>2. \A i \in 1 .. Len(buf') : buf'[i] = buf[i + 1] /\ i + 1 \in 1 .. Len(buf)
    BY <1>1, <2>1
  <2>3. \A i \in 1 .. Len(buf) : i = 1 \/ (i - 1 \in 1 .. Len(buf') /\ buf'[i - 1] = buf[i])
    BY <1>1, <2>1, <2>2
  <2>4. 1 \in 1 .. Len(buf)
    BY <1>1
  <2> QED
    BY <2>2, <2>3, <2>4
<1>4. Queue' = Queue
  <2> HIDE DEF F, B
  <2>1. Queue = F \union B
    BY DEF Queue, F, B
  <2> QED
    BY <1>2, <1>3, <2>1 DEF Queue
<1> QED
  BY <1>1, <1>4 DEF Stream!vars

\* OwnTone reading the head of the FIFO hears the oldest block on its way.
LEMMA ReadIsHear ==
    ASSUME IInv, ReaderRead
    PROVE  Stream!Hear
<1>1. /\ fifo \in Seq(Nat) /\ fifo # <<>> /\ Len(fifo) \in Nat \ {0} /\ buf \in Seq(Nat)
      /\ captured \in Nat /\ lastRead \in Nat /\ Len(buf) \in Nat
      /\ fifo' = Tail(fifo) /\ lastRead' = fifo[1]
      /\ buf' = buf /\ captured' = captured
  BY DEF IInv, TypeOK, ReaderRead, relayVars
<1> DEFINE F == {fifo[i] : i \in 1 .. Len(fifo)}
           B == {buf[i] : i \in 1 .. Len(buf)}
           G == {fifo'[i] : i \in 1 .. Len(fifo')}
<1>2. /\ Len(fifo') = Len(fifo) - 1
      /\ \A i \in 1 .. Len(fifo') : fifo'[i] = fifo[i + 1] /\ i + 1 \in 2 .. Len(fifo)
  BY <1>1
<1>3. \A i \in 2 .. Len(fifo) : fifo[1] < fifo[i]
  <2>1. \A i, j \in 1 .. Len(fifo) : i < j => fifo[i] < fifo[j]
    BY DEF IInv, FifoOrdered
  <2>2. \A i \in 2 .. Len(fifo) : 1 \in 1 .. Len(fifo) /\ i \in 1 .. Len(fifo) /\ 1 < i
    BY <1>1
  <2> QED
    BY <2>1, <2>2
<1>4. \A i \in 1 .. Len(buf) : fifo[1] < buf[i]
  <2>1. 1 \in 1 .. Len(fifo) /\ fifo[1] \in Nat
    BY <1>1
  <2>2. fifo[1] <= captured - Len(buf)
    BY <2>1 DEF IInv, FifoOrdered
  <2> SUFFICES ASSUME NEW i \in 1 .. Len(buf) PROVE fifo[1] < buf[i]
    OBVIOUS
  <2>3. buf[i] = captured - Len(buf) + i
    BY DEF IInv, BacklogIsNewest
  <2> QED
    BY <1>1, <2>1, <2>2, <2>3
<1>5. fifo[1] > lastRead /\ fifo[1] \in Nat /\ 1 \in 1 .. Len(fifo)
  <2>1. 1 \in 1 .. Len(fifo) /\ fifo[1] \in Nat
    BY <1>1
  <2> QED
    BY <1>1, <2>1 DEF IInv, FifoOrdered
<1>6. fifo[1] \in Queue
  BY <1>5 DEF Queue
<1>7. \A other \in Queue : fifo[1] <= other
  <2>1. \A i \in 1 .. Len(fifo) : fifo[1] <= fifo[i]
    <3> SUFFICES ASSUME NEW i \in 1 .. Len(fifo) PROVE fifo[1] <= fifo[i]
      OBVIOUS
    <3>1. CASE i = 1
      BY <3>1, <1>5
    <3>2. CASE i # 1
      <4>1. i \in 2 .. Len(fifo) /\ fifo[i] \in Nat
        BY <3>2, <1>1
      <4> QED
        BY <4>1, <1>3, <1>5
    <3> QED
      BY <3>1, <3>2
  <2>2. \A i \in 1 .. Len(buf) : fifo[1] <= buf[i]
    <3> SUFFICES ASSUME NEW i \in 1 .. Len(buf) PROVE fifo[1] <= buf[i]
      OBVIOUS
    <3>1. buf[i] \in Nat
      BY <1>1
    <3> QED
      BY <3>1, <1>4, <1>5
  <2> QED
    BY <2>1, <2>2 DEF Queue
<1>8. G = F \ {fifo[1]}
  <2>1. \A i \in 2 .. Len(fifo) : fifo[i] # fifo[1]
    <3> SUFFICES ASSUME NEW i \in 2 .. Len(fifo) PROVE fifo[i] # fifo[1]
      OBVIOUS
    <3>1. fifo[i] \in Nat
      BY <1>1
    <3> QED
      BY <3>1, <1>3, <1>5
  <2>2. \A i \in 2 .. Len(fifo) : i - 1 \in 1 .. Len(fifo') /\ fifo'[i - 1] = fifo[i]
    BY <1>1, <1>2
  <2>3. G \subseteq F \ {fifo[1]}
    <3> SUFFICES ASSUME NEW i \in 1 .. Len(fifo') PROVE fifo'[i] \in F \ {fifo[1]}
      OBVIOUS
    <3>1. fifo'[i] = fifo[i + 1] /\ i + 1 \in 2 .. Len(fifo) /\ i + 1 \in 1 .. Len(fifo)
      BY <1>1, <1>2
    <3> QED
      BY <3>1, <2>1
  <2>4. F \ {fifo[1]} \subseteq G
    <3> SUFFICES ASSUME NEW i \in 1 .. Len(fifo), fifo[i] # fifo[1] PROVE fifo[i] \in G
      OBVIOUS
    <3>1. i \in 2 .. Len(fifo)
      BY <1>1
    <3> QED
      BY <3>1, <2>2
  <2> QED
    BY <2>3, <2>4
<1>9. \A x \in B : x # fifo[1]
  <2> SUFFICES ASSUME NEW i \in 1 .. Len(buf) PROVE buf[i] # fifo[1]
    OBVIOUS
  <2>1. buf[i] \in Nat
    BY <1>1
  <2> QED
    BY <2>1, <1>4, <1>5
<1>10. Queue' = Queue \ {fifo[1]}
  <2>1. Queue = F \union B /\ Queue' = G \union B
    BY <1>1 DEF Queue
  <2> HIDE DEF F, B, G
  <2> QED
    BY <2>1, <1>8, <1>9
<1> QED
  <2> HIDE DEF F, B, G
  <2> SUFFICES \E block \in Queue :
        /\ \A other \in Queue : block <= other
        /\ block > lastRead
        /\ lastRead' = block
        /\ Queue' = Queue \ {block}
        /\ UNCHANGED captured
    BY DEF Stream!Hear
  <2> WITNESS fifo[1] \in Queue
  <2> QED
    BY <1>1, <1>5, <1>7, <1>10

\* Every step is a step of the lossy stream or a stutter.
LEMMA NextRefines == IInv /\ [Next]_vars => [Stream!Next]_(Stream!vars)
<1> SUFFICES ASSUME IInv, [Next]_vars PROVE [Stream!Next]_(Stream!vars)
  OBVIOUS
<1>1. CASE UNCHANGED <<captured, buf, fifo, lastRead>>
  BY <1>1 DEF Stream!vars, Queue
<1>2. CASE AppendBlock
  BY <1>2, AppendIsCapture DEF Stream!Next
<1>3. CASE WriteBlock
  BY <1>3, WriteIsStutter
<1>4. CASE ReaderRead
  BY <1>4, ReadIsHear DEF Stream!Next
<1>5. CASE OpenNoReader \/ FifoClosed
  <2>1. buf' = <<>> /\ (fifo' = fifo \/ fifo' = <<>>) /\ UNCHANGED <<captured, lastRead>>
    BY <1>5 DEF OpenNoReader, FifoClosed, Kept, envVars
  <2> QED
    BY <2>1, LosingIsLose DEF Stream!Next
<1>6. CASE Stopped \/ EndOfCapture \/ Crash
  <2>1. buf' = <<>> /\ (fifo' = fifo \/ fifo' = <<>>) /\ UNCHANGED <<captured, lastRead>>
    BY <1>6 DEF Stopped, EndOfCapture, Crash, Leave, Kept
  <2> QED
    BY <2>1, LosingIsLose DEF Stream!Next
<1>7. CASE ReaderClose
  <2>1. fifo' = fifo \/ fifo' = <<>>
    BY <1>7 DEF ReaderClose, Kept
  <2>2. UNCHANGED <<captured, buf, lastRead>>
    BY <1>7 DEF ReaderClose, relayVars
  <2>3. {fifo'[i] : i \in 1 .. Len(fifo')} \subseteq {fifo[i] : i \in 1 .. Len(fifo)}
    BY <2>1, NoBlocks
  <2>4. Stream!Lose
    BY <2>2, <2>3 DEF Stream!Lose, Queue
  <2> QED
    BY <2>4 DEF Stream!Next
<1>8. CASE UNCHANGED vars
  BY <1>8, <1>1 DEF vars, relayVars, envVars
<1>9. CASE Register \/ Select \/ ReadSource \/ EndAppend \/ FifoEvent \/ FlushDone \/ OpenFifo
           \/ FifoFull
  <2>1. UNCHANGED <<captured, buf, fifo, lastRead>>
    BY <1>9 DEF Register, Select, ReadSource, EndAppend, FifoEvent, FlushDone, OpenFifo,
                FifoFull, envVars
  <2> QED
    BY <2>1, <1>1
<1>10. CASE StopSignal \/ Restart \/ ParecWrite \/ ParecEnd \/ ReaderOpen
  <2>1. UNCHANGED <<captured, buf, fifo, lastRead>>
    BY <1>10 DEF StopSignal, Restart, ParecWrite, ParecEnd, ReaderOpen, relayVars, envVars
  <2> QED
    BY <2>1, <1>1
<1> QED
  BY <1>2, <1>3, <1>4, <1>5, <1>6, <1>7, <1>8, <1>9, <1>10 DEF Next, Relay, Environment

\* The relay implements the lossy stream: blocks may be lost, never reordered,
\* repeated or invented, and an overrun never loses the newest block.
THEOREM Refinement == Spec => RefinesStream
<1>1. Init => Stream!Init
  <2> SUFFICES ASSUME Init PROVE Stream!Init
    OBVIOUS
  <2>1. Queue = {}
    BY NoBlocks DEF Init, Queue
  <2> QED
    BY <2>1 DEF Init, Stream!Init
<1>2. IInv /\ [Next]_vars => [Stream!Next]_(Stream!vars)
  BY NextRefines
<1> QED
  BY <1>1, <1>2, Invariance, PTL DEF Spec, Stream!Spec, RefinesStream
=============================================================================
