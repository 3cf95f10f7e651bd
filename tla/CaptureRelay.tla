---------------------------- MODULE CaptureRelay ----------------------------
(***************************************************************************)
(* The capture container's relay (capture_relay.py): it drains parec's      *)
(* stdout into blocks of BLOCK_SIZE bytes and writes them, never blocking,  *)
(* to the FIFO OwnTone plays from.  The userspace backlog (PCMBuffer) is    *)
(* bounded: when it is full it is emptied and restarts at the newest block. *)
(*                                                                         *)
(* Blocks are numbered in capture order; their bytes are left out.  A block *)
(* is FRAGMENTS pieces of parec output, so a read may end inside a block    *)
(* (the bytearray `pending`).  The environment is parec, the kernel FIFO    *)
(* and OwnTone's reading end, which may stall, close and reopen at any      *)
(* point.  The overrun count only feeds a throttled log line: left out.     *)
(***************************************************************************)
EXTENDS Integers, Sequences

CONSTANTS
    MAX_BLOCKS,        \* MAX_BUFFER_BYTES / BLOCK_SIZE: the userspace backlog
    FIFO_BLOCKS,       \* capacity of the kernel FIFO
    FRAGMENTS,         \* parec pieces per block
    READ_FRAGMENTS,    \* the most one os.read(.., 65536) returns
    SOURCE_FRAGMENTS,  \* capacity of parec's stdout pipe
    MaxBlocks          \* bound: parec emits no more blocks than this

ASSUME RelayAssumption ==
    /\ MAX_BLOCKS \in Nat \ {0}
    /\ FIFO_BLOCKS \in Nat \ {0}
    /\ FRAGMENTS \in Nat \ {0}
    /\ READ_FRAGMENTS \in Nat \ {0}
    /\ SOURCE_FRAGMENTS \in Nat \ {0}
    /\ MaxBlocks \in Nat

VARIABLES
    pc,          \* where the relay's loop stands
    stopping,    \* the flag its signal handler sets
    pending,     \* bytes of an incomplete block, in fragments
    captured,    \* blocks completed so far: the newest block's number
    buf,         \* PCMBuffer.blocks
    fd,          \* is fifo_fd open?
    registered,  \* writer_registered
    ready,       \* events of the last select still to be handled
    parec,       \* "running" or "ended"
    source,      \* fragments in parec's stdout pipe
    reader,      \* does OwnTone hold the FIFO open?
    fifo,        \* blocks in the kernel FIFO
    lastRead     \* history: the last block OwnTone read

relayVars == <<pc, stopping, pending, captured, buf, fd, registered, ready>>
envVars   == <<parec, source, reader, fifo, lastRead>>
vars      == <<relayVars, envVars>>

Keys == {"stdout", "fifo"}

PCs == {"loop", "select", "handle", "append", "flush", "exited"}

TypeOK ==
    /\ pc \in PCs
    /\ stopping \in BOOLEAN
    /\ pending \in Nat
    /\ captured \in Nat
    /\ buf \in Seq(Nat)
    /\ fd \in BOOLEAN
    /\ registered \in BOOLEAN
    /\ ready \in SUBSET Keys
    /\ parec \in {"running", "ended"}
    /\ source \in 0 .. SOURCE_FRAGMENTS
    /\ reader \in BOOLEAN
    /\ fifo \in Seq(Nat)
    /\ lastRead \in Nat

Init ==
    /\ pc = "loop"
    /\ stopping = FALSE
    /\ pending = 0
    /\ captured = 0
    /\ buf = <<>>
    /\ fd = FALSE
    /\ registered = FALSE
    /\ ready = {}
    /\ parec = "running"
    /\ source = 0
    /\ reader \in BOOLEAN
    /\ fifo = <<>>
    /\ lastRead = 0

-----------------------------------------------------------------------------
(* Faults: wrong versions of definitions below, each refuting a property. *)

\* A full backlog refuses the new block.
AppendedKeepsOldest(block) ==
    IF Len(buf) + 1 > MAX_BLOCKS THEN buf ELSE Append(buf, block)

\* Any pending bytes are taken for a block.
AppendBlockUnaligned ==
    /\ pc = "append"
    /\ pending > 0
    /\ pending' = pending - FRAGMENTS
    /\ captured' = captured + 1
    /\ buf' = Append(buf, captured + 1)
    /\ UNCHANGED <<pc, stopping, fd, registered, ready, envVars>>

\* The FIFO is never watched for room.
RegisterNever ==
    /\ pc = "loop"
    /\ ~stopping
    /\ registered' = FALSE
    /\ pc' = "select"
    /\ UNCHANGED <<stopping, pending, captured, buf, fd, ready, envVars>>

\* The writer stays registered while flush_fifo may close its descriptor.
FifoEventStaysRegistered ==
    /\ pc = "handle"
    /\ "fifo" \in ready
    /\ ready' = ready \ {"fifo"}
    /\ pc' = "flush"
    /\ UNCHANGED <<stopping, pending, captured, buf, fd, registered, envVars>>

\* A block stays in the backlog after it was written.
WriteBlockNoPop ==
    /\ pc = "flush"
    /\ buf # <<>>
    /\ fd
    /\ reader
    /\ Len(fifo) < FIFO_BLOCKS
    /\ fifo' = Append(fifo, Head(buf))
    /\ UNCHANGED <<pc, stopping, pending, captured, buf, fd, registered, ready,
                   parec, source, reader, lastRead>>

\* A full FIFO blocks the writer, and with it the loop.
FifoFullBlocks ==
    /\ pc = "flush"
    /\ buf # <<>>
    /\ fd
    /\ reader
    /\ Len(fifo) >= FIFO_BLOCKS
    /\ UNCHANGED vars

-----------------------------------------------------------------------------
(* PCMBuffer *)

\* PCMBuffer.append: a full backlog is dropped as a whole, never its tail.
Appended(block) ==
    IF Len(buf) + 1 > MAX_BLOCKS THEN <<block>> ELSE Append(buf, block)

\* What is left in the FIFO once one of its two ends is closed: the kernel
\* keeps the data as long as the other end is open.
Kept(otherEnd) == IF otherEnd THEN fifo ELSE <<>>

\* The `for key, _mask in selector.select(..)` loop goes on, or ends.
NextEvent(left) == IF left = {} THEN "loop" ELSE "handle"

-----------------------------------------------------------------------------
(* run() *)

\* Top of the loop: watch the FIFO for room exactly while there is a backlog.
Register ==
    /\ pc = "loop"
    /\ ~stopping
    /\ registered' = (fd /\ buf # <<>>)
    /\ pc' = "select"
    /\ UNCHANGED <<stopping, pending, captured, buf, fd, ready, envVars>>

\* What select() would report now.  A FIFO without reader is an error event,
\* which the selectors module reports as writable.
Ready ==
    {k \in Keys :
        \/ k = "stdout" /\ (source > 0 \/ parec = "ended")
        \/ k = "fifo" /\ registered /\ (~reader \/ Len(fifo) < FIFO_BLOCKS)}

\* With nothing ready the select times out after a second.
Select ==
    /\ pc = "select"
    /\ ready' = Ready
    /\ pc' = NextEvent(Ready)
    /\ UNCHANGED <<stopping, pending, captured, buf, fd, registered, envVars>>

ReadSource ==
    /\ pc = "handle"
    /\ "stdout" \in ready
    /\ source > 0
    /\ \E n \in 1 .. source :
        /\ n <= READ_FRAGMENTS
        /\ source' = source - n
        /\ pending' = pending + n
    /\ ready' = ready \ {"stdout"}
    /\ pc' = "append"
    /\ UNCHANGED <<stopping, captured, buf, fd, registered, parec, reader, fifo, lastRead>>

AppendBlock ==
    /\ pc = "append"
    /\ pending >= FRAGMENTS
    /\ pending' = pending - FRAGMENTS
    /\ captured' = captured + 1
    /\ buf' = Appended(captured + 1)
    /\ UNCHANGED <<pc, stopping, fd, registered, ready, envVars>>

\* The writer is unregistered before flush_fifo, which may close its fd.
EndAppend ==
    /\ pc = "append"
    /\ pending < FRAGMENTS
    /\ registered' = FALSE
    /\ pc' = "flush"
    /\ UNCHANGED <<stopping, pending, captured, buf, fd, ready, envVars>>

FifoEvent ==
    /\ pc = "handle"
    /\ "fifo" \in ready
    /\ ready' = ready \ {"fifo"}
    /\ registered' = FALSE
    /\ pc' = "flush"
    /\ UNCHANGED <<stopping, pending, captured, buf, fd, envVars>>

(* flush_fifo() *)

FlushDone ==
    /\ pc = "flush"
    /\ buf = <<>>
    /\ pc' = NextEvent(ready)
    /\ UNCHANGED <<stopping, pending, captured, buf, fd, registered, ready, envVars>>

OpenFifo ==
    /\ pc = "flush"
    /\ buf # <<>>
    /\ ~fd
    /\ reader
    /\ fd' = TRUE
    /\ UNCHANGED <<pc, stopping, pending, captured, buf, registered, ready, envVars>>

\* ENXIO: OwnTone does not hold the FIFO open.
OpenNoReader ==
    /\ pc = "flush"
    /\ buf # <<>>
    /\ ~fd
    /\ ~reader
    /\ buf' = <<>>
    /\ pc' = NextEvent(ready)
    /\ UNCHANGED <<stopping, pending, captured, fd, registered, ready, envVars>>

WriteBlock ==
    /\ pc = "flush"
    /\ buf # <<>>
    /\ fd
    /\ reader
    /\ Len(fifo) < FIFO_BLOCKS
    /\ fifo' = Append(fifo, Head(buf))
    /\ buf' = Tail(buf)
    /\ UNCHANGED <<pc, stopping, pending, captured, fd, registered, ready,
                   parec, source, reader, lastRead>>

\* EAGAIN: the backlog stays.
FifoFull ==
    /\ pc = "flush"
    /\ buf # <<>>
    /\ fd
    /\ reader
    /\ Len(fifo) >= FIFO_BLOCKS
    /\ pc' = NextEvent(ready)
    /\ UNCHANGED <<stopping, pending, captured, buf, fd, registered, ready, envVars>>

\* EPIPE: OwnTone closed the FIFO; its backlog is of no use to the next reader.
FifoClosed ==
    /\ pc = "flush"
    /\ buf # <<>>
    /\ fd
    /\ ~reader
    /\ fd' = FALSE
    /\ fifo' = Kept(reader)
    /\ buf' = <<>>
    /\ pc' = NextEvent(ready)
    /\ UNCHANGED <<stopping, pending, captured, registered, ready,
                   parec, source, reader, lastRead>>

\* The `finally` of run(), a return, an exception or a kill: the process is gone.
Leave ==
    /\ pc' = "exited"
    /\ pending' = 0
    /\ buf' = <<>>
    /\ fd' = FALSE
    /\ fifo' = Kept(reader)
    /\ registered' = FALSE
    /\ ready' = {}
    /\ parec' = "ended"
    /\ source' = 0
    /\ UNCHANGED <<stopping, captured, reader, lastRead>>

\* The stop flag is seen at the top of the loop ...
Stopped == pc = "loop" /\ stopping /\ Leave

\* ... and parec's end of file wherever its event is handled.
EndOfCapture ==
    /\ pc = "handle"
    /\ "stdout" \in ready
    /\ source = 0
    /\ Leave

Relay ==
    \/ Register \/ Select \/ ReadSource \/ AppendBlock \/ EndAppend \/ FifoEvent
    \/ FlushDone \/ OpenFifo \/ OpenNoReader \/ WriteBlock \/ FifoFull \/ FifoClosed
    \/ Stopped \/ EndOfCapture

-----------------------------------------------------------------------------
(* Environment *)

\* SIGTERM or SIGINT: the handler sets the flag and terminates parec.
StopSignal ==
    /\ pc # "exited"
    /\ stopping' = TRUE
    /\ UNCHANGED <<pc, pending, captured, buf, fd, registered, ready, envVars>>

Crash == pc # "exited" /\ Leave

\* The container's restart policy, or the supervisor, starts it again.
Restart ==
    /\ pc = "exited"
    /\ pc' = "loop"
    /\ stopping' = FALSE
    /\ parec' = "running"
    /\ UNCHANGED <<pending, captured, buf, fd, registered, ready,
                   source, reader, fifo, lastRead>>

ParecWrite ==
    /\ parec = "running"
    /\ source < SOURCE_FRAGMENTS
    /\ captured * FRAGMENTS + pending + source < MaxBlocks * FRAGMENTS
    /\ source' = source + 1
    /\ UNCHANGED <<relayVars, parec, reader, fifo, lastRead>>

ParecEnd ==
    /\ parec = "running"
    /\ parec' = "ended"
    /\ UNCHANGED <<relayVars, source, reader, fifo, lastRead>>

ReaderOpen ==
    /\ ~reader
    /\ reader' = TRUE
    /\ UNCHANGED <<relayVars, parec, source, fifo, lastRead>>

ReaderClose ==
    /\ reader
    /\ reader' = FALSE
    /\ fifo' = Kept(fd)
    /\ UNCHANGED <<relayVars, parec, source, lastRead>>

ReaderRead ==
    /\ reader
    /\ fifo # <<>>
    /\ lastRead' = Head(fifo)
    /\ fifo' = Tail(fifo)
    /\ UNCHANGED <<relayVars, parec, source, reader>>

Environment ==
    \/ StopSignal \/ Crash \/ Restart
    \/ ParecWrite \/ ParecEnd \/ ReaderOpen \/ ReaderClose \/ ReaderRead

Next == Relay \/ Environment

Spec == Init /\ [][Next]_vars

\* The operating system runs the relay; nothing is promised of parec or OwnTone.
FairSpec == Spec /\ WF_vars(Relay)

-----------------------------------------------------------------------------
(* Properties *)

Increasing(s) == \A i \in 1 .. Len(s) - 1 : s[i] < s[i + 1]

\* README "It drops old buffered PCM on a prolonged stall": whatever a stalled,
\* closed or reopened reader did, the backlog is the newest run of captured
\* blocks, without a gap and never longer than its bound (PCMBuffer.append).
BacklogIsNewest ==
    /\ Len(buf) <= MAX_BLOCKS
    /\ \A i \in 1 .. Len(buf) : buf[i] = captured - Len(buf) + i

\* OwnTone never hears a block twice or out of order, over overruns, reader
\* restarts and relay restarts: everything queued is newer than what it read.
NoReplay ==
    /\ Increasing(fifo \o buf)
    /\ \A i \in 1 .. Len(fifo \o buf) : (fifo \o buf)[i] > lastRead

\* The selector never holds a descriptor flush_fifo has closed: run() would
\* raise on the next unregister and end the capture.
RegisteredIsOpen == registered => fd

\* README "... or backpressure the source indefinitely": a full parec pipe is
\* drained whatever OwnTone does; PulseAudio never has to abort the recorder.
CaptureNeverStalls == (source = SOURCE_FRAGMENTS) ~> (source < SOURCE_FRAGMENTS)

\* The backlog reaches OwnTone even if parec falls silent: select() wakes up
\* for the FIFO alone, as long as OwnTone goes on reading what it can.
BacklogDrains == SF_vars(ReaderRead) => ((buf # <<>>) ~> (buf = <<>>))

\* The blocks on their way to OwnTone.
Queue == {fifo[i] : i \in 1 .. Len(fifo)} \union {buf[i] : i \in 1 .. Len(buf)}

Stream == INSTANCE LossyStream WITH sent <- captured, queue <- Queue, heard <- lastRead

\* The relay, with every restart, stall and overrun of its buffers, implements a
\* stream that may lose blocks but never reorders, repeats or invents one.
RefinesStream == Stream!Spec
=============================================================================
