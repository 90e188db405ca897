----------------------------- MODULE PcapCapture -----------------------------
(***************************************************************************)
(* PcapIO: an adapter that passes reads and writes through and sends a     *)
(* copy of each to a task that writes them to a capture file.  The reading *)
(* and the writing half may be used by different tasks, under a lock.      *)
(***************************************************************************)
EXTENDS Naturals, Sequences

CONSTANTS
    CaptureRoom,    \* of the channel to the writer task
    MaxPackets      \* bound on the packets that pass

ASSUME CaptureAssumption == CaptureRoom \in Nat \ {0} /\ MaxPackets \in Nat

VARIABLES
    writeClosed, readClosed,
    channel,        \* "open", "closed" (close_channel) or "gone" (the sender was dropped)
    packets,        \* copies in the channel
    passed,         \* packets numbered as they pass
    kept,           \* the copies the channel took
    capturing,      \* the writer task: "create", "receive", "write", "end" or "failed"
    inHand,         \* the packet given to spawn_blocking
    file, unwritten \* what is in the file, what write_pcapng_block failed for

captureVars == <<writeClosed, readClosed, channel, packets, passed, kept, capturing, inHand, file,
                 unwritten>>
taskVars == <<capturing, inHand, file, unwritten>>

CaptureInit ==
    /\ writeClosed = FALSE /\ readClosed = FALSE
    /\ channel = "open" /\ packets = <<>> /\ passed = 0 /\ kept = <<>>
    /\ capturing = "create" /\ inHand = 0 /\ file = <<>> /\ unwritten = {}

\* try_send: a full or closed channel drops the copy.
TrySend ==
    /\ passed < MaxPackets /\ passed' = passed + 1
    /\ IF channel = "open" /\ Len(packets) < CaptureRoom /\ capturing \notin {"end", "failed"}
       THEN packets' = Append(packets, passed') /\ kept' = Append(kept, passed')
       ELSE UNCHANGED <<packets, kept>>

\* poll_write copies the buffer and then polls the inner object, whatever that answers.
CaptureWrite ==
    /\ channel # "gone" /\ TrySend
    /\ UNCHANGED <<writeClosed, readClosed, channel, taskVars>>

\* close_channel once both directions are over.
CloseIf(other) == channel' = IF other THEN "closed" ELSE channel

PollClose ==
    /\ channel # "gone"
    /\ writeClosed' = TRUE /\ CloseIf(readClosed)
    /\ UNCHANGED <<readClosed, packets, passed, kept, taskVars>>

\* A read that returned data; a read that returned none is taken for the end.
CaptureRead ==
    /\ channel # "gone" /\ TrySend
    /\ UNCHANGED <<writeClosed, readClosed, channel, taskVars>>

\* Mutant: only poll_close looks whether the other direction is over.
ReadEndUnseen ==
    /\ channel # "gone"
    /\ readClosed' = TRUE
    /\ UNCHANGED <<writeClosed, channel, packets, passed, kept, taskVars>>

ReadEnd ==
    /\ channel # "gone"
    /\ readClosed' = TRUE /\ CloseIf(writeClosed)
    /\ UNCHANGED <<writeClosed, packets, passed, kept, taskVars>>

DropCapture ==
    /\ channel' = "gone"
    /\ UNCHANGED <<writeClosed, readClosed, packets, passed, kept, taskVars>>

\* The writer task.
CreateFile ==
    /\ capturing = "create" /\ capturing' \in {"receive", "failed"}
    /\ UNCHANGED <<writeClosed, readClosed, channel, packets, passed, kept, inHand, file, unwritten>>

NextPacket ==
    /\ capturing = "receive"
    /\ \/ /\ packets # <<>> /\ capturing' = "write"
          /\ inHand' = Head(packets) /\ packets' = Tail(packets)
       \/ /\ packets = <<>> /\ channel # "open" /\ capturing' = "end"
          /\ UNCHANGED <<inHand, packets>>
    /\ UNCHANGED <<writeClosed, readClosed, channel, passed, kept, file, unwritten>>

\* The block is written, or its error dropped; only a panic of the closure ends the task.
WriteBlock ==
    /\ capturing = "write" /\ inHand' = 0
    /\ \/ capturing' = "receive" /\ file' = Append(file, inHand) /\ UNCHANGED unwritten
       \/ capturing' = "receive" /\ unwritten' = unwritten \cup {inHand} /\ UNCHANGED file
       \/ capturing' = "failed" /\ UNCHANGED <<file, unwritten>>
    /\ UNCHANGED <<writeClosed, readClosed, channel, packets, passed, kept>>

CaptureTask == CreateFile \/ NextPacket \/ WriteBlock
CaptureNext ==
    \/ CaptureWrite \/ PollClose \/ CaptureRead \/ ReadEnd \/ DropCapture \/ CaptureTask
-----------------------------------------------------------------------------
\* Whichever direction ends first, the end of both ends the writer task, like a drop of the
\* adapter, and every copy the channel took is then in the file, in order, but for those that
\* could not be written; unless the file could not be created or the task's closure panicked.
CaptureCompletes ==
    ((writeClosed /\ readClosed) \/ channel = "gone")
        ~> \/ capturing = "failed"
           \/ capturing = "end" /\ file = SelectSeq(kept, LAMBDA p : p \notin unwritten)
=============================================================================
