----------------------------- MODULE CopyDuplex -----------------------------
(***************************************************************************)
(* copy_duplex_abortable_with_datagram: one task copies between two ends,  *)
(* a and b, in both directions.  Direction "ab" reads a and writes b.      *)
(*                                                                         *)
(* A poll is cut at every call it makes to a reader or a writer, so the    *)
(* peers at both ends act between any two of them.  A byte is its position *)
(* in what the peer sends; Message tells which message it belongs to.      *)
(***************************************************************************)
EXTENDS Naturals, Sequences, SequencesExt, FiniteSets

CONSTANTS
    Message,    \* for each direction, the message each byte belongs to
    BufSize,    \* of the copy buffer of each direction
    Apis,       \* the functions of utils.rs through which a transfer is started
    MaxStalls   \* how often the writer of each direction may push back

Directions == {"ab", "ba"}
Other(d) == IF d = "ab" THEN "ba" ELSE "ab"

ASSUME DuplexAssumption ==
    /\ \A d \in Directions : Message[d] \in Seq(Nat)
    /\ BufSize \in Nat \ {0}
    /\ Apis \subseteq {"copy_duplex", "copy_duplex_abortable", "transfer_session", "transfer_session_datagram"}
    /\ MaxStalls \in [Directions -> Nat]

VARIABLES
    api,       \* the function that was called
    \* The ends: bytes sent to the reader, bytes read from it, its end of file; the
    \* writer's stalls, what it accepted and at which lengths of that it completed a flush.
    sent, taken, eof, stalled, stalls, out, flushes,
    aborted,   \* the abort handle of the side a direction reads from
    \* TransferState and CopyBuffer.
    state, readDone, needFlush, pos, buf, amt,
    how,       \* why a direction left Running: "eof", "abort" or "cross"
    \* The poll: the block of the closure, the call inside a direction, the two
    \* results, and the wakers.
    stage, sub, result, woken, readWaker, writeWaker

peerVars == <<sent, eof, aborted>>
writerVars == <<stalled, stalls, out, flushes>>
bufVars == <<readDone, needFlush, pos, buf, amt, taken>>
wakers == <<readWaker, writeWaker>>
vars == <<api, peerVars, writerVars, bufVars, state, how, stage, sub, result,
          woken, wakers>>

\* The flag for which transfer_session_inner and copy_duplex_abortable call
\* copy_duplex_abortable_with_datagram.
datagram == api = "transfer_session_datagram"

\* The directions whose abort handle somebody keeps: copy_duplex drops both, and of a
\* session only the stream side can be aborted.
Abortable ==
    CASE api = "copy_duplex" -> {}
      [] api = "copy_duplex_abortable" -> Directions
      [] OTHER -> {"ba"}

Init ==
    /\ api \in Apis
    /\ sent = [d \in Directions |-> 0] /\ taken = [d \in Directions |-> 0]
    /\ eof = [d \in Directions |-> FALSE]
    /\ aborted = [d \in Directions |-> FALSE]
    /\ stalled = [d \in Directions |-> FALSE]
    /\ stalls = [d \in Directions |-> 0]
    /\ out = [d \in Directions |-> <<>>]
    /\ flushes = [d \in Directions |-> {0}]
    /\ state = [d \in Directions |-> "Running"]
    /\ readDone = [d \in Directions |-> FALSE]
    /\ needFlush = [d \in Directions |-> FALSE]
    /\ pos = [d \in Directions |-> 0]
    /\ buf = [d \in Directions |-> <<>>]
    /\ amt = [d \in Directions |-> 0]
    /\ how = [d \in Directions |-> "none"]
    /\ stage = "parked" /\ sub = "none" /\ woken = TRUE
    /\ result = [d \in Directions |-> "pending"]
    /\ readWaker = [d \in Directions |-> FALSE]
    /\ writeWaker = [d \in Directions |-> FALSE]
-----------------------------------------------------------------------------
(* The peers and the holders of the abort handles. *)

Sendable(d) == {n \in sent[d] + 1 .. Len(Message[d]) :
                    n = Len(Message[d]) \/ Message[d][n] # Message[d][n + 1]}

WakeReader(d) ==
    /\ woken' = (woken \/ readWaker[d])
    /\ readWaker' = [readWaker EXCEPT ![d] = FALSE]

\* A whole message arrives.
Arrive(d) ==
    /\ ~eof[d] /\ Sendable(d) # {}
    /\ sent' = [sent EXCEPT ![d] = CHOOSE n \in Sendable(d) : \A m \in Sendable(d) : n <= m]
    /\ WakeReader(d)
    /\ UNCHANGED <<api, eof, aborted, writerVars, bufVars, state, how, stage, sub,
                   result, writeWaker>>

Close(d) ==
    /\ ~eof[d] /\ eof' = [eof EXCEPT ![d] = TRUE]
    /\ WakeReader(d)
    /\ UNCHANGED <<api, sent, aborted, writerVars, bufVars, state, how, stage, sub,
                   result, writeWaker>>

Stall(d) ==
    /\ ~stalled[d] /\ stalls[d] < MaxStalls[d]
    /\ stalled' = [stalled EXCEPT ![d] = TRUE]
    /\ stalls' = [stalls EXCEPT ![d] = @ + 1]
    /\ UNCHANGED <<api, peerVars, out, flushes, bufVars, state, how, stage, sub,
                   result, woken, wakers>>

Unstall(d) ==
    /\ stalled[d] /\ stalled' = [stalled EXCEPT ![d] = FALSE]
    /\ woken' = (woken \/ writeWaker[d])
    /\ writeWaker' = [writeWaker EXCEPT ![d] = FALSE]
    /\ UNCHANGED <<api, peerVars, stalls, out, flushes, bufVars, state, how, stage,
                   sub, result, readWaker>>

\* AbortHandle::abort wakes the task: every poll registers with both handles.
Abort(d) ==
    /\ d \in Abortable /\ ~aborted[d] /\ aborted' = [aborted EXCEPT ![d] = TRUE]
    /\ woken' = TRUE
    /\ UNCHANGED <<api, sent, eof, writerVars, bufVars, state, how, stage, sub,
                   result, wakers>>
-----------------------------------------------------------------------------
(* The closure: ab, ba, the two aborts, the two cross-terminations, the result. *)

Order == <<"ab", "ba", "abort ab", "abort ba", "cross ab", "cross ba", "result">>
Following(s) == Order[1 + CHOOSE i \in 1..6 : Order[i] = s]

AbortStage(d) == IF d = "ab" THEN "abort ab" ELSE "abort ba"
CrossStage(d) == IF d = "ab" THEN "cross ab" ELSE "cross ba"

\* The direction transferred in the current block.
Active(d) == stage \in (IF d = "ab" THEN {"ab", "cross ab"} ELSE {"ba", "cross ba"})

\* The first call of transfer_one_direction in the state a direction is in.
Entry(d) == CASE state[d] = "Running" -> "top" [] state[d] = "ShuttingDown" -> "shut"
              [] OTHER -> "ready"

\* Leave the current block; the two plain transfers start in the state they find.
Proceed(d, res) ==
    /\ stage' = Following(stage)
    /\ result' = [result EXCEPT ![d] = res]
    /\ sub' = IF stage = "ab" THEN Entry("ba") ELSE "none"

Poll ==
    /\ stage = "parked" /\ woken
    /\ stage' = "ab" /\ sub' = Entry("ab") /\ woken' = FALSE
    /\ UNCHANGED <<api, peerVars, writerVars, bufVars, state, how, result, wakers>>

\* A direction that is Done answers at once.
AlreadyDone(d) ==
    /\ Active(d) /\ sub = "ready" /\ Proceed(d, "ready")
    /\ UNCHANGED <<api, peerVars, writerVars, bufVars, state, how, woken, wakers>>

\* A writer that pushes back keeps the waker; one that does not completes.
Push(d) == stalled[d] /\ writeWaker' = [writeWaker EXCEPT ![d] = TRUE]
Flushed(d) == ~stalled[d] /\ flushes' = [flushes EXCEPT ![d] = @ \cup {Len(out[d])}]

\* Top of the loop of poll_copy.
AfterTop(d) == IF pos[d] = Len(buf[d]) /\ ~readDone[d] THEN "fill" ELSE "write"

TopFlushes(d) == datagram /\ needFlush[d]

TopSkip(d) ==
    /\ Active(d) /\ sub = "top" /\ ~TopFlushes(d)
    /\ sub' = AfterTop(d)
    /\ UNCHANGED <<api, peerVars, writerVars, bufVars, state, how, stage, result,
                   woken, wakers>>

TopFlush(d) ==
    /\ Active(d) /\ sub = "top" /\ TopFlushes(d) /\ Flushed(d)
    /\ needFlush' = [needFlush EXCEPT ![d] = FALSE]
    /\ sub' = AfterTop(d)
    /\ UNCHANGED <<api, peerVars, stalled, stalls, out, readDone, pos, buf, amt,
                   taken, state, how, stage, result, woken, wakers>>

\* A flush or a shutdown that is Pending ends the transfer of this poll.
WriterPending(d) ==
    /\ Active(d) /\ Push(d) /\ Proceed(d, "pending")
    /\ (sub = "top" /\ TopFlushes(d)) \/ sub \in {"idle flush", "eof", "shut"}
    /\ UNCHANGED <<api, peerVars, writerVars, bufVars, state, how, woken, readWaker>>

\* What one poll_read may return: in datagram mode at most one message.
Chunks(d, room) ==
    {n \in 1..room : /\ taken[d] + n <= sent[d]
                     /\ datagram => \A k \in 1..n : Message[d][taken[d] + k] = Message[d][taken[d] + 1]}

\* A datagram is read whole when it fits, a byte stream in any portion.
Portion(d, room) ==
    IF datagram THEN {n \in Chunks(d, room) : \A k \in Chunks(d, room) : k <= n}
                ELSE Chunks(d, room)
NextBytes(d, n) == [i \in 1..n |-> taken[d] + i]

AtEof(d) == eof[d] /\ taken[d] = sent[d]
NothingYet(d) == ~eof[d] /\ taken[d] = sent[d]

\* The buffer is empty: read into it from the start.
Fill(d) ==
    /\ Active(d) /\ sub = "fill"
    /\ \/ \E n \in Portion(d, BufSize) :
             /\ buf' = [buf EXCEPT ![d] = NextBytes(d, n)]
             /\ taken' = [taken EXCEPT ![d] = @ + n]
             /\ UNCHANGED readDone
       \/ /\ AtEof(d) /\ readDone' = [readDone EXCEPT ![d] = TRUE]
          /\ buf' = [buf EXCEPT ![d] = <<>>] /\ UNCHANGED taken
    /\ pos' = [pos EXCEPT ![d] = 0]
    /\ sub' = "write"
    /\ UNCHANGED <<api, peerVars, writerVars, needFlush, amt, state, how, stage,
                   result, woken, wakers>>

\* Mutant: a reader without data ends the poll although bytes are unflushed.
FillPendingUnflushed(d) ==
    /\ Active(d) /\ sub = "fill" /\ NothingYet(d)
    /\ readWaker' = [readWaker EXCEPT ![d] = TRUE]
    /\ pos' = [pos EXCEPT ![d] = 0] /\ buf' = [buf EXCEPT ![d] = <<>>]
    /\ Proceed(d, "pending")
    /\ UNCHANGED <<api, peerVars, writerVars, readDone, needFlush, amt, taken, state,
                   how, woken, writeWaker>>

\* The reader has nothing: flush what was written, then wait.
FillPending(d) ==
    /\ Active(d) /\ sub = "fill" /\ NothingYet(d)
    /\ readWaker' = [readWaker EXCEPT ![d] = TRUE]
    /\ pos' = [pos EXCEPT ![d] = 0] /\ buf' = [buf EXCEPT ![d] = <<>>]
    /\ IF needFlush[d] THEN sub' = "idle flush" /\ UNCHANGED <<stage, result>>
                       ELSE Proceed(d, "pending")
    /\ UNCHANGED <<api, peerVars, writerVars, readDone, needFlush, amt, taken, state,
                   how, woken, writeWaker>>

IdleFlush(d) ==
    /\ Active(d) /\ sub = "idle flush" /\ Flushed(d)
    /\ needFlush' = [needFlush EXCEPT ![d] = FALSE]
    /\ Proceed(d, "pending")
    /\ UNCHANGED <<api, peerVars, stalled, stalls, out, readDone, pos, buf, amt,
                   taken, state, how, woken, wakers>>

\* The writer accepts one or more of the bytes offered.
Write(d) ==
    /\ Active(d) /\ sub = "write" /\ pos[d] < Len(buf[d]) /\ ~stalled[d]
    /\ \E n \in 1 .. Len(buf[d]) - pos[d] :
          /\ out' = [out EXCEPT ![d] = @ \o SubSeq(buf[d], pos[d] + 1, pos[d] + n)]
          /\ pos' = [pos EXCEPT ![d] = @ + n]
          /\ amt' = [amt EXCEPT ![d] = @ + n]
    /\ needFlush' = [needFlush EXCEPT ![d] = TRUE]
    /\ UNCHANGED <<api, peerVars, stalled, stalls, flushes, readDone, buf, taken,
                   state, how, stage, sub, result, woken, wakers>>

\* Everything in the buffer was written.
Written(d) ==
    /\ Active(d) /\ sub = "write" /\ pos[d] = Len(buf[d])
    /\ sub' = IF readDone[d] THEN "eof" ELSE "top"
    /\ UNCHANGED <<api, peerVars, writerVars, bufVars, state, how, stage, result,
                   woken, wakers>>

\* Mutant: the buffer is topped up whatever the mode.
TopsUpAlways(d) == ~readDone[d] /\ Len(buf[d]) < BufSize
TopsUp(d) == ~datagram /\ ~readDone[d] /\ Len(buf[d]) < BufSize

WritePending(d) ==
    /\ Active(d) /\ sub = "write" /\ pos[d] < Len(buf[d]) /\ Push(d)
    /\ IF TopsUp(d) THEN sub' = "top up" /\ UNCHANGED <<stage, result>>
                    ELSE Proceed(d, "pending")
    /\ UNCHANGED <<api, peerVars, writerVars, bufVars, state, how, woken, readWaker>>

\* Mutant: the read starts at the front of the buffer (no set_filled).
TopUpOverwrites(d) ==
    /\ Active(d) /\ sub = "top up"
    /\ \/ \E n \in Portion(d, BufSize) :
             /\ buf' = [buf EXCEPT ![d] = NextBytes(d, n) \o SubSeq(@, n + 1, Len(@))]
             /\ taken' = [taken EXCEPT ![d] = @ + n]
             /\ UNCHANGED <<readDone, readWaker>>
       \/ /\ AtEof(d) /\ readDone' = [readDone EXCEPT ![d] = TRUE]
          /\ UNCHANGED <<buf, taken, readWaker>>
       \/ /\ NothingYet(d) /\ readWaker' = [readWaker EXCEPT ![d] = TRUE]
          /\ UNCHANGED <<buf, taken, readDone>>
    /\ Proceed(d, "pending")
    /\ UNCHANGED <<api, peerVars, writerVars, needFlush, pos, amt, state, how,
                   woken, writeWaker>>

\* Reading behind the bytes a stalled writer did not take.
TopUp(d) ==
    /\ Active(d) /\ sub = "top up"
    /\ \/ \E n \in Portion(d, BufSize - Len(buf[d])) :
             /\ buf' = [buf EXCEPT ![d] = @ \o NextBytes(d, n)]
             /\ taken' = [taken EXCEPT ![d] = @ + n]
             /\ UNCHANGED <<readDone, readWaker>>
       \/ /\ AtEof(d) /\ readDone' = [readDone EXCEPT ![d] = TRUE]
          /\ UNCHANGED <<buf, taken, readWaker>>
       \/ /\ NothingYet(d) /\ readWaker' = [readWaker EXCEPT ![d] = TRUE]
          /\ UNCHANGED <<buf, taken, readDone>>
    /\ Proceed(d, "pending")
    /\ UNCHANGED <<api, peerVars, writerVars, needFlush, pos, amt, state, how,
                   woken, writeWaker>>

\* Mutant: the transfer is complete as soon as everything is written.
EofUnflushed(d) ==
    /\ Active(d) /\ sub = "eof"
    /\ state' = [state EXCEPT ![d] = "ShuttingDown"] /\ how' = [how EXCEPT ![d] = "eof"]
    /\ sub' = "shut"
    /\ UNCHANGED <<api, peerVars, writerVars, bufVars, stage, result, woken, wakers>>

\* End of file: flush, then shut the writer down.
Eof(d) ==
    /\ Active(d) /\ sub = "eof" /\ Flushed(d)
    /\ state' = [state EXCEPT ![d] = "ShuttingDown"] /\ how' = [how EXCEPT ![d] = "eof"]
    /\ sub' = "shut"
    /\ UNCHANGED <<api, peerVars, stalled, stalls, out, bufVars, stage, result,
                   woken, wakers>>

Shutdown(d) ==
    /\ Active(d) /\ sub = "shut" /\ Flushed(d)
    /\ state' = [state EXCEPT ![d] = "Done"]
    /\ Proceed(d, "ready")
    /\ UNCHANGED <<api, peerVars, stalled, stalls, out, bufVars, how, woken, wakers>>

\* A reader or a writer fails, or a write accepts nothing: the error is returned.
IoError(d) ==
    /\ Active(d) /\ sub \in {"fill", "top up", "write", "top", "idle flush", "eof", "shut"}
    /\ stage' = "failed" /\ sub' = "none"
    /\ UNCHANGED <<api, peerVars, writerVars, bufVars, state, how, result, woken, wakers>>

\* Mutant: the task is not woken after an abort.
AbortBlockSilent(d) ==
    /\ stage = AbortStage(d) /\ stage' = Following(stage)
    /\ IF aborted[d] /\ state[d] = "Running"
       THEN /\ state' = [state EXCEPT ![d] = "ShuttingDown"]
            /\ how' = [how EXCEPT ![d] = "abort"]
       ELSE UNCHANGED <<state, how>>
    /\ UNCHANGED <<api, peerVars, writerVars, bufVars, sub, result, woken, wakers>>

\* An aborted side that is running shuts down at the next poll, which the block
\* itself asks for.
AbortBlock(d) ==
    /\ stage = AbortStage(d) /\ stage' = Following(stage)
    /\ IF aborted[d] /\ state[d] = "Running"
       THEN /\ state' = [state EXCEPT ![d] = "ShuttingDown"]
            /\ how' = [how EXCEPT ![d] = "abort"]
            /\ woken' = TRUE
       ELSE UNCHANGED <<state, how, woken>>
    /\ UNCHANGED <<api, peerVars, writerVars, bufVars, sub, result, wakers>>

\* Once the other direction is done this one is shut down, in the same poll.
Cross(d) ==
    /\ stage = CrossStage(d) /\ sub = "none"
    /\ IF state[Other(d)] = "Done" /\ state[d] = "Running"
       THEN /\ state' = [state EXCEPT ![d] = "ShuttingDown"]
            /\ how' = [how EXCEPT ![d] = "cross"]
            /\ sub' = "shut" /\ UNCHANGED stage
       ELSE stage' = Following(stage) /\ UNCHANGED <<state, how, sub>>
    /\ UNCHANGED <<api, peerVars, writerVars, bufVars, result, woken, wakers>>

Result ==
    /\ stage = "result"
    /\ stage' = IF \A d \in Directions : result[d] = "ready" THEN "done" ELSE "parked"
    /\ UNCHANGED <<api, peerVars, writerVars, bufVars, state, how, sub, result,
                   woken, wakers>>

Transfer(d) ==
    \/ AlreadyDone(d) \/ TopSkip(d) \/ TopFlush(d) \/ WriterPending(d)
    \/ Fill(d) \/ FillPending(d) \/ IdleFlush(d)
    \/ Write(d) \/ Written(d) \/ WritePending(d) \/ TopUp(d)
    \/ Eof(d) \/ Shutdown(d)

Task == Poll \/ Result \/ \E d \in Directions : Transfer(d) \/ AbortBlock(d) \/ Cross(d)

Over == stage \in {"done", "failed"}

Next ==
    /\ ~Over
    /\ \/ Task
       \/ \E d \in Directions :
             IoError(d) \/ Arrive(d) \/ Close(d) \/ Stall(d) \/ Unstall(d) \/ Abort(d)

Spec == Init /\ [][Next]_vars

\* A woken task is polled and a writer that pushed back accepts again.  Peers need
\* not send, close or abort.
FairSpec ==
    /\ Spec
    /\ WF_vars(~Over /\ Task)
    /\ \A d \in Directions : WF_vars(~Over /\ Unstall(d))
-----------------------------------------------------------------------------
Subs == {"none", "ready", "top", "fill", "idle flush", "write", "top up", "eof", "shut"}

\* The shape of the state; the buffer never outgrows its size.
DuplexTypeOK ==
    /\ api \in Apis
    /\ stage \in Range(Order) \cup {"parked", "done", "failed"} /\ sub \in Subs
    /\ woken \in BOOLEAN
    /\ \A f \in {eof, aborted, stalled, readDone, needFlush, readWaker, writeWaker} :
          f \in [Directions -> BOOLEAN]
    /\ state \in [Directions -> {"Running", "ShuttingDown", "Done"}]
    /\ how \in [Directions -> {"none", "eof", "abort", "cross"}]
    /\ result \in [Directions -> {"pending", "ready"}]
    /\ \A d \in Directions :
          /\ sent[d] \in 0..Len(Message[d]) /\ taken[d] \in 0..sent[d]
          /\ stalls[d] \in 0..MaxStalls[d]
          /\ Len(buf[d]) <= BufSize /\ pos[d] \in 0..Len(buf[d])
          /\ flushes[d] \subseteq 0..Len(out[d])

\* Whatever interleaving of reads, top-ups, partial writes, stalls and aborts: what
\* a writer got is a prefix of what the peer sent, and amt, the number returned to
\* the caller, is its length; the buffer keeps within its size.
OutIsPrefix ==
    /\ DuplexTypeOK
    /\ \A d \in Directions : out[d] = [i \in 1..amt[d] |-> i] /\ amt[d] <= sent[d]

\* In datagram mode the writer completed a flush between any two messages, so no
\* write and no frame holds bytes of both (hoprnet#8421, the doc of
\* transfer_session_datagram).
DatagramsKeptApart ==
    datagram =>
        \A d \in Directions : \A i \in 1 .. Len(out[d]) - 1 :
            Message[d][out[d][i]] # Message[d][out[d][i + 1]] => i \in flushes[d]

\* A direction that ended by end of file, rather than by an abort or because the
\* other one was done, had passed on and flushed everything its peer sent.
EofLosesNothing ==
    \A d \in Directions : how[d] = "eof" => amt[d] = sent[d] /\ sent[d] \in flushes[d]

\* After an end of file or an abort on either side the transfer ends: the side's
\* shutdown brings the other one down and no wake-up is missing in between.
TransferEnds ==
    (\E d \in Directions : eof[d] \/ aborted[d]) ~> Over

\* What was written does not stay in the writer's buffer while the reader is silent:
\* a peer that answers only what it has seen is not kept waiting.
WrittenIsFlushed ==
    \A d \in Directions : \A i \in 1..Len(Message[d]) :
        (Len(out[d]) >= i) ~> (Over \/ \E k \in flushes[d] : k >= i)
=============================================================================
