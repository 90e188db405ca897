---------------------------- MODULE MCComponents ----------------------------
(***************************************************************************)
(* The components that share no state with others, for TLC: a behaviour    *)
(* exercises one of them.                                                  *)
(***************************************************************************)
EXTENDS WindowedRatio, MovingAverage, ExponentialAverage, WeightedChoice,
        AbortableList, Diagnostics, DropAbortable, PcapCapture

EmaValues == {-1, 0, 2}
SomeWeights == {-1, 0, 1, 2}

VARIABLE tracked

Init ==
    /\ RatioInit /\ AverageInit /\ EmaInit /\ WeightedInit
    /\ ListInit /\ DiagnosticsInit /\ AbortableInit /\ CaptureInit
    /\ tracked \in {"ratio", "average", "ema", "weighted", "list", "diagnostics", "abortable", "capture"}
    /\ tracked # "weighted" => weights = <<>>
    /\ tracked # "diagnostics" => diagnosed
    /\ tracked # "average" => ~checked

Next ==
    /\ UNCHANGED tracked
    /\ \/ /\ tracked = "ratio" /\ RatioNext
          /\ UNCHANGED <<averageVars, emaVars, weightedVars, listVars, diagnosticVars, abortableVars, captureVars>>
       \/ /\ tracked = "average" /\ AverageNext
          /\ UNCHANGED <<ratioVars, emaVars, weightedVars, listVars, diagnosticVars, abortableVars, captureVars>>
       \/ /\ tracked = "ema" /\ EmaNext
          /\ UNCHANGED <<ratioVars, averageVars, weightedVars, listVars, diagnosticVars, abortableVars, captureVars>>
       \/ /\ tracked = "weighted" /\ WeightedNext
          /\ UNCHANGED <<ratioVars, averageVars, emaVars, listVars, diagnosticVars, abortableVars, captureVars>>
       \/ /\ tracked = "list" /\ ListNext
          /\ UNCHANGED <<ratioVars, averageVars, emaVars, weightedVars, diagnosticVars, abortableVars, captureVars>>
       \/ /\ tracked = "diagnostics" /\ DiagnosticsNext
          /\ UNCHANGED <<ratioVars, averageVars, emaVars, weightedVars, listVars, abortableVars, captureVars>>
       \/ /\ tracked = "abortable" /\ AbortableNext
          /\ UNCHANGED <<ratioVars, averageVars, emaVars, weightedVars, listVars, diagnosticVars, captureVars>>
       \/ /\ tracked = "capture" /\ CaptureNext
          /\ UNCHANGED <<ratioVars, averageVars, emaVars, weightedVars, listVars, diagnosticVars, abortableVars>>

allVars == <<ratioVars, averageVars, emaVars, weightedVars, listVars, diagnosticVars,
             abortableVars, captureVars, tracked>>

\* The stream is polled by a task that does nothing else, blocked senders are woken, and the
\* runtime runs the writer task of the capture.
Spec ==
    /\ Init /\ [][Next]_allVars
    /\ WF_abortableVars(tracked = "abortable" /\ PollNext)
    /\ WF_abortableVars(tracked = "abortable" /\ Register)
    /\ \A s \in Senders : WF_abortableVars(tracked = "abortable" /\ sender[s] = "blocked" /\ Send(s))
    /\ WF_captureVars(tracked = "capture" /\ CaptureTask)
=============================================================================
