-------------------------------- MODULE MediaPath --------------------------------
(***************************************************************************)
(* The way of a picture from the phone to the camera device: the daemon's  *)
(* ingress and the output process, joined by the process's standard input. *)
(***************************************************************************)
EXTENDS MediaRecords, Sequences

CONSTANTS QueueCapacity, PipeCapacity, FrameCapacity, BacklogLimit, StaleTicks,
          Neutral

ASSUME PathConstantsOK ==
  {QueueCapacity, PipeCapacity, FrameCapacity, BacklogLimit, StaleTicks}
    \subseteq Nat \ {0}

\* None is none of the values whose place it takes.
ASSUME NoneIsNothing ==
  /\ None \notin Validator \cup {Neutral}
  /\ None \notin [binding: Binding, sequence: Sequence]
  /\ None \notin {"activate", "deactivate", "health", "protocol", "timeout"}

VARIABLES capture, task, queue, worker, input,
          service, decoder, frames, mux, pipeline, device

Ingress == INSTANCE MediaIngress
Output  == INSTANCE OutputService

ingressVars == <<capture, task, queue, worker>>
outputVars  == <<service, decoder, frames, mux, pipeline, device>>
vars == <<ingressVars, input, outputVars>>

Init == Ingress!Init /\ Output!Init

IngressStep ==
  \/ \E r \in Record : Ingress!MediaRecord(r)
  \/ Ingress!MediaFails
  \/ Ingress!StartCapture
  \/ Ingress!LoopRecv
  \/ Ingress!WriteFrame
  \/ Ingress!WriteFails
  \/ Ingress!StopCapture
  \/ Ingress!ResetOutput
  \/ Ingress!Shutdown

OutputStep ==
  \/ Output!ServiceInput
  \/ Output!HealthFails
  \/ Output!Activated
  \/ Output!ActivateFails
  \/ Output!Deactivated
  \/ Output!Join
  \/ Output!Exit
  \/ Output!Pump
  \/ Output!MuxCommand
  \/ Output!MuxTick
  \/ Output!MuxWrite
  \/ Output!PipelineDies
  \/ Output!DecoderDies
  \/ Output!Killed

Next ==
  \/ IngressStep /\ UNCHANGED outputVars
  \/ OutputStep /\ UNCHANGED ingressVars

\* The capture loop, the service's loop and the mux run on; a decoder that
\* lives decodes what it was given.  The phone, and whatever ends a capture or
\* a process early, owe nothing.
Fairness ==
  /\ WF_vars(Ingress!LoopRecv /\ UNCHANGED outputVars)
  /\ WF_vars((Ingress!WriteFrame \/ Ingress!WriteFails)
             /\ UNCHANGED outputVars)
  /\ WF_vars(Ingress!ResetOutput /\ UNCHANGED outputVars)
  /\ WF_vars((Output!ServiceInput \/ Output!HealthFails \/ Output!Activated
              \/ Output!ActivateFails \/ Output!Deactivated \/ Output!Join
              \/ Output!Exit) /\ UNCHANGED ingressVars)
  /\ WF_vars(Output!Pump /\ UNCHANGED ingressVars)
  /\ WF_vars((Output!MuxCommand \/ Output!MuxTick \/ Output!MuxWrite)
             /\ UNCHANGED ingressVars)

Spec == Init /\ [][Next]_vars
FairSpec == Spec /\ Fairness

-------------------------------------------------------------------------------
(* Correctness *)

TypeOK == Ingress!TypeOK /\ Output!TypeOK

\* A service that runs unbound has forgotten the capture: nothing of it is in
\* the decoder, in the queue or on its way to the device, although the pump
\* queued pictures until it was joined (ServiceOutput::reset).
ResetLeavesNothing ==
  service.phase = "run" /\ service.binding = None =>
    /\ decoder = Output!NoDecoder
    /\ frames = <<>>
    /\ ~mux.active /\ mux.last = None
    /\ mux.writing \in {None, Neutral}

\* Whatever the phone sends and whatever the ingress queue drops, the second
\* validator never finds fault with what the daemon wrote: a protocol failure
\* would take the camera away from every later capture (capture.rs renumbers
\* the records; service.rs validates them again).
RecordsAreAccepted == service.failure # "protocol"

\* The output process serves no capture behind the daemon's back: one it is
\* bound to is the daemon's own or has its Reset on the way, unless the
\* process is about to end (OutputWorker::bind and reset against
\* ServiceOutput's binding).
DaemonKnowsTheBinding ==
  service.phase = "run" /\ service.binding # None =>
    \/ worker = service.binding
    \/ \E i \in DOMAIN input.items :
         input.items[i] = [kind |-> "reset", binding |-> service.binding]

Camera == INSTANCE VirtualCamera WITH
  Session <- Binding,
  Picture <- Output!Picture,
  session <- IF mux.active THEN service.bound ELSE None,
  current <- mux.last,
  picture <- device

\* The camera shows pictures of the session it serves only, in their order,
\* and none of a closed one, across resets, failures and rebinds.
ImplementsCamera == Camera!Spec

\* No picture stands for ever: it is replaced or blanked, whatever the phone,
\* the daemon and the decoder stop doing (STALE_FRAME_LIMIT in run_raw_mux).
PictureDoesNotFreeze == \A p \in Output!Picture : device = p ~> device # p

\* When the media of a capture has ended, so does the capture: the terminal
\* item is never lost in the bounded queue (FreshMediaSender::send).
TerminalEndsCapture ==
  capture.step \in {"loop", "writing"} /\ ~task.running
    ~> capture.step \in {"idle", "gone"}
===============================================================================
