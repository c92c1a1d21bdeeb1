------------------------------ MODULE OutputService ------------------------------
(***************************************************************************)
(* The output process (crates/omacam-output): the service loop that reads  *)
(* control commands and media records (service.rs), the decoder of the     *)
(* current capture with the pump thread that queues its pictures           *)
(* (decoder.rs), the mux thread that writes one picture per tick to the    *)
(* GStreamer pipeline (mux.rs), and the picture the camera device shows.   *)
(*                                                                         *)
(* Grain.  The three threads interleave at their locks, channels and       *)
(* blocking calls.  The service waits for the mux's acknowledgement and    *)
(* for the pump to end, each in a phase of its own; the mux's tick takes a *)
(* picture in one step and writes it in another, since the write blocks.   *)
(* The decoder's pipes are one bounded backlog of pictures.                *)
(***************************************************************************)
EXTENDS MediaRecords, Sequences

CONSTANTS
  FrameCapacity,  \* RAW_FRAME_QUEUE_CAPACITY
  BacklogLimit,   \* bound: what the decoder holds
  StaleTicks,     \* STALE_FRAME_LIMIT in ticks of the mux
  Neutral         \* the black picture, and what a device without input shows

VARIABLES
  input,     \* standard input, shared with the daemon
  service,   \* ServiceOutput, and where its thread is
  decoder,   \* DecoderProcess
  frames,    \* RawFrameQueue
  mux,       \* the mux thread and its command channel
  pipeline,  \* is the GStreamer pipeline running?
  device     \* the picture consumers of the camera see

Picture == [binding: Binding, sequence: Sequence]

TypeOK ==
  /\ service \in [phase: {"run", "activating", "deactivating", "joining",
                          "closing", "exited"},
                  binding: Binding \cup {None},
                  bound: Binding \cup {None},  \* argument of the last bind()
                  validator: Validator \cup {None},
                  failure: {None, "health", "protocol", "timeout"},
                  quitting: BOOLEAN]
  /\ decoder \in [state: {"none", "running", "dead"}, backlog: Seq(Picture)]
  /\ Len(decoder.backlog) <= BacklogLimit
  /\ frames \in Seq(Picture)
  /\ Len(frames) <= FrameCapacity
  /\ mux \in [alive: BOOLEAN, command: {None, "activate", "deactivate"},
              active: BOOLEAN, last: Picture \cup {None}, age: 0..StaleTicks,
              writing: Picture \cup {Neutral, None}]
  /\ pipeline \in BOOLEAN
  /\ device \in Picture \cup {Neutral}

NoDecoder == [state |-> "none", backlog |-> <<>>]

Init ==
  /\ service = [phase |-> "run", binding |-> None, bound |-> None,
                validator |-> None, failure |-> None, quitting |-> FALSE]
  /\ decoder = NoDecoder
  /\ frames = <<>>
  /\ mux = [alive |-> TRUE, command |-> None, active |-> FALSE, last |-> None,
            age |-> 0, writing |-> None]
  /\ pipeline = TRUE
  /\ device = Neutral

-------------------------------------------------------------------------------
(* RawFrameQueue *)

\* Mutation: nothing is dropped from a full queue.
PushUnbounded(p) == Append(frames, p)

Push(p) == Append(IF Len(frames) < FrameCapacity THEN frames ELSE Tail(frames), p)

\* Mutation: the older pictures stay in the queue.
TakeLast == [picture |-> frames[Len(frames)],
             rest |-> SubSeq(frames, 1, Len(frames) - 1)]

\* take_latest: the newest picture, and the queue it leaves.
TakeLatest == [picture |-> frames[Len(frames)], rest |-> <<>>]

-------------------------------------------------------------------------------
(* ServiceOutput *)

Healthy == mux.alive /\ pipeline /\ decoder.state # "dead"

\* reset() begins: the queue is cleared and the mux told to deactivate, unless
\* it has stopped.
BeginReset(s) ==
  /\ frames' = <<>>
  /\ service' = [s EXCEPT !.phase = IF mux.alive THEN "deactivating"
                                    ELSE "joining",
                          !.failure = IF mux.alive THEN @ ELSE "health"]
  /\ mux' = IF mux.alive THEN [mux EXCEPT !.command = "deactivate"] ELSE mux
  /\ UNCHANGED decoder

\* run() returns and shutdown() resets what is bound.
Quit(s) ==
  IF s.binding # None
    THEN BeginReset([s EXCEPT !.quitting = TRUE])
    ELSE /\ service' = [s EXCEPT !.phase = "closing", !.quitting = TRUE]
         /\ UNCHANGED <<frames, mux, decoder>>

Fail(s, why) == Quit([s EXCEPT !.failure = why])

Bind(b) ==
  CASE service.binding # None -> Fail(service, "protocol")
    [] service.binding = None /\ ~Healthy -> Fail(service, "health")
    [] OTHER ->
         /\ decoder' = [state |-> "running", backlog |-> <<>>]
         /\ frames' = <<>>
         /\ mux' = [mux EXCEPT !.command = "activate"]
         /\ service' = [service EXCEPT !.phase = "activating", !.bound = b]

Reset(b) ==
  IF service.binding \notin {None, b} THEN Fail(service, "protocol")
                                      ELSE BeginReset(service)

\* A media record: the service's own validator checks it again.
Media(r) ==
  LET s == [service EXCEPT !.validator = Commit(@, r)]
  IN  CASE service.validator = None -> Fail(service, "protocol")
        [] service.validator # None /\ ~Accepts(service.validator, r) ->
             Fail(service, "protocol")
        [] OTHER ->
             IF r.kind = "stop" THEN BeginReset(s)
             ELSE IF ~Healthy THEN Fail(s, "health")
             ELSE /\ Len(decoder.backlog) < BacklogLimit
                  /\ decoder' = [decoder EXCEPT !.backlog =
                       Append(@, [binding |-> r.binding,
                                  sequence |-> r.sequence])]
                  /\ service' = s
                  /\ UNCHANGED <<frames, mux>>

ServiceInput ==
  LET item == Head(input.items)
  IN  /\ service.phase = "run"
      /\ input.items # <<>>
      /\ input' = [input EXCEPT !.items = Tail(@)]
      /\ CASE item.kind = "bind"     -> Bind(item.binding)
           [] item.kind = "reset"    -> Reset(item.binding)
           [] item.kind = "shutdown" -> Quit(service)
           [] OTHER                  -> Media(item)
      /\ UNCHANGED <<pipeline, device>>

HealthFails ==
  /\ service.phase = "run"
  /\ ~Healthy
  /\ Fail(service, "health")
  /\ UNCHANGED <<input, pipeline, device>>

\* The mux acknowledged Activate: the binding is in force.
Activated ==
  /\ service.phase = "activating"
  /\ mux.command = None
  /\ service' = [service EXCEPT !.phase = "run", !.binding = service.bound,
                                !.validator = NewValidator(service.bound)]
  /\ UNCHANGED <<input, decoder, frames, mux, pipeline, device>>

\* The mux died, or a write to the pipeline holds it for two seconds.
NoAnswer == mux.command # None /\ (~mux.alive \/ mux.writing # None)

ActivateFails ==
  /\ service.phase = "activating"
  /\ NoAnswer
  /\ decoder' = NoDecoder
  /\ service' = [service EXCEPT !.phase = "closing", !.quitting = TRUE,
                                !.failure = "timeout"]
  /\ UNCHANGED <<input, frames, mux, pipeline, device>>

\* The decoder is killed; its pump goes on with what was already produced.
Deactivated ==
  /\ service.phase = "deactivating"
  /\ \/ /\ mux.command = None
        /\ service' = [service EXCEPT !.phase = "joining"]
     \/ /\ NoAnswer
        /\ service' = [service EXCEPT !.phase = "joining",
                                      !.failure = "timeout"]
  /\ decoder' = [decoder EXCEPT !.state = "dead"]
  /\ UNCHANGED <<input, frames, mux, pipeline, device>>

\* Mutation: the queue is not cleared again after the pump has ended.
JoinKeepingFrames ==
  /\ service.phase = "joining"
  /\ decoder' = NoDecoder
  /\ service' = [service EXCEPT
                   !.phase = IF service.quitting \/ service.failure # None
                             THEN "closing" ELSE "run",
                   !.binding = None, !.validator = None]
  /\ UNCHANGED <<input, frames, mux, pipeline, device>>

\* The pump has ended: what it queued since the reset began is cleared.
Join ==
  /\ service.phase = "joining"
  /\ decoder' = NoDecoder
  /\ frames' = <<>>
  /\ service' = [service EXCEPT
                   !.phase = IF service.quitting \/ service.failure # None
                             THEN "closing" ELSE "run",
                   !.binding = None, !.validator = None]
  /\ UNCHANGED <<input, mux, pipeline, device>>

\* The process ends, and with it the mux and the pipeline.
Gone ==
  /\ service' = [service EXCEPT !.phase = "exited"]
  /\ decoder' = NoDecoder
  /\ mux' = [mux EXCEPT !.alive = FALSE, !.active = FALSE, !.last = None,
                        !.writing = None]
  /\ pipeline' = FALSE
  /\ device' = Neutral
  /\ input' = [open |-> FALSE, items |-> <<>>]
  /\ UNCHANGED frames

Exit == service.phase = "closing" /\ Gone

-------------------------------------------------------------------------------
(* The decoder, the mux and the pipeline *)

\* The decoder produces its next picture and the pump queues it.
Pump ==
  /\ decoder.backlog # <<>>
  /\ frames' = Push(Head(decoder.backlog))
  /\ decoder' = [decoder EXCEPT !.backlog = Tail(@)]
  /\ UNCHANGED <<input, service, mux, pipeline, device>>

\* Activate or Deactivate; a waiting command comes before a tick.
MuxCommand ==
  /\ mux.alive /\ mux.writing = None
  /\ mux.command # None
  /\ frames' = <<>>
  /\ mux' = [mux EXCEPT !.active = mux.command = "activate", !.last = None,
                        !.command = None]
  /\ UNCHANGED <<input, service, decoder, pipeline, device>>

\* Mutation: a picture never gets stale.
AlwaysFresh(m) == m.last # None

\* A picture that was taken at least StaleTicks ago is not shown.
Fresh(m) == m.last # None /\ m.age < StaleTicks

Shown(m) == IF m.active /\ Fresh(m) THEN m.last ELSE Neutral

\* A tick: the newest picture is taken; without one the last gets older, by
\* one tick or, when the tick was late, by more.
MuxTick ==
  /\ mux.alive /\ mux.writing = None
  /\ mux.command = None
  /\ IF mux.active /\ frames # <<>>
       THEN LET m == [mux EXCEPT !.last = TakeLatest.picture, !.age = 0]
            IN  /\ mux' = [m EXCEPT !.writing = Shown(m)]
                /\ frames' = TakeLatest.rest
       ELSE /\ \E age \in 0..StaleTicks :
                 LET m == [mux EXCEPT !.age = age]
                 IN  /\ IF mux.last = None THEN age = mux.age
                        ELSE age > mux.age \/ age = StaleTicks
                     /\ mux' = [m EXCEPT !.writing = Shown(m)]
            /\ UNCHANGED frames
  /\ UNCHANGED <<input, service, decoder, pipeline, device>>

\* The tick's picture is written; without a pipeline the mux stops.
MuxWrite ==
  /\ mux.alive /\ mux.writing # None
  /\ IF pipeline
       THEN /\ device' = mux.writing
            /\ mux' = [mux EXCEPT !.writing = None]
       ELSE /\ mux' = [mux EXCEPT !.alive = FALSE, !.writing = None]
            /\ UNCHANGED device
  /\ UNCHANGED <<input, service, decoder, frames, pipeline>>

\* The pipeline ends: consumers of the device see no picture any more.
PipelineDies ==
  /\ pipeline
  /\ pipeline' = FALSE
  /\ device' = Neutral
  /\ UNCHANGED <<input, service, decoder, frames, mux>>

DecoderDies ==
  /\ decoder.state = "running"
  /\ decoder' = [decoder EXCEPT !.state = "dead"]
  /\ UNCHANGED <<input, service, frames, mux, pipeline, device>>

\* The process is killed, by the daemon's shutdown or by its death.
Killed == service.phase # "exited" /\ Gone
===============================================================================
