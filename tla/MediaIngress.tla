------------------------------ MODULE MediaIngress ------------------------------
(***************************************************************************)
(* The daemon's half of the media path (capture.rs): the task that         *)
(* receives authenticated records from the phone, the queue of fresh       *)
(* records, the capture loop that renumbers and writes them, and the       *)
(* daemon's handle on the output process (capture/output_worker.rs).       *)
(*                                                                         *)
(* The task and the loop run concurrently; the queue has a lock.  A write  *)
(* to the output process is a step of its own, since it blocks while the   *)
(* process does not read.  What the phone sends, and when the loop ends    *)
(* for another reason than its media (a Stop, the lease, the health        *)
(* check), is open: NativeService models those.                            *)
(***************************************************************************)
EXTENDS MediaRecords, Sequences

CONSTANTS
  QueueCapacity,  \* MEDIA_QUEUE_CAPACITY
  PipeCapacity    \* bound: what the pipe and the reader's channel hold

VARIABLES
  capture,  \* run_active_capture: its step, its binding, its output_sequence
  task,     \* receive_authenticated_media and its validator
  queue,    \* FreshMediaState
  worker,   \* OutputWorker's current_binding
  input     \* the output process's standard input

Failure == [kind |-> "error"]
Control == [kind: {"bind", "reset"}, binding: Binding]
Item    == Record \cup Control \cup {[kind |-> "shutdown"]}

TypeOK ==
  /\ capture \in [step: {"idle", "loop", "writing", "ending", "gone"},
                  binding: 0..MaxCaptures, sequence: Sequence,
                  record: Record \cup {None}]
  /\ task \in [running: BOOLEAN, validator: Validator \cup {None}]
  /\ queue \in [items: Seq(Record \cup {Failure}), closed: BOOLEAN]
  /\ Len(queue.items) <= QueueCapacity
  /\ worker \in Binding \cup {None}
  /\ input \in [open: BOOLEAN, items: Seq(Item)]
  /\ Len(input.items) <= PipeCapacity

Init ==
  /\ capture = [step |-> "idle", binding |-> 0, sequence |-> 0,
                record |-> None]
  /\ task = [running |-> FALSE, validator |-> None]
  /\ queue = [items |-> <<>>, closed |-> TRUE]
  /\ worker = None
  /\ input = [open |-> TRUE, items |-> <<>>]

\* The process reads its input, or has gone and the write fails at once.
Write(item) ==
  /\ input.open
  /\ Len(input.items) < PipeCapacity
  /\ input' = [input EXCEPT !.items = Append(@, item)]

-------------------------------------------------------------------------------
(* FreshMediaSender *)

\* Mutation: every item is dropped when the queue is full.
SendUnlessFull(item) ==
  IF queue.closed \/ Len(queue.items) = QueueCapacity THEN queue
  ELSE IF item.kind # "unit" THEN [items |-> <<item>>, closed |-> TRUE]
  ELSE [queue EXCEPT !.items = Append(@, item)]

\* A terminal item takes the place of everything queued and closes the queue;
\* a unit takes the place of the oldest ones.
Send(item) ==
  CASE queue.closed -> queue
    [] ~queue.closed /\ item.kind # "unit" ->
         [items |-> <<item>>, closed |-> TRUE]
    [] OTHER ->
         LET room == IF Len(queue.items) < QueueCapacity THEN queue.items
                     ELSE Tail(queue.items)
         IN  [queue EXCEPT !.items = Append(room, item)]

\* The task receives a record: it forwards one its validator accepts, and ends
\* with an error otherwise.  A Stop is its last record.
MediaRecord(r) ==
  /\ task.running
  /\ IF Accepts(task.validator, r)
       THEN /\ queue' = Send(r)
            /\ task' = [running |-> r.kind = "unit",
                        validator |-> Commit(task.validator, r)]
       ELSE /\ queue' = Send(Failure)
            /\ task' = [task EXCEPT !.running = FALSE]
  /\ UNCHANGED <<capture, worker, input>>

\* The task ends with an error of its own: no connection, a failed handshake,
\* a wrong media_open, a timeout, the end of the stream.
MediaFails ==
  /\ task.running
  /\ queue' = Send(Failure)
  /\ task' = [task EXCEPT !.running = FALSE]
  /\ UNCHANGED <<capture, worker, input>>

-------------------------------------------------------------------------------
(* run_active_capture *)

StartCapture ==
  LET b == capture.binding + 1
  IN  /\ capture.step = "idle"
      /\ b \in Binding
      /\ worker = None
      /\ Write([kind |-> "bind", binding |-> b])
      /\ worker' = b
      /\ capture' = [step |-> "loop", binding |-> b, sequence |-> 0,
                     record |-> None]
      /\ task' = [running |-> TRUE, validator |-> NewValidator(b)]
      /\ queue' = [items |-> <<>>, closed |-> FALSE]

\* Mutation: the record keeps the phone's number.
AsReceived(r) == r

\* The record as the output process gets it: the numbering has no gap where
\* the queue dropped records.
Renumbered(r) == [r EXCEPT !.sequence = capture.sequence]

\* The end of the loop: the media task is aborted.
EndLoop ==
  /\ capture' = [capture EXCEPT !.step = "ending", !.record = None]
  /\ task' = [task EXCEPT !.running = FALSE]

\* The loop takes an item.  output_sequence is advanced before the write, so
\* the last sequence number is never written.
LoopRecv ==
  /\ capture.step = "loop"
  /\ queue.items # <<>>
  /\ queue' = [queue EXCEPT !.items = Tail(@)]
  /\ IF Head(queue.items).kind = "unit" /\ capture.sequence < MaxSequence
       THEN /\ capture' =
                 [capture EXCEPT !.step = "writing", !.sequence = @ + 1,
                                 !.record = Renumbered(Head(queue.items))]
            /\ UNCHANGED task
       ELSE EndLoop
  /\ UNCHANGED <<worker, input>>

WriteFrame ==
  /\ capture.step = "writing"
  /\ Write(capture.record)
  /\ capture' = [capture EXCEPT !.step = "loop", !.record = None]
  /\ UNCHANGED <<task, queue, worker>>

\* The output process has gone: the write fails and ends the capture.
WriteFails ==
  /\ capture.step = "writing"
  /\ ~input.open
  /\ EndLoop
  /\ UNCHANGED <<queue, worker, input>>

\* Any other exit of the loop.
StopCapture ==
  /\ capture.step = "loop"
  /\ EndLoop
  /\ UNCHANGED <<queue, worker, input>>

\* Mutation: a full pipe makes the reset be skipped.
ResetUnlessFull ==
  /\ capture.step = "ending"
  /\ \/ /\ input.open
        /\ IF Len(input.items) < PipeCapacity
             THEN Write([kind |-> "reset", binding |-> capture.binding])
             ELSE UNCHANGED input
        /\ worker' = None
     \/ /\ ~input.open
        /\ UNCHANGED <<worker, input>>
  /\ capture' = [capture EXCEPT !.step = "idle"]
  /\ queue' = [items |-> <<>>, closed |-> TRUE]
  /\ UNCHANGED task

\* The output is reset.  When its process has gone the reset fails and the
\* handle stays bound: it never serves another capture.
ResetOutput ==
  /\ capture.step = "ending"
  /\ \/ /\ Write([kind |-> "reset", binding |-> capture.binding])
        /\ worker' = None
     \/ /\ ~input.open
        /\ UNCHANGED <<worker, input>>
  /\ capture' = [capture EXCEPT !.step = "idle"]
  /\ queue' = [items |-> <<>>, closed |-> TRUE]
  /\ UNCHANGED task

\* The daemon ends and asks the output process to end.
Shutdown ==
  /\ capture.step = "idle"
  /\ capture' = [capture EXCEPT !.step = "gone"]
  /\ Write([kind |-> "shutdown"])
  /\ UNCHANGED <<task, queue, worker>>
===============================================================================
