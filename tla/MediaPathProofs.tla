---------------------------- MODULE MediaPathProofs ----------------------------
(***************************************************************************)
(* Proofs about MediaPath, for any number of captures, any sequence        *)
(* numbers and times, and any size of its queues.                          *)
(*                                                                         *)
(* The invariant reads the pipe as a script: after each item on its way    *)
(* the service will be ready for the next one, and after the last one for  *)
(* what the capture loop will write.  A step of the output process only    *)
(* moves along the script (Moves), a write makes it longer (Written).      *)
(***************************************************************************)
EXTENDS MediaPath, TLAPS

\* What the service is ready to accept, and what it will be after an item:
\* the binding it serves, the next number and the least time.
Unbound == [binding |-> None, next |-> 0, time |-> 0]
Over    == [binding |-> 0, next |-> 0, time |-> 0]

Bound(b) == [binding |-> b, next |-> 0, time |-> 0]

After(x) ==
  CASE x.kind = "bind"  -> Bound(x.binding)
    [] x.kind = "unit"  -> [binding |-> x.binding, next |-> x.sequence + 1,
                            time |-> x.time]
    [] x.kind = "reset" -> Unbound
    [] OTHER            -> Over

Fits(e, x) ==
  \/ x.kind \in {"bind", "shutdown"} /\ e.binding = None
  \/ x.kind = "reset" /\ x.binding = e.binding
  \/ /\ x.kind = "unit" /\ x.binding = e.binding
     /\ x.sequence = e.next /\ e.time <= x.time

ServiceExpects ==
  CASE service.phase = "run" /\ service.binding # None ->
         [binding |-> service.binding, next |-> service.validator.next,
          time |-> service.validator.time]
    [] service.phase = "activating" -> Bound(service.bound)
    [] OTHER -> Unbound

Expect(i) == IF i = 0 THEN ServiceExpects ELSE After(input.items[i])
Expected == Expect(Len(input.items))

\* The service reads its input, or will again.
Going ==
  \/ service.phase \in {"run", "activating"}
  \/ /\ service.phase \in {"deactivating", "joining"}
     /\ ~service.quitting /\ service.failure = None

Capturing == capture.step \in {"loop", "writing"}

\* Every item on its way fits what comes before it.
Script ==
  Going => \A i \in DOMAIN input.items : Fits(Expect(i - 1), input.items[i])

\* The capture loop writes what fits next.
Writer ==
  Going =>
    /\ capture.step = "idle" => worker = None /\ Expected.binding = None
    /\ capture.step \in {"loop", "writing", "ending"} =>
         worker = capture.binding /\ Expected.binding = capture.binding
    /\ capture.step = "loop" => Expected.next = capture.sequence
    /\ capture.step = "writing" => Fits(Expected, capture.record)

\* The record that is written has the number before the next one.
Renumbering ==
  capture.step = "writing" =>
    /\ capture.record \in Record /\ capture.record.kind = "unit"
    /\ capture.record.sequence + 1 = capture.sequence

\* No record that is written from now on has an earlier time.
Floor == IF capture.step = "writing" THEN capture.record.time ELSE Expected.time

\* What is queued is of the capture, in the order of its times.
Queued ==
  Capturing =>
    /\ \A i \in DOMAIN queue.items : queue.items[i].kind = "unit" =>
         /\ queue.items[i].binding = capture.binding
         /\ Going => Floor <= queue.items[i].time
         /\ task.running => queue.items[i].time <= task.validator.time
         /\ \A j \in DOMAIN queue.items :
              i < j /\ queue.items[j].kind = "unit" =>
                queue.items[i].time <= queue.items[j].time
    /\ task.running =>
         /\ task.validator # None
         /\ task.validator.binding = capture.binding
         /\ Going => Floor <= task.validator.time

\* Every binding that the service has or will have is still the daemon's own,
\* or its Reset is on the way.
Resets(b, i) ==
  worker = b \/ \E j \in DOMAIN input.items :
                  j > i /\ input.items[j] = [kind |-> "reset", binding |-> b]
Returned ==
  Going =>
    /\ ServiceExpects.binding # None => Resets(ServiceExpects.binding, 0)
    /\ \A i \in DOMAIN input.items : input.items[i].kind = "bind" =>
         Resets(input.items[i].binding, i)

\* The service and its validator agree on the binding.
Serving ==
  /\ service.phase = "run" /\ service.binding # None =>
       /\ service.validator # None
       /\ service.binding = service.bound
       /\ service.validator.binding = service.bound
       /\ ~service.validator.invalidated
  /\ service.phase = "activating" => service.bound # None

\* A mux that shows nothing of a capture.
Quiet ==
  ~mux.active /\ mux.last = None /\ mux.writing \in {None, Neutral}
    /\ mux.command = None

\* What the service knows of the mux in each of its phases.
MuxFollows ==
  /\ service.phase = "run" /\ service.binding = None =>
       Quiet /\ decoder = Output!NoDecoder /\ frames = <<>>
  /\ service.phase = "run" => mux.command = None
  /\ service.phase = "activating" =>
       decoder.backlog = <<>> /\ frames = <<>> /\ mux.last = None
  /\ service.phase = "deactivating" /\ mux.command = None => Quiet
  /\ service.phase = "joining" /\ service.failure = None => Quiet
  /\ mux.command = "activate" =>
       /\ service.phase \in {"activating", "closing", "exited"}
       /\ ~mux.active /\ mux.last = None /\ service.bound # None
  /\ mux.writing \in {None, Neutral, mux.last}
  /\ ~mux.active => mux.last = None

\* Pictures are of the last binding and in their order, from the backlog over
\* the queue to the one that was taken last.
InOrder(q) ==
  \A i, j \in DOMAIN q : i < j => q[i].sequence < q[j].sequence
Pictures ==
  /\ \A i \in DOMAIN frames : frames[i].binding = service.bound
  /\ \A i \in DOMAIN decoder.backlog :
       decoder.backlog[i].binding = service.bound
  /\ InOrder(frames) /\ InOrder(decoder.backlog)
  /\ \A i \in DOMAIN frames, j \in DOMAIN decoder.backlog :
       frames[i].sequence < decoder.backlog[j].sequence
  /\ mux.last # None =>
       /\ mux.last.binding = service.bound
       /\ \A i \in DOMAIN frames : mux.last.sequence < frames[i].sequence
       /\ \A i \in DOMAIN decoder.backlog :
            mux.last.sequence < decoder.backlog[i].sequence

\* No picture has a number that the service still waits for.
Numbered ==
  service.phase = "run" /\ service.binding # None =>
    /\ \A i \in DOMAIN frames : frames[i].sequence < service.validator.next
    /\ \A i \in DOMAIN decoder.backlog :
         decoder.backlog[i].sequence < service.validator.next
    /\ mux.last # None => mux.last.sequence < service.validator.next

\* The input closes with the process; the media task is that of the loop.
Ends ==
  /\ ~input.open => service.phase = "exited"
  /\ task.running => Capturing
  /\ capture.step \in {"loop", "writing", "ending"} => capture.binding # 0

Protocol == Script /\ Writer /\ Renumbering /\ Queued /\ Returned /\ Ends
Typed    == Ingress!TypeOK /\ Output!TypeOK /\ Serving
Showing  == MuxFollows /\ Pictures /\ Numbered /\ RecordsAreAccepted

IInv == Typed /\ Protocol /\ Showing

-------------------------------------------------------------------------------
(* Both ends use the same records *)

\* The instances of MediaRecords in the two halves are one.
LEMMA Names ==
  /\ Ingress!Binding = Binding /\ Output!Binding = Binding
  /\ Ingress!Sequence = Sequence /\ Output!Sequence = Sequence
  /\ Ingress!Record = Record /\ Output!Record = Record
  /\ Ingress!Validator = Validator /\ Output!Validator = Validator
  /\ \A b : /\ Ingress!NewValidator(b) = NewValidator(b)
            /\ Output!NewValidator(b) = NewValidator(b)
  /\ \A v, r : /\ Ingress!Accepts(v, r) = Accepts(v, r)
               /\ Output!Accepts(v, r) = Accepts(v, r)
               /\ Ingress!Commit(v, r) = Commit(v, r)
               /\ Output!Commit(v, r) = Commit(v, r)
BY DEF Ingress!Binding, Output!Binding, Binding, Ingress!Sequence,
       Output!Sequence, Sequence, Ingress!Time, Output!Time, Time,
       Ingress!Record, Output!Record, Record, Ingress!Validator,
       Output!Validator, Validator, Ingress!NewValidator, Output!NewValidator,
       NewValidator, Ingress!Accepts, Output!Accepts, Accepts, Ingress!Commit,
       Output!Commit, Commit

\* What may lie in the pipe.
LEMMA ItemKinds ==
  \A x \in Ingress!Item :
    /\ x.kind \in {"unit", "stop", "bind", "reset", "shutdown"}
    /\ x.kind \in {"unit", "stop"} => x \in Record
    /\ x.kind \in {"bind", "reset"} => x \in Ingress!Control
BY Names DEF Ingress!Item, Ingress!Control, Record

\* The fields of what is sent, and that no binding stands for nothing.
LEMMA RecordFields ==
  /\ \A r \in Record : /\ r.kind \in {"unit", "stop"} /\ r.binding \in Binding
                       /\ r.sequence \in 0..MaxSequence /\ r.time \in Time
  /\ \A x \in Ingress!Control : x.binding \in Binding
  /\ \A b \in Binding : b \in 1..MaxCaptures /\ b # None /\ b # 0
  /\ MaxSequence \in Nat /\ MaxTime \in Nat
BY Names, RecordConstantsOK DEF Record, Sequence, Time, Binding, Ingress!Control

Expectation == [binding: 0..MaxCaptures \cup {None}, next: 0..MaxSequence + 1,
                time: Time]

\* What the service expects after an item, by the kind of the item.
LEMMA AfterTyped ==
  \A x \in Ingress!Item :
    /\ After(x) \in Expectation
    /\ x.kind = "bind" => After(x) = Bound(x.binding) /\ x.binding \in Binding
    /\ x.kind = "reset" => After(x) = Unbound /\ x.binding \in Binding
    /\ x.kind = "unit" =>
         /\ x \in Record /\ x.binding \in Binding
         /\ After(x) = [binding |-> x.binding, next |-> x.sequence + 1,
                        time |-> x.time]
    /\ x.kind \notin {"bind", "reset", "unit"} => After(x) = Over
<1> SUFFICES ASSUME NEW x \in Ingress!Item
             PROVE  /\ After(x) \in Expectation
                    /\ x.kind = "bind" =>
                         After(x) = Bound(x.binding) /\ x.binding \in Binding
                    /\ x.kind = "reset" =>
                         After(x) = Unbound /\ x.binding \in Binding
                    /\ x.kind = "unit" =>
                         /\ x \in Record /\ x.binding \in Binding
                         /\ After(x) = [binding |-> x.binding,
                                        next |-> x.sequence + 1,
                                        time |-> x.time]
                    /\ x.kind \notin {"bind", "reset", "unit"} =>
                         After(x) = Over
  OBVIOUS
<1> USE RecordConstantsOK DEF Expectation, Bound, Unbound, Over, Time
<1>1. CASE x.kind = "bind"
  <2>1. x.binding \in Binding /\ x.binding \in 1..MaxCaptures
    BY <1>1, ItemKinds, RecordFields
  <2>2. After(x) = Bound(x.binding)
    BY <1>1 DEF After
  <2> QED BY <1>1, <2>1, <2>2
<1>2. CASE x.kind = "reset"
  <2>1. x.binding \in Binding
    BY <1>2, ItemKinds, RecordFields
  <2>2. After(x) = Unbound
    BY <1>2 DEF After
  <2> QED BY <1>2, <2>1, <2>2
<1>3. CASE x.kind = "unit"
  <2>1. /\ x \in Record /\ x.binding \in Binding
        /\ x.sequence \in 0..MaxSequence
        /\ x.time \in 0..MaxTime /\ x.binding \in 1..MaxCaptures
    BY <1>3, ItemKinds, RecordFields
  <2>2. After(x) = [binding |-> x.binding, next |-> x.sequence + 1,
                    time |-> x.time]
    BY <1>3 DEF After
  <2> QED BY <1>3, <2>1, <2>2
<1>4. CASE x.kind \notin {"bind", "reset", "unit"}
  <2>1. After(x) = Over
    BY <1>4 DEF After
  <2> QED BY <1>4, <2>1
<1> QED BY <1>1, <1>2, <1>3, <1>4

\* What the service expects is a binding, or none, with numbers in range.
LEMMA ServiceTyped ==
  ASSUME Output!TypeOK, Serving
  PROVE  ServiceExpects \in Expectation
<1> USE RecordConstantsOK DEF Expectation, Bound, Unbound, Time
<1>1. CASE service.phase = "run" /\ service.binding # None
  <2>1. service.validator \in Validator /\ service.binding \in Binding
    BY <1>1, Names DEF Serving, Output!TypeOK
  <2>2. ServiceExpects = [binding |-> service.binding,
                          next |-> service.validator.next,
                          time |-> service.validator.time]
    BY <1>1 DEF ServiceExpects
  <2> QED BY <2>1, <2>2, RecordFields DEF Validator
<1>2. CASE service.phase = "activating"
  <2>1. service.bound \in Binding
    BY <1>2, Names DEF Serving, Output!TypeOK
  <2>2. ServiceExpects = Bound(service.bound)
    BY <1>2 DEF ServiceExpects
  <2> QED BY <2>1, <2>2, RecordFields
<1>3. CASE /\ ~(service.phase = "run" /\ service.binding # None)
           /\ service.phase # "activating"
  <2>1. ServiceExpects = Unbound
    BY <1>3 DEF ServiceExpects
  <2> QED BY <2>1
<1> QED BY <1>1, <1>2, <1>3

\* So is what it will expect when it has read the pipe up to any item.
LEMMA ExpectTyped ==
  ASSUME Ingress!TypeOK, Output!TypeOK, Serving
  PROVE  /\ \A i \in 0..Len(input.items) : Expect(i) \in Expectation
         /\ Expected \in Expectation /\ input.items \in Seq(Ingress!Item)
<1>1. input.items \in Seq(Ingress!Item)
  BY DEF Ingress!TypeOK
<1>2. \A i \in 0..Len(input.items) : i # 0 => input.items[i] \in Ingress!Item
  BY <1>1
<1> QED BY <1>1, <1>2, ServiceTyped, AfterTyped DEF Expect, Expected

-------------------------------------------------------------------------------
(* The input *)

\* What a step of the output process may do to its input: it stops reading for
\* good, reads nothing, or reads an item and is ready for what comes after.
Moves ==
  /\ ~input'.open => service'.phase = "exited"
  /\ \/ ~Going'
     \/ Going /\ input' = input /\ ServiceExpects' = ServiceExpects
     \/ /\ Going /\ input.items # <<>>
        /\ input' = [input EXCEPT !.items = Tail(@)]
        /\ Head(input.items).kind \in {"bind", "unit", "reset"}
        /\ ServiceExpects' = After(Head(input.items))

\* What is queued still fits while the daemon stands still.
LEMMA QueuedAgain ==
  ASSUME Queued, UNCHANGED ingressVars, Going' => Going,
         Going' => Expected' = Expected
  PROVE  Queued'
<1>1. /\ (Capturing' <=> Capturing) /\ queue' = queue /\ task' = task
      /\ capture' = capture
  BY DEF ingressVars, Capturing
<1>2. Going' => Going /\ Floor' = Floor
  BY <1>1 DEF Floor
<1> HIDE DEF Floor
<1> QED BY <1>1, <1>2 DEF Queued

\* The output process may stop reading, or read the next item: what is on its
\* way to it still fits, and so does what the daemon will write.
LEMMA MovesKeep ==
  ASSUME Typed, Protocol, UNCHANGED ingressVars, Moves
  PROVE  Protocol'
<1> DEFINE n == Len(input.items)
<1>1. capture' = capture /\ task' = task /\ queue' = queue /\ worker' = worker
  BY DEF ingressVars
<1>2. Renumbering' /\ Ends'
  BY <1>1 DEF Protocol, Renumbering, Ends, Capturing, Moves
<1>3. CASE ~Going'
  <2>1. Queued'
    BY <1>3, QueuedAgain DEF Protocol
  <2> QED BY <1>2, <1>3, <2>1 DEF Protocol, Script, Writer, Returned
<1>4. CASE Going /\ input' = input /\ ServiceExpects' = ServiceExpects
  <2>1. Expected' = Expected /\ \A i \in 0..n : Expect(i)' = Expect(i)
    BY <1>4 DEF Expected, Expect
  <2>2. Queued'
    BY <1>4, <2>1, QueuedAgain DEF Protocol
  <2>3. Writer'
    BY <1>1, <1>4, <2>1 DEF Protocol, Writer
  <2>4. Script'
    <3>1. \A i \in DOMAIN input.items : i - 1 \in 0..n
      BY ExpectTyped DEF Typed
    <3> QED BY <1>4, <2>1, <3>1 DEF Protocol, Script
  <2>5. Returned'
    BY <1>1, <1>4 DEF Protocol, Returned, Resets
  <2> QED BY <1>2, <2>2, <2>3, <2>4, <2>5 DEF Protocol
<1>5. CASE /\ Going /\ input.items # <<>>
           /\ input' = [input EXCEPT !.items = Tail(@)]
           /\ Head(input.items).kind \in {"bind", "unit", "reset"}
           /\ ServiceExpects' = After(Head(input.items))
  <2>1. /\ input.items \in Seq(Ingress!Item) /\ n \in Nat \ {0}
        /\ input'.items = Tail(input.items)
        /\ Head(input.items) = input.items[1]
    BY <1>5, ExpectTyped DEF Typed, Ingress!TypeOK
  <2>2. /\ Len(input'.items) = n - 1
        /\ \A i \in 1..n - 1 : input'.items[i] = input.items[i + 1]
        /\ DOMAIN input'.items = 1..n - 1 /\ DOMAIN input.items = 1..n
    BY <2>1
  <2>3. \A i \in 0..n - 1 : Expect(i)' = Expect(i + 1)
    BY <1>5, <2>1, <2>2 DEF Expect
  <2>4. Expected' = Expected
    BY <2>1, <2>2, <2>3 DEF Expected
  <2>5. Queued'
    BY <1>5, <2>4, QueuedAgain DEF Protocol
  <2>6. Writer'
    BY <1>1, <1>5, <2>4 DEF Protocol, Writer
  <2>7. Script'
    <3>1. ASSUME NEW i \in 1..n - 1
          PROVE  Fits(Expect(i - 1)', input'.items[i])
      <4>1. Expect(i - 1)' = Expect(i)
        BY <2>1, <2>3
      <4>2. Fits(Expect(i), input.items[i + 1])
        BY <1>5, <2>1, <2>2 DEF Protocol, Script
      <4> QED BY <2>2, <4>1, <4>2
    <3> QED BY <2>2, <3>1 DEF Script
  <2>8. Returned'
    <3>1. ASSUME NEW b, NEW i \in 0..n - 1, Resets(b, i + 1)
          PROVE  Resets(b, i)'
      <4>1. CASE worker = b
        BY <1>1, <4>1 DEF Resets
      <4>2. CASE worker # b
        <5>1. PICK j \in DOMAIN input.items :
                j > i + 1 /\ input.items[j] = [kind |-> "reset", binding |-> b]
          BY <3>1, <4>2 DEF Resets
        <5>2. /\ j - 1 \in 1..n - 1 /\ j - 1 > i
              /\ input'.items[j - 1] = input.items[j]
          BY <2>1, <2>2, <5>1
        <5> QED BY <2>2, <5>1, <5>2 DEF Resets
      <4> QED BY <4>1, <4>2
    <3> DEFINE head == input.items[1]
    <3>2. head \in Ingress!Item /\ Fits(ServiceExpects, head)
      <4>1. 1 \in DOMAIN input.items /\ Expect(0) = ServiceExpects /\ 1 - 1 = 0
        BY <2>1 DEF Expect
      <4>2. Fits(Expect(1 - 1), head)
        BY <1>5, <4>1 DEF Protocol, Script
      <4> QED BY <2>1, <4>1, <4>2
    <3>3. ASSUME NEW b, b = ServiceExpects'.binding, b # None
          PROVE  Resets(b, 0)'
      <4>1. CASE head.kind = "bind"
        <5>1. b = head.binding
          BY <1>5, <2>1, <3>2, <3>3, <4>1, AfterTyped DEF Bound
        <5>2. Resets(head.binding, 1)
          BY <1>5, <2>1, <2>2, <4>1 DEF Protocol, Returned
        <5>3. 0 \in 0..n - 1 /\ 0 + 1 = 1
          BY <2>1
        <5> QED BY <3>1, <5>1, <5>2, <5>3
      <4>2. CASE head.kind = "reset"
        BY <1>5, <2>1, <3>2, <3>3, <4>2, AfterTyped DEF Unbound
      <4>3. CASE head.kind = "unit"
        <5>1. b = head.binding /\ b = ServiceExpects.binding
          BY <1>5, <2>1, <3>2, <3>3, <4>3, AfterTyped DEF Fits
        <5>2. Resets(b, 0)
          BY <1>5, <3>3, <5>1 DEF Protocol, Returned
        <5>3. head # [kind |-> "reset", binding |-> b]
          BY <4>3
        <5>4. Resets(b, 1)
          BY <2>1, <2>2, <5>2, <5>3 DEF Resets
        <5>5. 0 \in 0..n - 1 /\ 0 + 1 = 1
          BY <2>1
        <5> QED BY <3>1, <5>1, <5>4, <5>5
      <4> QED BY <1>5, <2>1, <4>1, <4>2, <4>3
    <3>4. ASSUME NEW i \in 1..n - 1, input'.items[i].kind = "bind",
                 NEW b, b = input'.items[i].binding
          PROVE  Resets(b, i)'
      <4>1. /\ i + 1 \in DOMAIN input.items /\ i \in 0..n - 1
            /\ input'.items[i] = input.items[i + 1]
        BY <2>1, <2>2
      <4>2. Resets(b, i + 1)
        BY <1>5, <3>4, <4>1 DEF Protocol, Returned
      <4> QED BY <3>1, <4>1, <4>2
    <3> QED BY <2>2, <3>3, <3>4 DEF Returned, Resets
  <2> QED BY <1>2, <2>5, <2>6, <2>7, <2>8 DEF Protocol
<1> QED BY <1>3, <1>4, <1>5 DEF Moves

-------------------------------------------------------------------------------
(* The ingress *)

QueueItem == Record \cup {Ingress!Failure}

\* The queue's items become q: x is new, and the oldest one may be gone.
Queues(x, q) ==
  /\ Len(q) > 0 /\ q[Len(q)] = x
  /\ \E d \in {0, 1} : \A i \in 1..Len(q) - 1 :
       i + d \in DOMAIN queue.items /\ q[i] = queue.items[i + d]

\* The daemon writes an item that fits: it is the last one on its way.
LEMMA Written ==
  ASSUME Typed, NEW x \in Ingress!Item, Ingress!Write(x), UNCHANGED service
  PROVE  LET n == Len(input.items)
         IN  /\ n \in Nat /\ DOMAIN input.items = 1..n
             /\ DOMAIN input'.items = 1..n + 1
             /\ \A i \in 1..n : input'.items[i] = input.items[i]
             /\ input'.items[n + 1] = x
             /\ input' \in [open: BOOLEAN, items: Seq(Ingress!Item)]
             /\ Len(input'.items) <= PipeCapacity /\ input'.open
             /\ Expected' = After(x) /\ (Going' <=> Going)
             /\ Script /\ (Going => Fits(Expected, x)) => Script'
<1> DEFINE n == Len(input.items)
<1> DEFINE added == Append(input.items, x)
<1>1. /\ input \in [open: BOOLEAN, items: Seq(Ingress!Item)] /\ input.open
      /\ input' = [input EXCEPT !.items = added]
      /\ n < PipeCapacity /\ PipeCapacity \in Nat
  BY PathConstantsOK DEF Ingress!Write, Typed, Ingress!TypeOK
<1>2. input.items \in Seq(Ingress!Item) /\ added \in Seq(Ingress!Item)
  BY <1>1
<1> HIDE DEF added
<1>3. /\ input' \in [open: BOOLEAN, items: Seq(Ingress!Item)]
      /\ input'.items = added /\ input'.open
  BY <1>1, <1>2
<1>4. /\ input.items \in Seq(Ingress!Item) /\ n \in Nat /\ n < PipeCapacity
      /\ DOMAIN input.items = 1..n /\ PipeCapacity \in Nat
      /\ input'.items = Append(input.items, x) /\ input'.open
      /\ input' \in [open: BOOLEAN, items: Seq(Ingress!Item)]
  BY <1>1, <1>2, <1>3 DEF added
<1>5. /\ DOMAIN input'.items = 1..n + 1 /\ Len(input'.items) = n + 1
      /\ \A i \in 1..n : input'.items[i] = input.items[i]
      /\ input'.items[n + 1] = x
  BY <1>4
<1>6. /\ ServiceExpects' = ServiceExpects /\ (Going' <=> Going)
  BY DEF ServiceExpects, Going
<1>7. /\ \A i \in 0..n : Expect(i)' = Expect(i)
      /\ Expected' = After(x) /\ Expected = Expect(n)
  BY <1>4, <1>5, <1>6 DEF Expect, Expected
<1>8. ASSUME Script, Going => Fits(Expected, x), Going, NEW i \in 1..n + 1
      PROVE  Fits(Expect(i - 1)', input'.items[i])
  <2>1. CASE i \in 1..n
    <3>1. i - 1 \in 0..n /\ Expect(i - 1)' = Expect(i - 1)
      BY <1>4, <1>7, <2>1
    <3>2. Fits(Expect(i - 1), input.items[i])
      BY <1>4, <1>8, <2>1 DEF Script
    <3> QED BY <1>5, <2>1, <3>1, <3>2
  <2>2. CASE i = n + 1
    <3>1. i - 1 = n /\ n \in 0..n
      BY <1>4, <2>2
    <3>2. Expect(i - 1)' = Expected
      BY <1>7, <3>1
    <3> QED BY <1>5, <1>8, <2>2, <3>2
  <2> QED BY <1>4, <2>1, <2>2
<1>9. Script /\ (Going => Fits(Expected, x)) => Script'
  BY <1>5, <1>6, <1>8 DEF Script
<1> QED BY <1>4, <1>5, <1>6, <1>7, <1>9

\* Without a write the input goes on as it was.
LEMMA Unwritten ==
  ASSUME UNCHANGED <<service, input>>
  PROVE  /\ Expected' = Expected /\ (Going' <=> Going)
         /\ Script => Script'
<1>1. Expected' = Expected /\ (Going' <=> Going)
  BY DEF Expected, Expect, ServiceExpects, Going
<1>2. Script => Script'
  BY <1>1 DEF Script, Expect, ServiceExpects
<1> QED BY <1>1, <1>2

\* FreshMediaSender::send: dropped, alone in the queue, or at its end.
LEMMA SendFacts ==
  ASSUME Ingress!TypeOK, NEW x \in QueueItem, NEW q, q = Ingress!Send(x)
  PROVE  /\ q \in [items: Seq(QueueItem), closed: BOOLEAN]
         /\ Len(q.items) <= QueueCapacity
         /\ \/ q = queue
            \/ x.kind # "unit" /\ q.items = <<x>>
            \/ x.kind = "unit" /\ Queues(x, q.items)
<1>1. /\ queue \in [items: Seq(QueueItem), closed: BOOLEAN]
      /\ Len(queue.items) <= QueueCapacity /\ QueueCapacity \in Nat \ {0}
      /\ queue.items \in Seq(QueueItem) /\ Len(queue.items) \in Nat
  BY Names, PathConstantsOK DEF Ingress!TypeOK, QueueItem
<1> HIDE DEF QueueItem
<1>2. CASE queue.closed
  BY <1>1, <1>2 DEF Ingress!Send
<1>3. CASE ~queue.closed /\ x.kind # "unit"
  <2>1. q = [items |-> <<x>>, closed |-> TRUE]
    BY <1>3 DEF Ingress!Send
  <2>2. <<x>> \in Seq(QueueItem) /\ Len(<<x>>) = 1
    OBVIOUS
  <2> QED BY <1>1, <1>3, <2>1, <2>2
<1>4. CASE ~queue.closed /\ x.kind = "unit"
  <2> DEFINE room == IF Len(queue.items) < QueueCapacity THEN queue.items
                     ELSE Tail(queue.items)
             d == IF Len(queue.items) < QueueCapacity THEN 0 ELSE 1
  <2>1. q = [queue EXCEPT !.items = Append(room, x)]
    BY <1>4 DEF Ingress!Send
  <2>2. /\ room \in Seq(QueueItem) /\ Len(room) = Len(queue.items) - d
        /\ Len(room) < QueueCapacity /\ Len(room) \in Nat
        /\ \A i \in 1..Len(room) : /\ i + d \in DOMAIN queue.items
                                   /\ room[i] = queue.items[i + d]
        /\ d \in {0, 1}
    BY <1>1
  <2> HIDE DEF room, d
  <2>3. /\ Append(room, x) \in Seq(QueueItem)
        /\ Len(Append(room, x)) = Len(room) + 1
        /\ \A i \in 1..Len(room) : Append(room, x)[i] = room[i]
        /\ Append(room, x)[Len(room) + 1] = x
    BY <2>2
  <2>4. /\ q.items = Append(room, x)
        /\ q \in [items: Seq(QueueItem), closed: BOOLEAN]
    BY <1>1, <2>1, <2>3
  <2>5. Len(q.items) - 1 = Len(room) /\ Len(q.items) <= QueueCapacity
        /\ Len(q.items) > 0 /\ q.items[Len(q.items)] = x
    BY <1>1, <2>2, <2>3, <2>4
  <2>6. \A i \in 1..Len(q.items) - 1 :
          i + d \in DOMAIN queue.items /\ q.items[i] = queue.items[i + d]
    BY <2>2, <2>3, <2>4, <2>5
  <2> QED BY <1>4, <2>2, <2>4, <2>5, <2>6 DEF Queues
<1> QED BY <1>2, <1>3, <1>4

IngressKept == Protocol' /\ Ingress!TypeOK'

\* The steps that write nothing: what is on its way stays as it is.
LEMMA UnwrittenKeeps ==
  ASSUME Typed, Protocol, UNCHANGED <<service, input, worker>>,
         Writer', Renumbering', Queued', Ends', Ingress!TypeOK'
  PROVE  IngressKept
BY Unwritten DEF Typed, Protocol, Returned, Resets, Going, ServiceExpects,
                 IngressKept

\* The record that comes next in a queue of the capture's records.
LEMMA SentKeeps ==
  ASSUME Typed, Protocol, task.running, NEW x \in QueueItem, NEW v,
         queue' = Ingress!Send(x),
         task' = [running |-> x.kind = "unit", validator |-> v],
         v \in Validator, v.binding = capture.binding,
         x.kind = "unit" =>
           /\ x.binding = capture.binding /\ v.time = x.time
           /\ task.validator.time <= x.time,
         UNCHANGED <<capture, worker, input, service>>
  PROVE  IngressKept
<1>1. /\ Capturing /\ task.validator # None /\ task.validator \in Validator
      /\ task.validator.binding = capture.binding
      /\ task.validator.time \in Nat
  BY Names, RecordConstantsOK
     DEF Protocol, Ends, Queued, Typed, Ingress!TypeOK, Validator, Time
<1>2. /\ queue' \in [items: Seq(QueueItem), closed: BOOLEAN]
      /\ Len(queue'.items) <= QueueCapacity
      /\ \/ queue' = queue
         \/ x.kind # "unit" /\ queue'.items = <<x>>
         \/ x.kind = "unit" /\ Queues(x, queue'.items)
  <2>1. Ingress!TypeOK
    BY DEF Typed
  <2>2. queue' \in [items: Seq(QueueItem), closed: BOOLEAN]
    BY <2>1, SendFacts, Zenon
  <2>3. Len(queue'.items) <= QueueCapacity
    BY <2>1, SendFacts, Zenon
  <2>4. \/ queue' = queue
        \/ x.kind # "unit" /\ queue'.items = <<x>>
        \/ x.kind = "unit" /\ Queues(x, queue'.items)
    BY <2>1, SendFacts, Zenon
  <2> QED BY <2>2, <2>3, <2>4
<1>3. Ingress!TypeOK'
  BY <1>2, Names DEF Typed, Ingress!TypeOK, QueueItem
<1>4. Writer' /\ Renumbering' /\ Ends' /\ (Going' <=> Going) /\ Capturing'
      /\ Floor' = Floor /\ capture' = capture
  <2>1. Expected' = Expected /\ (Going' <=> Going)
    BY Unwritten
  <2>2. Writer'
    BY <2>1 DEF Protocol, Writer
  <2>3. Renumbering' /\ Ends' /\ Capturing'
    BY <1>1 DEF Protocol, Renumbering, Ends, Capturing
  <2>4. Floor' = Floor
    BY <2>1 DEF Floor
  <2> QED BY <2>1, <2>2, <2>3, <2>4
<1>5. Queued'
  <2> DEFINE Rows(q, low, high) ==
        \A i \in DOMAIN q : q[i].kind = "unit" =>
          /\ q[i].binding = capture.binding
          /\ Going => low <= q[i].time
          /\ q[i].time <= high
          /\ \A j \in DOMAIN q : i < j /\ q[j].kind = "unit" =>
               q[i].time <= q[j].time
  <2>1. Rows(queue.items, Floor, task.validator.time)
    BY <1>1 DEF Protocol, Queued
  <2>2. Going => Floor <= task.validator.time
    BY <1>1 DEF Protocol, Queued
  <2>3. Going => Floor \in Nat
    BY ExpectTyped, RecordFields, RecordConstantsOK
       DEF Typed, Floor, Protocol, Renumbering, Expectation, Time
  <2>4. queue.items \in Seq(QueueItem)
        /\ \A i \in DOMAIN queue.items :
             queue.items[i].kind = "unit" => queue.items[i].time \in Nat
    <3>1. queue.items \in Seq(QueueItem)
      BY Names DEF Typed, Ingress!TypeOK, QueueItem
    <3>2. \A y \in QueueItem : y.kind = "unit" => y.time \in Nat
      BY RecordFields, RecordConstantsOK DEF QueueItem, Ingress!Failure, Time
    <3> QED BY <3>1, <3>2
  <2>5. CASE x.kind = "unit"
    <3>1. v.time = x.time /\ x.time \in Nat /\ v # None
      BY <2>5, RecordConstantsOK, NoneIsNothing DEF Validator, Time
    <3>2. Rows(queue'.items, Floor, x.time)
      <4>1. CASE queue' = queue
        BY <1>1, <2>1, <2>4, <2>5, <3>1, <4>1
      <4>2. CASE queue' # queue
        <5>1. PICK d \in {0, 1} : \A i \in 1..Len(queue'.items) - 1 :
                 i + d \in DOMAIN queue.items
                   /\ queue'.items[i] = queue.items[i + d]
          BY <1>2, <2>5, <4>2 DEF Queues
        <5>2. /\ DOMAIN queue'.items = 1..Len(queue'.items)
              /\ Len(queue'.items) \in Nat \ {0}
              /\ queue'.items[Len(queue'.items)] = x
          BY <1>2, <2>5, <4>2 DEF Queues
        <5>3. ASSUME NEW i \in 1..Len(queue'.items) - 1,
                     queue'.items[i].kind = "unit"
              PROVE  /\ queue'.items[i].binding = capture.binding
                     /\ Going => Floor <= queue'.items[i].time
                     /\ queue'.items[i].time <= x.time
          <6> DEFINE y == queue.items[i + d]
          <6>1. i + d \in DOMAIN queue.items /\ queue'.items[i] = y
            BY <5>1
          <6>2. y.time \in Nat
            BY <2>4, <5>3, <6>1
          <6>3. /\ y.binding = capture.binding
                /\ Going => Floor <= y.time
                /\ y.time <= task.validator.time
            BY <2>1, <5>3, <6>1
          <6>4. task.validator.time <= x.time
            BY <2>5
          <6> HIDE DEF y
          <6>5. y.time <= x.time
            BY <1>1, <3>1, <6>2, <6>3, <6>4
          <6>6. queue'.items[i].binding = capture.binding
            BY <6>1, <6>3
          <6>7. Going => Floor <= queue'.items[i].time
            BY <6>1, <6>3, Zenon
          <6>8. queue'.items[i].time <= x.time
            BY <6>1, <6>5
          <6> QED BY <6>6, <6>7, <6>8
        <5>4. ASSUME NEW i \in 1..Len(queue'.items) - 1,
                     NEW j \in 1..Len(queue'.items) - 1, i < j,
                     queue'.items[i].kind = "unit",
                     queue'.items[j].kind = "unit"
              PROVE  queue'.items[i].time <= queue'.items[j].time
          <6>1. i + d < j + d /\ i + d \in DOMAIN queue.items
                /\ j + d \in DOMAIN queue.items
            BY <5>1, <5>4
          <6> QED BY <2>1, <5>1, <5>4, <6>1
        <5>5. Going => Floor <= x.time
          BY <1>1, <2>2, <2>3, <2>5, <3>1
        <5>6. x.binding = capture.binding /\ x.time <= x.time
          BY <2>5, <3>1
        <5>7. \A i \in DOMAIN queue'.items :
                i \in 1..Len(queue'.items) - 1 \/ i = Len(queue'.items)
          BY <5>2
        <5> QED BY <5>2, <5>3, <5>4, <5>5, <5>6, <5>7
      <4> QED BY <4>1, <4>2
    <3>3. Going => Floor <= x.time
      BY <1>1, <2>2, <2>3, <2>5, <3>1
    <3> HIDE DEF Rows, Floor
    <3>4. task'.validator = v /\ v.binding = capture.binding
      OBVIOUS
    <3> QED BY <1>4, <3>1, <3>2, <3>3, <3>4 DEF Queued, Rows
  <2>6. CASE x.kind # "unit"
    <3>1. ~task'.running
      BY <2>6
    <3>2. queue'.items = <<x>> \/ queue'.items = queue.items
      BY <1>2, <2>6
    <3>3. CASE queue'.items = <<x>>
      BY <2>6, <3>1, <3>3 DEF Queued
    <3>4. CASE queue'.items = queue.items
      <4> HIDE DEF Rows, Floor
      <4> QED BY <1>4, <2>1, <3>1, <3>4 DEF Queued, Rows
    <3> QED BY <3>2, <3>3, <3>4
  <2> QED BY <2>5, <2>6
<1> QED BY <1>3, <1>4, <1>5, UnwrittenKeeps

\* The task receives a record, or fails.
LEMMA MediaKeeps ==
  ASSUME Typed, Protocol, UNCHANGED outputVars,
         \/ \E r \in Ingress!Record : Ingress!MediaRecord(r)
         \/ Ingress!MediaFails
  PROVE  IngressKept
<1>1. service' = service
  BY DEF outputVars
<1>2. task.running => /\ task.validator \in Validator
                      /\ task.validator.binding = capture.binding
  BY Names DEF Typed, Ingress!TypeOK, Protocol, Ends, Queued
<1>3. task \in [running: BOOLEAN, validator: Validator \cup {None}]
  BY Names DEF Typed, Ingress!TypeOK
<1>4. ASSUME task.running, queue' = Ingress!Send(Ingress!Failure),
             task' = [task EXCEPT !.running = FALSE],
             UNCHANGED <<capture, worker, input>>
      PROVE  IngressKept
  <2> DEFINE x == Ingress!Failure
  <2>1. x \in QueueItem /\ x.kind # "unit"
    BY DEF QueueItem, Ingress!Failure
  <2>2. task' = [running |-> x.kind = "unit", validator |-> task.validator]
    BY <1>3, <1>4, <2>1
  <2> HIDE DEF x
  <2>3. queue' = Ingress!Send(x)
    BY <1>4 DEF x
  <2> QED BY <1>1, <1>2, <1>4, <2>1, <2>2, <2>3, SentKeeps
<1>5. ASSUME NEW r \in Ingress!Record, Ingress!MediaRecord(r)
      PROVE  IngressKept
  <2>1. task.running /\ UNCHANGED <<capture, worker, input>> /\ r \in Record
    BY <1>5, Names DEF Ingress!MediaRecord
  <2>2. CASE Accepts(task.validator, r)
    <3> DEFINE v == Commit(task.validator, r)
    <3>1. /\ queue' = Ingress!Send(r)
          /\ task' = [running |-> r.kind = "unit", validator |-> v]
      BY <1>5, <2>2, Names DEF Ingress!MediaRecord
    <3>2. /\ v \in Validator /\ v.binding = capture.binding
          /\ r.kind = "unit" =>
               /\ r.binding = capture.binding /\ v.time = r.time
               /\ task.validator.time <= r.time
      <4>1. r.sequence + 1 \in 0..MaxSequence + 1 /\ r.time \in Time
        BY <2>1, RecordFields
      <4> QED BY <1>2, <2>1, <2>2, <4>1 DEF Commit, Validator, Accepts, Time
    <3>3. r \in QueueItem
      BY <2>1 DEF QueueItem
    <3> HIDE DEF v
    <3> QED BY <1>1, <2>1, <3>1, <3>2, <3>3, SentKeeps
  <2>3. CASE ~Accepts(task.validator, r)
    BY <1>4, <1>5, <2>1, <2>3, Names DEF Ingress!MediaRecord
  <2> QED BY <2>2, <2>3
<1>6. CASE Ingress!MediaFails
  BY <1>4, <1>6 DEF Ingress!MediaFails
<1> QED BY <1>5, <1>6

\* A capture starts: its Bind is written while nothing is bound.
LEMMA StartKeeps ==
  ASSUME Typed, Protocol, UNCHANGED outputVars, Ingress!StartCapture
  PROVE  IngressKept
<1> DEFINE b == capture.binding + 1
           x == [kind |-> "bind", binding |-> b]
<1>1. /\ capture.step = "idle" /\ b \in Binding /\ worker = None
      /\ Ingress!Write(x) /\ worker' = b
      /\ capture' = [step |-> "loop", binding |-> b, sequence |-> 0,
                     record |-> None]
      /\ task' = [running |-> TRUE, validator |-> NewValidator(b)]
      /\ queue' = [items |-> <<>>, closed |-> FALSE]
      /\ service' = service
  BY Names DEF Ingress!StartCapture, outputVars
<1> HIDE DEF b
<1>2. x \in Ingress!Item /\ x.kind = "bind" /\ x.binding = b
  BY <1>1, Names DEF Ingress!Item, Ingress!Control
<1> HIDE DEF x
<1>3. /\ After(x) = Bound(b) /\ b \in 1..MaxCaptures /\ b # None
      /\ MaxCaptures \in Nat
  BY <1>1, <1>2, AfterTyped, RecordFields, RecordConstantsOK
<1>4. Going => Expected.binding = None
  BY <1>1 DEF Protocol, Writer
<1>5. Going => Fits(Expected, x)
  BY <1>2, <1>4 DEF Fits
<1> DEFINE n == Len(input.items)
<1>6. /\ n \in Nat /\ DOMAIN input.items = 1..n
      /\ DOMAIN input'.items = 1..n + 1
      /\ \A i \in 1..n : input'.items[i] = input.items[i]
      /\ input'.items[n + 1] = x
      /\ input' \in [open: BOOLEAN, items: Seq(Ingress!Item)]
      /\ Len(input'.items) <= PipeCapacity /\ input'.open
      /\ Expected' = Bound(b) /\ (Going' <=> Going)
      /\ Script'
  BY <1>1, <1>2, <1>3, <1>5, Written DEF Protocol
<1>7. Writer' /\ Renumbering' /\ Ends'
  BY <1>1, <1>3, <1>6 DEF Writer, Renumbering, Ends, Capturing, Bound
<1>8. Queued'
  <2>1. Floor' = 0 /\ task'.validator.time = 0 /\ task'.validator.binding = b
    BY <1>1, <1>6 DEF Floor, Bound, NewValidator
  <2>2. NewValidator(b) \in Validator
    BY <1>1, RecordConstantsOK DEF NewValidator, Validator, Time
  <2>3. task'.validator # None
    BY <1>1, <2>2, NoneIsNothing
  <2> QED BY <1>1, <2>1, <2>3 DEF Queued
<1>9. Ingress!TypeOK'
  <2>1. NewValidator(b) \in Validator
    BY <1>1, RecordConstantsOK DEF NewValidator, Validator, Time
  <2> QED BY <1>1, <1>3, <1>6, <2>1, Names, RecordConstantsOK, PathConstantsOK
          DEF Ingress!TypeOK, Sequence
<1>10. Returned'
  <2>1. ASSUME NEW c, c # None, NEW i \in 0..n, Resets(c, i)
        PROVE  Resets(c, i)'
    BY <1>1, <1>6, <2>1 DEF Resets
  <2>2. ServiceExpects' = ServiceExpects
    BY <1>1 DEF ServiceExpects
  <2>3. ASSUME Going', NEW c, c = ServiceExpects'.binding, c # None
        PROVE  Resets(c, 0)'
    <3>1. Resets(c, 0) /\ 0 \in 0..n
      BY <1>6, <2>2, <2>3 DEF Protocol, Returned
    <3> QED BY <2>1, <2>3, <3>1
  <2>4. ASSUME Going', NEW i \in 1..n + 1, input'.items[i].kind = "bind",
               NEW c, c = input'.items[i].binding
        PROVE  Resets(c, i)'
    <3>1. CASE i = n + 1
      BY <1>1, <1>2, <1>6, <2>4, <3>1 DEF Resets
    <3>2. CASE i # n + 1
      <4>1. i \in 1..n /\ i \in 0..n /\ input'.items[i] = input.items[i]
        BY <1>6, <2>4, <3>2
      <4>2. Resets(c, i)
        BY <1>6, <2>4, <4>1 DEF Protocol, Returned
      <4>3. input.items[i] \in Ingress!Item
        BY <1>6, <4>1 DEF Typed, Ingress!TypeOK
      <4>4. c # None
        BY <2>4, <4>1, <4>3, ItemKinds, RecordFields
      <4> QED BY <2>1, <4>1, <4>2, <4>4
    <3> QED BY <3>1, <3>2
  <2> QED BY <1>6, <2>3, <2>4 DEF Returned, Resets
<1> QED BY <1>6, <1>7, <1>8, <1>9, <1>10 DEF IngressKept, Protocol

\* Whatever is written while the service goes on leaves every binding with its
\* Reset: it is the daemon's own, or the Reset is what is written.
LEMMA WrittenReturned ==
  ASSUME Typed, Protocol, NEW x \in Ingress!Item, Ingress!Write(x),
         UNCHANGED service, x.kind # "bind",
         Going => \/ worker' = worker
                  \/ x = [kind |-> "reset", binding |-> worker]
  PROVE  Returned'
<1> DEFINE n == Len(input.items)
<1>1. /\ n \in Nat /\ DOMAIN input.items = 1..n
      /\ DOMAIN input'.items = 1..n + 1
      /\ \A i \in 1..n : input'.items[i] = input.items[i]
      /\ input'.items[n + 1] = x /\ (Going' <=> Going)
  BY Written
<1>2. ASSUME Going, NEW c, NEW i \in 0..n, Resets(c, i)
      PROVE  Resets(c, i)'
  <2>1. CASE worker = c
    BY <1>1, <1>2, <2>1 DEF Resets
  <2>2. CASE worker # c
    BY <1>1, <1>2, <2>2 DEF Resets
  <2> QED BY <2>1, <2>2
<1>3. ASSUME Going', NEW c, c = ServiceExpects'.binding, c # None
      PROVE  Resets(c, 0)'
  <2>1. Going /\ ServiceExpects' = ServiceExpects
    BY <1>1, <1>3 DEF ServiceExpects
  <2>2. Resets(c, 0) /\ 0 \in 0..n
    BY <1>1, <1>3, <2>1 DEF Protocol, Returned
  <2> QED BY <1>2, <2>1, <2>2
<1>4. ASSUME Going', NEW i \in 1..n + 1, input'.items[i].kind = "bind",
             NEW c, c = input'.items[i].binding
      PROVE  Resets(c, i)'
  <2>1. i \in 1..n /\ i \in 0..n /\ input'.items[i] = input.items[i] /\ Going
    BY <1>1, <1>4
  <2>2. Resets(c, i)
    BY <1>1, <1>4, <2>1 DEF Protocol, Returned
  <2> QED BY <1>2, <2>1, <2>2
<1> QED BY <1>1, <1>3, <1>4 DEF Returned, Resets

\* The loop ends: its records are dropped and the media task is aborted.
LEMMA EndLoopKeeps ==
  ASSUME Typed, Protocol, UNCHANGED <<service, input, worker>>,
         Capturing, Ingress!EndLoop,
         queue' \in [items: Seq(QueueItem), closed: BOOLEAN],
         Len(queue'.items) <= QueueCapacity
  PROVE  IngressKept
<1>1. /\ capture' = [capture EXCEPT !.step = "ending", !.record = None]
      /\ task' = [task EXCEPT !.running = FALSE]
  BY DEF Ingress!EndLoop
<1>2. /\ capture'.step = "ending" /\ capture'.binding = capture.binding
      /\ task'.running = FALSE /\ ~Capturing'
  BY <1>1 DEF Typed, Ingress!TypeOK, Capturing
<1>3. Expected' = Expected /\ (Going' <=> Going)
  BY Unwritten
<1>4. Writer'
  BY <1>2, <1>3 DEF Protocol, Writer, Capturing
<1>5. Renumbering' /\ Queued' /\ Ends'
  BY <1>2 DEF Protocol, Renumbering, Queued, Ends, Capturing
<1>6. Ingress!TypeOK'
  BY <1>1, Names DEF Typed, Ingress!TypeOK, QueueItem
<1> QED BY <1>4, <1>5, <1>6, UnwrittenKeeps

\* The loop ends without taking a record.
LEMMA LoopEndsKeep ==
  ASSUME Typed, Protocol, UNCHANGED outputVars,
         Ingress!WriteFails \/ Ingress!StopCapture
  PROVE  IngressKept
<1>1. /\ Capturing /\ Ingress!EndLoop
      /\ UNCHANGED <<service, input, worker, queue>>
  BY DEF Ingress!WriteFails, Ingress!StopCapture, Capturing, outputVars
<1>2. queue \in [items: Seq(QueueItem), closed: BOOLEAN]
      /\ Len(queue.items) <= QueueCapacity
  BY Names DEF Typed, Ingress!TypeOK, QueueItem
<1> QED BY <1>1, <1>2, EndLoopKeeps

\* The loop takes a record and gives it the next number.
LEMMA LoopRecvKeeps ==
  ASSUME Typed, Protocol, UNCHANGED outputVars, Ingress!LoopRecv
  PROVE  IngressKept
<1> DEFINE q == queue.items
           x == Head(q)
           m == Len(q)
<1>1. /\ UNCHANGED <<service, input, worker>> /\ Capturing
      /\ capture.step = "loop" /\ q # <<>>
      /\ queue' = [queue EXCEPT !.items = Tail(q)]
  BY DEF Ingress!LoopRecv, Capturing, outputVars
<1>2. /\ queue \in [items: Seq(QueueItem), closed: BOOLEAN]
      /\ m <= QueueCapacity /\ q \in Seq(QueueItem) /\ QueueCapacity \in Nat
      /\ capture.binding \in 0..MaxCaptures /\ capture.sequence \in Sequence
      /\ task \in [running: BOOLEAN, validator: Validator \cup {None}]
  BY Names, PathConstantsOK DEF Typed, Ingress!TypeOK, QueueItem
<1>3. /\ x \in QueueItem /\ x = q[1] /\ m \in Nat \ {0}
      /\ Tail(q) \in Seq(QueueItem) /\ Len(Tail(q)) = m - 1
      /\ \A i \in 1..m - 1 : Tail(q)[i] = q[i + 1]
      /\ DOMAIN q = 1..m /\ DOMAIN Tail(q) = 1..m - 1
  BY <1>1, <1>2
<1> HIDE DEF x, QueueItem, q
<1>4. /\ queue' \in [items: Seq(QueueItem), closed: BOOLEAN]
      /\ queue'.items = Tail(q) /\ Len(queue'.items) <= QueueCapacity
  <2> DEFINE rest == Tail(q)
  <2>1. rest \in Seq(QueueItem) /\ Len(rest) <= QueueCapacity
    BY <1>2, <1>3
  <2>2. queue' = [queue EXCEPT !.items = rest]
    BY <1>1
  <2> HIDE DEF rest
  <2>3. queue' \in [items: Seq(QueueItem), closed: BOOLEAN]
        /\ queue'.items = rest
    BY <1>2, <2>1, <2>2
  <2> QED BY <2>1, <2>3 DEF rest
<1>5. CASE ~(x.kind = "unit" /\ capture.sequence < MaxSequence)
  <2>1. Ingress!EndLoop
    BY <1>5 DEF Ingress!LoopRecv, x, q
  <2> QED BY <1>1, <1>4, <2>1, EndLoopKeeps
<1>6. CASE x.kind = "unit" /\ capture.sequence < MaxSequence
  <2> DEFINE r == Ingress!Renumbered(x)
  <2>1. /\ capture' = [capture EXCEPT !.step = "writing",
                                      !.sequence = capture.sequence + 1,
                                      !.record = r]
        /\ task' = task
    BY <1>6 DEF Ingress!LoopRecv, x, q
  <2>2. x \in Record /\ capture.sequence \in 0..MaxSequence
    BY <1>2, <1>3, <1>6 DEF QueueItem, Ingress!Failure, Sequence
  <2>3. /\ r \in Record /\ r.kind = "unit" /\ r.sequence = capture.sequence
        /\ r.binding = x.binding /\ r.time = x.time /\ r \in Ingress!Item
    BY <1>6, <2>2, Names DEF Ingress!Renumbered, Record, Sequence, Ingress!Item
  <2> HIDE DEF r
  <2>4. /\ capture'.step = "writing" /\ capture'.record = r
        /\ capture'.sequence = r.sequence + 1
        /\ capture'.binding = capture.binding /\ Capturing'
    BY <2>1, <2>3 DEF Typed, Ingress!TypeOK, Capturing
  <2>5. Expected' = Expected /\ (Going' <=> Going)
    BY <1>1, Unwritten
  <2>6. /\ x.binding = capture.binding
        /\ Going => Expected.time <= x.time
        /\ task.running => x.time <= task.validator.time
        /\ \A j \in 2..m : q[j].kind = "unit" => x.time <= q[j].time
    <3>1. Floor = Expected.time
      BY <1>1 DEF Floor
    <3> QED BY <1>1, <1>3, <1>6, <3>1 DEF Protocol, Queued, q
  <2>7. Writer'
    <3>1. Going => /\ worker = capture.binding
                   /\ Expected.binding = capture.binding
                   /\ Expected.next = capture.sequence
      BY <1>1 DEF Protocol, Writer
    <3>2. Going => Fits(Expected, r)
      BY <2>3, <2>6, <3>1 DEF Fits
    <3> QED BY <1>1, <2>4, <2>5, <3>1, <3>2 DEF Writer
  <2>8. Renumbering' /\ Ends'
    BY <1>1, <2>1, <2>3, <2>4 DEF Protocol, Renumbering, Ends
  <2>9. Queued'
    <3>1. Floor' = x.time
      BY <2>3, <2>4 DEF Floor
    <3>2. ASSUME NEW i \in 1..m - 1, Tail(q)[i].kind = "unit"
          PROVE  /\ Tail(q)[i].binding = capture.binding
                 /\ x.time <= Tail(q)[i].time
                 /\ task.running => Tail(q)[i].time <= task.validator.time
                 /\ \A j \in 1..m - 1 : i < j /\ Tail(q)[j].kind = "unit" =>
                      Tail(q)[i].time <= Tail(q)[j].time
      <4>1. i + 1 \in 2..m /\ i + 1 \in 1..m /\ Tail(q)[i] = q[i + 1]
        BY <1>3
      <4>2. x.time <= Tail(q)[i].time
        BY <2>6, <3>2, <4>1
      <4>3. /\ Tail(q)[i].binding = capture.binding
            /\ task.running => Tail(q)[i].time <= task.validator.time
        BY <1>1, <1>3, <3>2, <4>1 DEF Protocol, Queued, q
      <4>4. ASSUME NEW j \in 1..m - 1, i < j, Tail(q)[j].kind = "unit"
            PROVE  Tail(q)[i].time <= Tail(q)[j].time
        <5>1. j + 1 \in 1..m /\ i + 1 < j + 1 /\ Tail(q)[j] = q[j + 1]
          BY <1>3, <4>4
        <5> QED BY <1>1, <1>3, <3>2, <4>1, <4>4, <5>1 DEF Protocol, Queued, q
      <4> QED BY <4>2, <4>3, <4>4
    <3>3. task.running => /\ task.validator # None
                          /\ task.validator.binding = capture.binding
      BY <1>1 DEF Protocol, Queued
    <3> HIDE DEF Floor
    <3> QED BY <1>3, <1>4, <2>1, <2>4, <2>6, <3>1, <3>2, <3>3 DEF Queued
  <2>10. Ingress!TypeOK'
    <3>1. capture.sequence + 1 \in Sequence
      BY <1>6, <2>2, RecordConstantsOK DEF Sequence
    <3> QED BY <1>1, <1>4, <2>1, <2>3, <3>1, Names
            DEF Typed, Ingress!TypeOK, QueueItem
  <2> QED BY <1>1, <2>7, <2>8, <2>9, <2>10, UnwrittenKeeps
<1> QED BY <1>5, <1>6

\* The record that was taken is written.
LEMMA WriteFrameKeeps ==
  ASSUME Typed, Protocol, UNCHANGED outputVars, Ingress!WriteFrame
  PROVE  IngressKept
<1> DEFINE x == capture.record
           n == Len(input.items)
<1>1. /\ capture.step = "writing" /\ Ingress!Write(x)
      /\ capture' = [capture EXCEPT !.step = "loop", !.record = None]
      /\ UNCHANGED <<task, queue, worker, service>>
  BY DEF Ingress!WriteFrame, outputVars
<1>2. /\ x \in Record /\ x.kind = "unit" /\ x.sequence + 1 = capture.sequence
  BY <1>1 DEF Protocol, Renumbering
<1>3. x \in Ingress!Item
  BY <1>2, Names DEF Ingress!Item
<1>4. Going => Fits(Expected, x) /\ worker = capture.binding
               /\ Expected.binding = capture.binding
  BY <1>1 DEF Protocol, Writer
<1>5. After(x) = [binding |-> x.binding, next |-> x.sequence + 1,
                  time |-> x.time]
  BY <1>2, <1>3, AfterTyped
<1>6. /\ input' \in [open: BOOLEAN, items: Seq(Ingress!Item)]
      /\ Len(input'.items) <= PipeCapacity /\ input'.open
      /\ Expected' = After(x) /\ (Going' <=> Going) /\ Script'
  BY <1>1, <1>3, <1>4, Written DEF Protocol
<1>7. /\ capture'.step = "loop" /\ capture'.binding = capture.binding
      /\ capture'.sequence = capture.sequence /\ Capturing /\ Capturing'
      /\ capture' \in [step: {"idle", "loop", "writing", "ending", "gone"},
                  binding: 0..MaxCaptures, sequence: Sequence,
                  record: Record \cup {None}]
  BY <1>1, Names DEF Typed, Ingress!TypeOK, Capturing
<1>8. Writer'
  <2>1. Going => x.binding = capture.binding
    BY <1>2, <1>4 DEF Fits
  <2> QED BY <1>1, <1>2, <1>4, <1>5, <1>6, <1>7, <2>1 DEF Writer
<1>9. Renumbering' /\ Ends'
  BY <1>1, <1>6, <1>7 DEF Protocol, Renumbering, Ends
<1>10. Queued'
  <2>1. Floor = x.time /\ Floor' = x.time
    BY <1>1, <1>5, <1>6, <1>7 DEF Floor
  <2> HIDE DEF Floor, x
  <2> QED BY <1>1, <1>6, <1>7, <2>1 DEF Protocol, Queued
<1>11. Ingress!TypeOK'
  BY <1>1, <1>6, <1>7, Names DEF Typed, Ingress!TypeOK
<1>12. Returned'
  BY <1>1, <1>2, <1>3, WrittenReturned
<1> QED BY <1>6, <1>8, <1>9, <1>10, <1>11, <1>12 DEF IngressKept, Protocol

\* The capture is over: nothing is left of it but its Reset.
LEMMA ResetKeeps ==
  ASSUME Typed, Protocol, UNCHANGED outputVars, Ingress!ResetOutput
  PROVE  IngressKept
<1>1. /\ capture.step = "ending"
      /\ capture' = [capture EXCEPT !.step = "idle"]
      /\ queue' = [items |-> <<>>, closed |-> TRUE]
      /\ UNCHANGED <<task, service>>
  BY DEF Ingress!ResetOutput, outputVars
<1>2. capture' \in [step: {"idle", "loop", "writing", "ending", "gone"},
                    binding: 0..MaxCaptures, sequence: Sequence,
                    record: Record \cup {None}]
      /\ capture'.step = "idle" /\ ~task.running
  BY <1>1, Names DEF Typed, Ingress!TypeOK, Protocol, Ends, Capturing
<1>3. Renumbering' /\ Queued'
  BY <1>1, <1>2 DEF Renumbering, Queued, Capturing
<1>4. CASE ~input.open /\ UNCHANGED <<worker, input>>
  <2>1. ~Going /\ ~Going'
    BY <1>1, <1>4 DEF Protocol, Ends, Going
  <2>2. Writer' /\ Ends'
    BY <1>1, <1>2, <1>4, <2>1 DEF Protocol, Writer, Ends
  <2>3. Ingress!TypeOK'
    BY <1>1, <1>2, <1>4, Names, PathConstantsOK DEF Typed, Ingress!TypeOK
  <2> QED BY <1>1, <1>3, <1>4, <2>2, <2>3, UnwrittenKeeps
<1>5. CASE /\ Ingress!Write([kind |-> "reset", binding |-> capture.binding])
           /\ worker' = None
  <2> DEFINE x == [kind |-> "reset", binding |-> capture.binding]
  <2>1. Going => worker = capture.binding /\ Expected.binding = capture.binding
    BY <1>1 DEF Protocol, Writer
  <2>2. x \in Ingress!Item
    <3>1. capture.binding \in 0..MaxCaptures /\ capture.binding # 0
      BY <1>1 DEF Protocol, Ends, Typed, Ingress!TypeOK
    <3>2. capture.binding \in Ingress!Binding
      BY <3>1, Names, RecordConstantsOK DEF Binding
    <3> QED BY <3>2 DEF Ingress!Item, Ingress!Control
  <2> HIDE DEF x
  <2>3. After(x) = Unbound
    BY <2>2, AfterTyped DEF x
  <2>4. Going => Fits(Expected, x)
    BY <2>1 DEF Fits, x
  <2>5. /\ input' \in [open: BOOLEAN, items: Seq(Ingress!Item)]
        /\ Len(input'.items) <= PipeCapacity /\ input'.open
        /\ Expected' = Unbound /\ (Going' <=> Going) /\ Script'
    BY <1>1, <1>5, <2>2, <2>3, <2>4, Written DEF Protocol, x
  <2>6. Writer' /\ Ends'
    BY <1>1, <1>2, <1>5, <2>5 DEF Writer, Ends, Unbound
  <2>7. Returned'
    BY <1>1, <1>5, <2>1, <2>2, WrittenReturned DEF x
  <2>8. Ingress!TypeOK'
    BY <1>1, <1>2, <1>5, <2>5, Names, PathConstantsOK
       DEF Typed, Ingress!TypeOK
  <2> QED BY <1>3, <2>5, <2>6, <2>7, <2>8 DEF IngressKept, Protocol
<1> QED BY <1>1, <1>4, <1>5 DEF Ingress!ResetOutput

\* The daemon asks the output process to end.
LEMMA ShutdownKeeps ==
  ASSUME Typed, Protocol, UNCHANGED outputVars, Ingress!Shutdown
  PROVE  IngressKept
<1> DEFINE x == [kind |-> "shutdown"]
<1>1. /\ capture.step = "idle" /\ Ingress!Write(x)
      /\ capture' = [capture EXCEPT !.step = "gone"]
      /\ UNCHANGED <<task, queue, worker, service>>
  BY DEF Ingress!Shutdown, outputVars
<1>2. capture' \in [step: {"idle", "loop", "writing", "ending", "gone"},
                    binding: 0..MaxCaptures, sequence: Sequence,
                    record: Record \cup {None}]
      /\ capture'.step = "gone" /\ ~task.running
  BY <1>1, Names DEF Typed, Ingress!TypeOK, Protocol, Ends, Capturing
<1>3. x \in Ingress!Item /\ x.kind = "shutdown"
  BY DEF Ingress!Item
<1> HIDE DEF x
<1>4. Going => Fits(Expected, x)
  BY <1>1, <1>3 DEF Fits, Protocol, Writer
<1>5. /\ input' \in [open: BOOLEAN, items: Seq(Ingress!Item)]
      /\ Len(input'.items) <= PipeCapacity /\ input'.open
      /\ Script'
  BY <1>1, <1>3, <1>4, Written DEF Protocol
<1>6. Writer' /\ Renumbering' /\ Queued' /\ Ends'
  BY <1>1, <1>2, <1>5 DEF Writer, Renumbering, Queued, Ends, Capturing
<1>7. Returned'
  BY <1>1, <1>3, WrittenReturned
<1>8. Ingress!TypeOK'
  BY <1>1, <1>2, <1>5, Names DEF Typed, Ingress!TypeOK
<1> QED BY <1>5, <1>6, <1>7, <1>8 DEF IngressKept, Protocol

\* Every step of the daemon.
LEMMA IngressKeeps ==
  ASSUME Typed, Protocol, IngressStep, UNCHANGED outputVars
  PROVE  IngressKept
<1>1. CASE \/ \E r \in Ingress!Record : Ingress!MediaRecord(r)
           \/ Ingress!MediaFails
  <2>1. (\E r \in Ingress!Record : Ingress!MediaRecord(r)) \/ Ingress!MediaFails
    BY <1>1
  <2> QED BY <2>1, MediaKeeps, Zenon
<1>2. CASE Ingress!StartCapture \/ Ingress!LoopRecv
  BY <1>2, StartKeeps, LoopRecvKeeps
<1>3. CASE Ingress!WriteFrame \/ Ingress!WriteFails \/ Ingress!StopCapture
  BY <1>3, WriteFrameKeeps, LoopEndsKeep
<1>4. CASE Ingress!ResetOutput \/ Ingress!Shutdown
  BY <1>4, ResetKeeps, ShutdownKeeps
<1> QED BY <1>1, <1>2, <1>3, <1>4, Names DEF IngressStep

-------------------------------------------------------------------------------
(* The output process *)

ServiceType ==
  [phase: {"run", "activating", "deactivating", "joining", "closing", "exited"},
   binding: Binding \cup {None}, bound: Binding \cup {None},
   validator: Validator \cup {None},
   failure: {None, "health", "protocol", "timeout"}, quitting: BOOLEAN]
DecoderType ==
  [state: {"none", "running", "dead"}, backlog: Seq(Output!Picture)]
MuxType ==
  [alive: BOOLEAN, command: {None, "activate", "deactivate"}, active: BOOLEAN,
   last: Output!Picture \cup {None}, age: 0..StaleTicks,
   writing: Output!Picture \cup {Neutral, None}]

\* OutputService!TypeOK with the sets it is made of, before a step and after.
LEMMA OutputTyped ==
  /\ Output!TypeOK <=>
       /\ service \in ServiceType
       /\ decoder \in DecoderType /\ Len(decoder.backlog) <= BacklogLimit
       /\ frames \in Seq(Output!Picture) /\ Len(frames) <= FrameCapacity
       /\ mux \in MuxType /\ pipeline \in BOOLEAN
       /\ device \in Output!Picture \cup {Neutral}
  /\ Output!TypeOK' <=>
       /\ service' \in ServiceType
       /\ decoder' \in DecoderType /\ Len(decoder'.backlog) <= BacklogLimit
       /\ frames' \in Seq(Output!Picture) /\ Len(frames') <= FrameCapacity
       /\ mux' \in MuxType /\ pipeline' \in BOOLEAN
       /\ device' \in Output!Picture \cup {Neutral}
BY Names DEF Output!TypeOK, ServiceType, DecoderType, MuxType

\* None is not one of the values it is compared with.
LEMMA NothingElse ==
  /\ None # Neutral /\ None \notin Output!Picture /\ None \notin Validator
  /\ None \notin Binding /\ None # "activate" /\ None # "deactivate"
  /\ None # "health" /\ None # "protocol" /\ None # "timeout"
BY NoneIsNothing, RecordFields, Names DEF Output!Picture

\* Pictures have numbers, and bindings.
LEMMA PictureFields ==
  \A p \in Output!Picture : p.sequence \in Nat /\ p.binding \in Binding
BY Names, RecordConstantsOK DEF Output!Picture, Sequence

CameraStep == [Camera!Next]_(Camera!vars)

\* What programs see of the camera is the same after the step.
LEMMA CameraStands ==
  ASSUME mux'.active = mux.active, mux'.last = mux.last, device' = device,
         mux.active => service'.bound = service.bound
  PROVE  CameraStep
BY DEF CameraStep, Camera!vars

\* What every step of the output process is shown to do.
OutputKept == Output!TypeOK' /\ Serving' /\ Showing' /\ Moves /\ CameraStep

\* A service that resets its output, or is about to.
LEMMA BeginResetKeeps ==
  ASSUME Typed, Showing, service.phase = "run",
         NEW s \in ServiceType, s.bound = service.bound, s.failure # "protocol",
         Output!BeginReset(s), UNCHANGED <<pipeline, device>>
  PROVE  /\ Output!TypeOK' /\ Serving' /\ Showing' /\ CameraStep
         /\ ServiceExpects' = Unbound
         /\ Going' => ~s.quitting /\ s.failure = None
<1>1. /\ service \in ServiceType /\ decoder \in DecoderType /\ mux \in MuxType
      /\ Len(decoder.backlog) <= BacklogLimit
      /\ pipeline \in BOOLEAN /\ device \in Output!Picture \cup {Neutral}
      /\ FrameCapacity \in Nat
  BY OutputTyped, PathConstantsOK DEF Typed
<1>2. /\ frames' = <<>> /\ decoder' = decoder
      /\ UNCHANGED <<pipeline, device>>
      /\ \/ /\ mux.alive /\ service' = [s EXCEPT !.phase = "deactivating"]
            /\ mux' = [mux EXCEPT !.command = "deactivate"]
         \/ /\ service' = [s EXCEPT !.phase = "joining", !.failure = "health"]
            /\ mux' = mux
  BY DEF Output!BeginReset, ServiceType
<1>3. /\ service' \in ServiceType /\ service'.bound = service.bound
      /\ mux' \in MuxType /\ mux'.active = mux.active /\ mux'.last = mux.last
      /\ mux'.writing = mux.writing
      /\ \/ /\ service'.phase = "deactivating" /\ service'.failure = s.failure
            /\ service'.quitting = s.quitting
            /\ mux'.command = "deactivate"
         \/ /\ service'.phase = "joining" /\ service'.failure = "health"
            /\ mux'.command = mux.command
  <2>1. CASE /\ service' = [s EXCEPT !.phase = "deactivating"]
             /\ mux' = [mux EXCEPT !.command = "deactivate"]
    <3>1. /\ service' \in ServiceType /\ service'.bound = service.bound
          /\ service'.phase = "deactivating" /\ service'.failure = s.failure
          /\ service'.quitting = s.quitting
      BY <2>1 DEF ServiceType
    <3>2. /\ mux' \in MuxType /\ mux'.active = mux.active
          /\ mux'.last = mux.last /\ mux'.writing = mux.writing
          /\ mux'.command = "deactivate"
      BY <1>1, <2>1 DEF MuxType
    <3> QED BY <3>1, <3>2
  <2>2. CASE /\ service' = [s EXCEPT !.phase = "joining", !.failure = "health"]
             /\ mux' = mux
    <3>1. /\ service' \in ServiceType /\ service'.bound = service.bound
          /\ service'.phase = "joining" /\ service'.failure = "health"
      BY <2>2 DEF ServiceType
    <3> QED BY <1>1, <2>2, <3>1
  <2> QED BY <1>2, <2>1, <2>2
<1>4. Output!TypeOK'
  BY <1>1, <1>2, <1>3, OutputTyped
<1>5. Serving' /\ ServiceExpects' = Unbound
  BY <1>3 DEF Serving, ServiceExpects
<1>6. mux.command = None
  BY DEF Showing, MuxFollows
<1>7. MuxFollows'
  BY <1>3, <1>6, NothingElse DEF Showing, MuxFollows, Quiet
<1>8. Pictures'
  BY <1>2, <1>3 DEF Showing, Pictures, InOrder
<1>9. Numbered' /\ RecordsAreAccepted'
  BY <1>3 DEF Numbered, RecordsAreAccepted
<1>10. CameraStep
  BY <1>2, <1>3, CameraStands
<1>11. Going' => ~s.quitting /\ s.failure = None
  BY <1>3, NothingElse DEF Going
<1> QED BY <1>4, <1>5, <1>7, <1>8, <1>9, <1>10, <1>11 DEF Showing

\* The service ends its loop and resets what is bound.
LEMMA QuitKeeps ==
  ASSUME Typed, Showing, service.phase = "run",
         NEW s \in ServiceType, s.bound = service.bound, s.failure # "protocol",
         Output!Quit(s), UNCHANGED <<pipeline, device>>
  PROVE  Output!TypeOK' /\ Serving' /\ Showing' /\ CameraStep /\ ~Going'
<1>1. CASE s.binding # None
  <2> DEFINE t == [s EXCEPT !.quitting = TRUE]
  <2>1. /\ t \in ServiceType /\ t.bound = service.bound
        /\ t.failure # "protocol" /\ t.quitting
    BY DEF ServiceType
  <2>2. Output!BeginReset(t)
    BY <1>1 DEF Output!Quit
  <2> HIDE DEF t
  <2> QED BY <2>1, <2>2, BeginResetKeeps
<1>2. CASE s.binding = None
  <2>1. /\ service' = [s EXCEPT !.phase = "closing", !.quitting = TRUE]
        /\ UNCHANGED <<frames, mux, decoder, pipeline, device>>
    BY <1>2 DEF Output!Quit
  <2>2. /\ service' \in ServiceType /\ service'.phase = "closing"
        /\ service'.bound = service.bound /\ service'.failure # "protocol"
    BY <2>1 DEF ServiceType
  <2>3. Output!TypeOK'
    BY <2>1, <2>2, OutputTyped DEF Typed
  <2>4. Serving' /\ ~Going'
    BY <2>2 DEF Serving, Going
  <2>5. mux.command = None
    BY DEF Showing, MuxFollows
  <2>6. MuxFollows' /\ Pictures' /\ Numbered' /\ RecordsAreAccepted'
    BY <2>1, <2>2, <2>5, NothingElse
       DEF Showing, MuxFollows, Pictures, Numbered, RecordsAreAccepted, InOrder
  <2>7. CameraStep
    BY <2>1, <2>2, CameraStands
  <2> QED BY <2>3, <2>4, <2>6, <2>7 DEF Showing
<1> QED BY <1>1, <1>2

\* The service finds its output unhealthy.
LEMMA FailKeeps ==
  ASSUME Typed, Showing, service.phase = "run",
         NEW s \in ServiceType, s.bound = service.bound,
         Output!Fail(s, "health"), UNCHANGED <<pipeline, device>>
  PROVE  Output!TypeOK' /\ Serving' /\ Showing' /\ CameraStep /\ ~Going'
<1> DEFINE t == [s EXCEPT !.failure = "health"]
<1>1. /\ t \in ServiceType /\ t.bound = service.bound
      /\ t.failure # "protocol"
  BY DEF ServiceType
<1>2. Output!Quit(t)
  BY DEF Output!Fail
<1> HIDE DEF t
<1> QED BY <1>1, <1>2, QuitKeeps

\* A binding is accepted: the output is neutral when its number changes.
LEMMA BindKeeps ==
  ASSUME Typed, Showing, service.phase = "run", service.binding = None,
         NEW b \in Binding,
         decoder' = [state |-> "running", backlog |-> <<>>], frames' = <<>>,
         mux' = [mux EXCEPT !.command = "activate"],
         service' = [service EXCEPT !.phase = "activating", !.bound = b],
         UNCHANGED <<pipeline, device>>
  PROVE  /\ Output!TypeOK' /\ Serving' /\ Showing' /\ CameraStep
         /\ ServiceExpects' = Bound(b)
<1>1. /\ service \in ServiceType /\ mux \in MuxType
      /\ pipeline \in BOOLEAN /\ device \in Output!Picture \cup {Neutral}
      /\ FrameCapacity \in Nat /\ BacklogLimit \in Nat
  BY OutputTyped, PathConstantsOK DEF Typed
<1>2. /\ service' \in ServiceType /\ service'.phase = "activating"
      /\ service'.bound = b /\ service'.failure = service.failure
      /\ mux' \in MuxType /\ mux'.command = "activate"
      /\ mux'.active = mux.active /\ mux'.last = mux.last
      /\ mux'.writing = mux.writing
  BY <1>1 DEF ServiceType, MuxType
<1>3. Output!TypeOK' /\ decoder'.backlog = <<>>
  <2>1. Len(<<>>) = 0 /\ <<>> \in Seq(Output!Picture)
    OBVIOUS
  <2>2. decoder' \in DecoderType /\ decoder'.backlog = <<>>
    BY <2>1 DEF DecoderType
  <2> QED BY <1>1, <1>2, <2>1, <2>2, OutputTyped
<1>4. Serving' /\ ServiceExpects' = Bound(b)
  BY <1>2, NothingElse DEF Serving, ServiceExpects
<1>5. ~mux.active /\ mux.last = None /\ mux.writing \in {None, Neutral}
  BY DEF Showing, MuxFollows, Quiet
<1>6. MuxFollows'
  BY <1>2, <1>3, <1>5, NothingElse DEF MuxFollows
<1>7. Pictures' /\ Numbered' /\ RecordsAreAccepted'
  BY <1>2, <1>3, <1>5
     DEF Showing, Pictures, Numbered, RecordsAreAccepted, InOrder
<1>8. CameraStep
  BY <1>2, <1>5, CameraStands
<1> QED BY <1>3, <1>4, <1>6, <1>7, <1>8 DEF Showing

\* A record of the current capture is decoded.
LEMMA DecodeKeeps ==
  ASSUME Typed, Showing, service.phase = "run", service.binding # None,
         NEW r \in Record, r.kind = "unit",
         Accepts(service.validator, r),
         Len(decoder.backlog) < BacklogLimit,
         decoder' = [decoder EXCEPT !.backlog =
           Append(@, [binding |-> r.binding, sequence |-> r.sequence])],
         service' = [service EXCEPT !.validator = Commit(@, r)],
         UNCHANGED <<frames, mux, pipeline, device>>
  PROVE  /\ Output!TypeOK' /\ Serving' /\ Showing' /\ CameraStep
         /\ ServiceExpects' = [binding |-> r.binding, next |-> r.sequence + 1,
                               time |-> r.time]
<1> DEFINE p == [binding |-> r.binding, sequence |-> r.sequence]
           v == Commit(service.validator, r)
           q == Append(decoder.backlog, p)
<1>1. /\ service \in ServiceType /\ mux \in MuxType /\ decoder \in DecoderType
      /\ frames \in Seq(Output!Picture) /\ Len(frames) <= FrameCapacity
      /\ pipeline \in BOOLEAN /\ device \in Output!Picture \cup {Neutral}
      /\ BacklogLimit \in Nat
      /\ decoder.backlog \in Seq(Output!Picture)
  BY OutputTyped, PathConstantsOK DEF Typed, DecoderType
<1>2. /\ service.validator \in Validator /\ service.binding = service.bound
      /\ service.validator.binding = service.bound
      /\ r.binding = service.bound /\ r.sequence = service.validator.next
  BY <1>1 DEF Typed, Serving, ServiceType, Accepts
<1>3. /\ p \in Output!Picture /\ p.binding = service.bound
      /\ p.sequence = service.validator.next
  BY <1>2, Names, RecordFields DEF Output!Picture, Sequence
<1>4. /\ v \in Validator /\ v.next = service.validator.next + 1
      /\ v.next = r.sequence + 1 /\ v.time = r.time
      /\ v.binding = service.bound /\ ~v.invalidated
  <2>1. r.sequence + 1 \in 0..MaxSequence + 1 /\ r.time \in Time
    BY RecordFields
  <2> QED BY <1>2, <2>1 DEF Commit, Validator
<1> HIDE DEF p, v
<1>5. /\ q \in Seq(Output!Picture) /\ Len(q) = Len(decoder.backlog) + 1
      /\ Len(q) <= BacklogLimit /\ q[Len(q)] = p
      /\ \A i \in DOMAIN q : i # Len(q) =>
           i \in DOMAIN decoder.backlog /\ q[i] = decoder.backlog[i]
      /\ \A i, j \in DOMAIN q : i < j => i # Len(q)
  BY <1>1, <1>3
<1> HIDE DEF q
<1>6. /\ decoder' \in DecoderType /\ decoder'.backlog = q
  <2>1. decoder' = [decoder EXCEPT !.backlog = q]
    BY DEF q, p
  <2> QED BY <1>1, <1>5, <2>1 DEF DecoderType
<1>7. /\ service' \in ServiceType /\ service'.validator = v
      /\ service'.phase = "run" /\ service'.binding = service.binding
      /\ service'.bound = service.bound /\ service'.failure = service.failure
  <2>1. service' = [service EXCEPT !.validator = v]
    BY DEF v
  <2> QED BY <1>1, <1>4, <2>1 DEF ServiceType
<1>8. Output!TypeOK'
  BY <1>1, <1>5, <1>6, <1>7, OutputTyped
<1>9. Serving'
  BY <1>2, <1>4, <1>7, NothingElse DEF Serving
<1>10. ServiceExpects' = [binding |-> r.binding, next |-> r.sequence + 1,
                          time |-> r.time]
  BY <1>2, <1>4, <1>7 DEF ServiceExpects
<1>11. MuxFollows' /\ RecordsAreAccepted'
  BY <1>7 DEF Showing, MuxFollows, RecordsAreAccepted, Quiet
<1>12. /\ \A i \in DOMAIN frames : frames[i].sequence < p.sequence
       /\ \A i \in DOMAIN decoder.backlog :
            decoder.backlog[i].sequence < p.sequence
       /\ mux.last # None => mux.last.sequence < p.sequence
  BY <1>3 DEF Showing, Numbered
<1>13. Pictures'
  <2>1. InOrder(q)
    BY <1>5, <1>12 DEF InOrder, Showing, Pictures
  <2> QED BY <1>3, <1>5, <1>6, <1>7, <1>12, <2>1 DEF Showing, Pictures, InOrder
<1>14. Numbered'
  <2>1. \A n \in Nat : n < p.sequence => n < v.next
    BY <1>3, <1>4, PictureFields
  <2>2. /\ \A i \in DOMAIN frames : frames[i].sequence \in Nat
        /\ \A i \in DOMAIN q : q[i].sequence \in Nat
        /\ mux.last # None => mux.last.sequence \in Nat
    BY <1>1, <1>5, PictureFields DEF MuxType
  <2>3. p.sequence < v.next
    BY <1>3, <1>4, PictureFields
  <2>4. \A i \in DOMAIN q : q[i].sequence < v.next
    BY <1>5, <1>12, <2>1, <2>2, <2>3
  <2> QED BY <1>6, <1>7, <1>12, <2>1, <2>2, <2>4 DEF Numbered
<1>15. CameraStep
  BY <1>7, CameraStands
<1> QED BY <1>8, <1>9, <1>10, <1>11, <1>13, <1>14, <1>15 DEF Showing

\* The service reads an item: whatever it is, it fits what was read before.
LEMMA ServiceInputKeeps ==
  ASSUME Typed, Protocol, Showing, Output!ServiceInput
  PROVE  OutputKept
<1> DEFINE item == Head(input.items)
<1>1. /\ service.phase = "run" /\ input.items # <<>>
      /\ input' = [input EXCEPT !.items = Tail(@)]
      /\ UNCHANGED <<pipeline, device>>
  BY DEF Output!ServiceInput
<1>2. /\ item \in Ingress!Item /\ Going /\ input'.open
      /\ Fits(ServiceExpects, item)
  <2>1. /\ input.items \in Seq(Ingress!Item) /\ 1 \in DOMAIN input.items
        /\ item = input.items[1] /\ item \in Ingress!Item
    BY <1>1 DEF Typed, Ingress!TypeOK
  <2>2. Going /\ input.open /\ input'.open
    BY <1>1 DEF Going, Protocol, Ends, Typed, Ingress!TypeOK
  <2>3. Fits(Expect(1 - 1), item)
    BY <2>1, <2>2 DEF Protocol, Script
  <2>4. 1 - 1 = 0 /\ Expect(0) = ServiceExpects
    BY DEF Expect
  <2> QED BY <2>1, <2>2, <2>3, <2>4
<1>3. /\ service \in ServiceType /\ service.failure # "protocol"
      /\ service.binding # None =>
           /\ ServiceExpects.binding = service.binding
           /\ ServiceExpects.next = service.validator.next
           /\ ServiceExpects.time = service.validator.time
      /\ service.binding = None => ServiceExpects = Unbound
  BY <1>1, OutputTyped
     DEF Typed, ServiceExpects, Showing, RecordsAreAccepted
<1>4. /\ item.kind \in {"bind", "unit", "reset", "shutdown"}
      /\ item.kind \in {"bind", "unit", "reset"} =>
           item.binding \in Binding /\ item.binding # None
  BY <1>2, AfterTyped, NothingElse DEF Fits
<1>5. ASSUME Output!Fail(service, "health")
      PROVE  OutputKept
  BY <1>1, <1>2, <1>3, <1>5, FailKeeps DEF OutputKept, Moves
<1>6. ASSUME Output!TypeOK', Serving', Showing', CameraStep,
             item.kind \in {"bind", "unit", "reset"},
             ServiceExpects' = After(item)
      PROVE  OutputKept
  BY <1>1, <1>2, <1>6 DEF OutputKept, Moves
<1>7. CASE item.kind = "bind"
  <2>1. service.binding = None /\ After(item) = Bound(item.binding)
    BY <1>2, <1>3, <1>7, AfterTyped DEF Fits
  <2>2. Output!Bind(item.binding)
    BY <1>7 DEF Output!ServiceInput
  <2>3. CASE ~Output!Healthy
    BY <1>5, <2>1, <2>2, <2>3 DEF Output!Bind
  <2>4. CASE Output!Healthy
    <3>1. /\ decoder' = [state |-> "running", backlog |-> <<>>]
          /\ frames' = <<>>
          /\ mux' = [mux EXCEPT !.command = "activate"]
          /\ service' = [service EXCEPT !.phase = "activating",
                                        !.bound = item.binding]
      BY <2>1, <2>2, <2>4 DEF Output!Bind
    <3>2. /\ Output!TypeOK' /\ Serving' /\ Showing' /\ CameraStep
          /\ ServiceExpects' = Bound(item.binding)
      <4> HIDE DEF item
      <4> QED BY <1>1, <1>4, <1>7, <2>1, <3>1, BindKeeps
    <3> HIDE DEF item
    <3> QED BY <1>6, <1>7, <2>1, <3>2
  <2> QED BY <2>3, <2>4
<1>8. CASE item.kind = "reset"
  <2>1. service.binding = item.binding /\ After(item) = Unbound
    BY <1>2, <1>3, <1>4, <1>8, AfterTyped DEF Fits, Unbound
  <2>2. Output!Reset(item.binding)
    BY <1>8 DEF Output!ServiceInput
  <2>3. Output!BeginReset(service)
    BY <2>1, <2>2 DEF Output!Reset
  <2>4. /\ Output!TypeOK' /\ Serving' /\ Showing' /\ CameraStep
        /\ ServiceExpects' = Unbound
    BY <1>1, <1>3, <2>3, BeginResetKeeps
  <2> HIDE DEF item
  <2> QED BY <1>6, <1>8, <2>1, <2>4
<1>9. CASE item.kind = "shutdown"
  <2>1. Output!Quit(service)
    BY <1>9 DEF Output!ServiceInput
  <2>2. Output!TypeOK' /\ Serving' /\ Showing' /\ CameraStep /\ ~Going'
    BY <1>1, <1>3, <2>1, QuitKeeps
  <2> QED BY <1>2, <2>2 DEF OutputKept, Moves
<1>10. CASE item.kind = "unit"
  <2>1. /\ item \in Record
        /\ After(item) = [binding |-> item.binding, next |-> item.sequence + 1,
                          time |-> item.time]
    BY <1>2, <1>10, AfterTyped
  <2>2. /\ service.binding # None /\ service.binding = item.binding
        /\ item.sequence = service.validator.next
        /\ service.validator.time <= item.time
    BY <1>2, <1>3, <1>4, <1>10 DEF Fits, Unbound
  <2>3. /\ service.validator # None /\ service.validator \in Validator
        /\ Accepts(service.validator, item)
    <3>1. /\ service.validator \in Validator /\ ~service.validator.invalidated
          /\ service.validator.binding = service.binding
          /\ service.validator # None
      BY <1>1, <1>3, <2>2 DEF Typed, Serving, ServiceType
    <3>2. service.validator.time \in Nat /\ item.time \in Nat
      BY <2>1, <3>1, RecordFields, RecordConstantsOK DEF Validator, Time
    <3> QED BY <1>10, <2>2, <3>1, <3>2 DEF Accepts
  <2>4. Output!Media(item)
    BY <1>10 DEF Output!ServiceInput
  <2>5. CASE ~Output!Healthy
    <3> DEFINE s == [service EXCEPT !.validator =
                       Commit(service.validator, item)]
    <3>1. Output!Fail(s, "health")
      BY <1>10, <2>3, <2>4, <2>5, Names DEF Output!Media
    <3>2. Commit(service.validator, item) \in Validator
      <4>1. item.sequence + 1 \in 0..MaxSequence + 1 /\ item.time \in Time
        BY <2>1, RecordFields
      <4> QED BY <2>3, <4>1 DEF Commit, Validator
    <3>3. s \in ServiceType /\ s.bound = service.bound
      BY <1>3, <3>2 DEF ServiceType
    <3> HIDE DEF s
    <3>4. Output!TypeOK' /\ Serving' /\ Showing' /\ CameraStep /\ ~Going'
      BY <1>1, <3>1, <3>3, FailKeeps
    <3> QED BY <1>2, <3>4 DEF OutputKept, Moves
  <2>6. CASE Output!Healthy
    <3>1. /\ Len(decoder.backlog) < BacklogLimit
          /\ decoder' = [decoder EXCEPT !.backlog =
               Append(@, [binding |-> item.binding,
                          sequence |-> item.sequence])]
          /\ service' = [service EXCEPT !.validator = Commit(@, item)]
          /\ UNCHANGED <<frames, mux>>
      BY <1>10, <2>3, <2>4, <2>6, Names DEF Output!Media
    <3> HIDE DEF item
    <3>2. /\ Output!TypeOK' /\ Serving' /\ Showing' /\ CameraStep
          /\ ServiceExpects' =
               [binding |-> item.binding, next |-> item.sequence + 1,
                time |-> item.time]
      BY <1>1, <1>10, <2>1, <2>2, <2>3, <3>1, DecodeKeeps
    <3> QED BY <1>6, <1>10, <2>1, <3>2
  <2> QED BY <2>5, <2>6
<1> QED BY <1>4, <1>7, <1>8, <1>9, <1>10

\* The service's other steps: they leave the mux, the pipeline and its input.
LEMMA ServiceKeeps ==
  ASSUME Typed, Protocol, Showing,
         \/ Output!HealthFails \/ Output!Activated \/ Output!ActivateFails
         \/ Output!Deactivated \/ Output!Join
  PROVE  OutputKept
<1>1. /\ service \in ServiceType /\ decoder \in DecoderType /\ mux \in MuxType
      /\ Len(decoder.backlog) <= BacklogLimit
      /\ frames \in Seq(Output!Picture) /\ Len(frames) <= FrameCapacity
      /\ pipeline \in BOOLEAN /\ device \in Output!Picture \cup {Neutral}
      /\ BacklogLimit \in Nat /\ FrameCapacity \in Nat
  BY OutputTyped, PathConstantsOK DEF Typed
<1>2. /\ Output!NoDecoder \in DecoderType /\ Output!NoDecoder.backlog = <<>>
      /\ Len(<<>>) = 0 /\ <<>> \in Seq(Output!Picture)
  <2>1. Len(<<>>) = 0 /\ <<>> \in Seq(Output!Picture)
    OBVIOUS
  <2> QED BY <2>1 DEF Output!NoDecoder, DecoderType
<1>3. service.phase # "exited" => input.open
  BY DEF Protocol, Ends
<1>4. CASE Output!HealthFails
  <2>1. /\ service.phase = "run" /\ Output!Fail(service, "health")
        /\ UNCHANGED <<input, pipeline, device>>
    BY <1>4 DEF Output!HealthFails
  <2>2. Output!TypeOK' /\ Serving' /\ Showing' /\ CameraStep /\ ~Going'
    BY <1>1, <2>1, FailKeeps
  <2> QED BY <1>3, <2>1, <2>2 DEF OutputKept, Moves
<1>5. CASE Output!Activated
  <2> DEFINE v == NewValidator(service.bound)
  <2>1. /\ service.phase = "activating" /\ mux.command = None
        /\ service' = [service EXCEPT !.phase = "run",
                                      !.binding = service.bound,
                                      !.validator = v]
        /\ UNCHANGED <<input, decoder, frames, mux, pipeline, device>>
    BY <1>5, Names DEF Output!Activated
  <2>2. service.bound \in Binding /\ service.bound # None
    BY <1>1, <2>1 DEF Typed, Serving, ServiceType
  <2>3. /\ v \in Validator /\ v.binding = service.bound /\ v.next = 0
        /\ v.time = 0 /\ ~v.invalidated
    BY <2>2, RecordConstantsOK DEF NewValidator, Validator, Time
  <2> HIDE DEF v
  <2>4. /\ service' \in ServiceType /\ service'.phase = "run"
        /\ service'.binding = service.bound /\ service'.bound = service.bound
        /\ service'.validator = v /\ service'.failure = service.failure
    BY <1>1, <2>1, <2>2, <2>3 DEF ServiceType
  <2>5. Output!TypeOK'
    BY <1>1, <2>1, <2>4, OutputTyped
  <2>6. Serving'
    BY <2>2, <2>3, <2>4, NothingElse DEF Serving
  <2>7. decoder.backlog = <<>> /\ frames = <<>> /\ mux.last = None
    BY <2>1 DEF Showing, MuxFollows
  <2>8. Showing'
    BY <2>1, <2>2, <2>4, <2>7, NothingElse
       DEF Showing, MuxFollows, Pictures, Numbered, RecordsAreAccepted, InOrder,
           Quiet
  <2>9. ServiceExpects' = Bound(service.bound)
        /\ ServiceExpects = Bound(service.bound) /\ Going
    BY <2>1, <2>2, <2>3, <2>4 DEF ServiceExpects, Bound, Going
  <2>10. CameraStep
    BY <2>1, <2>4, CameraStands
  <2> QED BY <1>3, <2>1, <2>5, <2>6, <2>8, <2>9, <2>10 DEF OutputKept, Moves
<1>6. CASE Output!ActivateFails
  <2>1. /\ service.phase = "activating" /\ decoder' = Output!NoDecoder
        /\ service' = [service EXCEPT !.phase = "closing", !.quitting = TRUE,
                                      !.failure = "timeout"]
        /\ UNCHANGED <<input, frames, mux, pipeline, device>>
    BY <1>6 DEF Output!ActivateFails
  <2>2. /\ service' \in ServiceType /\ service'.phase = "closing"
        /\ service'.bound = service.bound /\ service'.failure = "timeout"
    BY <1>1, <2>1 DEF ServiceType
  <2>3. Output!TypeOK'
    BY <1>1, <1>2, <2>1, <2>2, OutputTyped
  <2>4. Serving' /\ ~Going'
    BY <2>2 DEF Serving, Going
  <2>5. Showing'
    BY <1>2, <2>1, <2>2
       DEF Showing, MuxFollows, Pictures, Numbered, RecordsAreAccepted, InOrder,
           Quiet
  <2>6. CameraStep
    BY <2>1, <2>2, CameraStands
  <2> QED BY <1>3, <2>1, <2>3, <2>4, <2>5, <2>6 DEF OutputKept, Moves
<1>7. CASE Output!Deactivated
  <2>1. /\ service.phase = "deactivating"
        /\ \/ /\ mux.command = None
              /\ service' = [service EXCEPT !.phase = "joining"]
           \/ service' = [service EXCEPT !.phase = "joining",
                                         !.failure = "timeout"]
        /\ decoder' = [decoder EXCEPT !.state = "dead"]
        /\ UNCHANGED <<input, frames, mux, pipeline, device>>
    BY <1>7 DEF Output!Deactivated
  <2>2. /\ service' \in ServiceType /\ service'.phase = "joining"
        /\ service'.bound = service.bound
        /\ service'.quitting = service.quitting
        /\ \/ mux.command = None /\ service'.failure = service.failure
           \/ service'.failure = "timeout"
        /\ decoder' \in DecoderType /\ decoder'.backlog = decoder.backlog
    <3>1. decoder' \in DecoderType /\ decoder'.backlog = decoder.backlog
      BY <1>1, <2>1 DEF DecoderType
    <3>2. CASE /\ mux.command = None
               /\ service' = [service EXCEPT !.phase = "joining"]
      BY <1>1, <3>1, <3>2 DEF ServiceType
    <3>3. CASE service' = [service EXCEPT !.phase = "joining",
                                          !.failure = "timeout"]
      BY <1>1, <3>1, <3>3 DEF ServiceType
    <3> QED BY <2>1, <3>2, <3>3
  <2>3. Output!TypeOK'
    BY <1>1, <2>1, <2>2, OutputTyped
  <2>4. /\ Serving' /\ ServiceExpects' = Unbound /\ ServiceExpects = Unbound
        /\ Going' => Going
    BY <2>1, <2>2, NothingElse DEF Serving, Going, ServiceExpects
  <2>5. Showing'
    BY <2>1, <2>2, NothingElse
       DEF Showing, MuxFollows, Pictures, Numbered, RecordsAreAccepted, InOrder,
           Quiet
  <2>6. CameraStep
    BY <2>1, <2>2, CameraStands
  <2> QED BY <1>3, <2>1, <2>3, <2>4, <2>5, <2>6 DEF OutputKept, Moves
<1>8. CASE Output!Join
  <2> DEFINE next == IF service.quitting \/ service.failure # None
                     THEN "closing" ELSE "run"
  <2>1. /\ service.phase = "joining" /\ decoder' = Output!NoDecoder
        /\ frames' = <<>>
        /\ service' = [service EXCEPT !.phase = next, !.binding = None,
                                      !.validator = None]
        /\ UNCHANGED <<input, mux, pipeline, device>>
    BY <1>8 DEF Output!Join
  <2>2. /\ service' \in ServiceType /\ service'.phase = next
        /\ service'.binding = None /\ service'.bound = service.bound
        /\ service'.failure = service.failure
    BY <1>1, <2>1 DEF ServiceType
  <2>3. Output!TypeOK'
    BY <1>1, <1>2, <2>1, <2>2, OutputTyped
  <2>4. /\ Serving' /\ ServiceExpects' = Unbound /\ ServiceExpects = Unbound
        /\ Going' => Going
    BY <2>1, <2>2, NothingElse DEF Serving, Going, ServiceExpects
  <2>5. next = "run" => service.failure = None /\ Quiet
    BY <2>1 DEF Showing, MuxFollows
  <2>6. MuxFollows'
    BY <1>2, <2>1, <2>2, <2>5, NothingElse DEF Showing, MuxFollows, Quiet
  <2>7. Pictures' /\ Numbered' /\ RecordsAreAccepted'
    BY <1>2, <2>1, <2>2
       DEF Showing, Pictures, Numbered, RecordsAreAccepted, InOrder
  <2>8. CameraStep
    BY <2>1, <2>2, CameraStands
  <2> QED BY <1>3, <2>1, <2>3, <2>4, <2>6, <2>7, <2>8
          DEF OutputKept, Moves, Showing
<1> QED BY <1>4, <1>5, <1>6, <1>7, <1>8

\* The end of the process, asked for or not: the camera is off.
LEMMA GoneKeeps ==
  ASSUME Typed, Protocol, Showing, Output!Exit \/ Output!Killed
  PROVE  OutputKept
<1>1. /\ service' = [service EXCEPT !.phase = "exited"]
      /\ decoder' = Output!NoDecoder
      /\ mux' = [mux EXCEPT !.alive = FALSE, !.active = FALSE, !.last = None,
                            !.writing = None]
      /\ pipeline' = FALSE /\ device' = Neutral
      /\ input' = [open |-> FALSE, items |-> <<>>] /\ UNCHANGED frames
  BY DEF Output!Exit, Output!Killed, Output!Gone
<1>2. /\ service \in ServiceType /\ mux \in MuxType
      /\ frames \in Seq(Output!Picture) /\ Len(frames) <= FrameCapacity
      /\ BacklogLimit \in Nat
  BY OutputTyped, PathConstantsOK DEF Typed
<1>3. /\ service' \in ServiceType /\ service'.phase = "exited"
      /\ service'.bound = service.bound /\ service'.failure = service.failure
      /\ mux' \in MuxType /\ ~mux'.active /\ mux'.last = None
      /\ mux'.writing = None /\ mux'.command = mux.command
  BY <1>1, <1>2 DEF ServiceType, MuxType
<1>4. /\ decoder' \in DecoderType /\ decoder'.backlog = <<>> /\ Len(<<>>) = 0
  <2>1. Len(<<>>) = 0 /\ <<>> \in Seq(Output!Picture)
    OBVIOUS
  <2> QED BY <1>1, <2>1 DEF Output!NoDecoder, DecoderType
<1>5. Output!TypeOK'
  <2>1. pipeline' \in BOOLEAN
    BY <1>1
  <2>2. device' \in Output!Picture \cup {Neutral}
    BY <1>1
  <2>3. Len(decoder'.backlog) <= BacklogLimit
    BY <1>2, <1>4
  <2> QED BY <1>1, <1>2, <1>3, <1>4, <2>1, <2>2, <2>3, OutputTyped
<1>6. Serving' /\ ~Going'
  BY <1>3 DEF Serving, Going
<1>7. mux.command = "activate" => service.bound # None
  BY DEF Showing, MuxFollows
<1>8. Showing'
  BY <1>1, <1>3, <1>4, <1>7
     DEF Showing, MuxFollows, Pictures, Numbered, RecordsAreAccepted, InOrder
<1>9. CameraStep
  BY <1>1, <1>3 DEF CameraStep, Camera!Next, Camera!Off
<1> QED BY <1>3, <1>5, <1>6, <1>8, <1>9 DEF OutputKept, Moves

\* The service and its input stand still while another thread takes a step.
LEMMA ThreadMoves ==
  ASSUME Typed, Protocol, UNCHANGED <<service, input>>
  PROVE  Serving' /\ Moves
<1>1. Serving'
  BY DEF Typed, Serving
<1>2. /\ ~input.open => service.phase = "exited"
      /\ Going' <=> Going
      /\ ServiceExpects' = ServiceExpects
  BY DEF Protocol, Ends, Going, ServiceExpects
<1> QED BY <1>1, <1>2 DEF Moves

\* The pump queues a picture, newer than those before it.
LEMMA PumpKeeps ==
  ASSUME Typed, Protocol, Showing, Output!Pump
  PROVE  OutputKept
<1> DEFINE b == decoder.backlog
           p == Head(b)
           room == IF Len(frames) < FrameCapacity THEN frames ELSE Tail(frames)
           d == IF Len(frames) < FrameCapacity THEN 0 ELSE 1
           q == Append(room, p)
<1>1. /\ b # <<>> /\ decoder' = [decoder EXCEPT !.backlog = Tail(b)]
      /\ UNCHANGED <<input, service, mux, pipeline, device>>
      /\ frames' = q
  BY DEF Output!Pump, Output!Push
<1>2. /\ service \in ServiceType /\ decoder \in DecoderType /\ mux \in MuxType
      /\ frames \in Seq(Output!Picture) /\ Len(frames) <= FrameCapacity
      /\ pipeline \in BOOLEAN /\ device \in Output!Picture \cup {Neutral}
      /\ BacklogLimit \in Nat /\ FrameCapacity \in Nat \ {0}
      /\ Len(b) <= BacklogLimit /\ b \in Seq(Output!Picture)
  BY OutputTyped, PathConstantsOK DEF Typed, DecoderType
<1>3. /\ 1 \in DOMAIN b /\ p = b[1] /\ p \in Output!Picture
      /\ Tail(b) \in Seq(Output!Picture) /\ Len(Tail(b)) = Len(b) - 1
      /\ \A i \in DOMAIN Tail(b) : /\ i + 1 \in DOMAIN b /\ 1 < i + 1
                                   /\ Tail(b)[i] = b[i + 1] /\ i \in Nat
  BY <1>1, <1>2
<1>4. /\ room \in Seq(Output!Picture) /\ Len(room) < FrameCapacity
      /\ \A i \in DOMAIN room : /\ i + d \in DOMAIN frames /\ i \in Nat
                                /\ room[i] = frames[i + d]
      /\ d \in {0, 1}
  BY <1>2
<1> HIDE DEF room, d, p
<1>5. /\ q \in Seq(Output!Picture) /\ Len(q) <= FrameCapacity
      /\ \A i \in DOMAIN q : \/ i \in DOMAIN room /\ q[i] = room[i]
                             \/ i = Len(q) /\ q[i] = p
      /\ \A i, j \in DOMAIN q : i < j => i \in DOMAIN room /\ q[i] = room[i]
  <2>1. q \in Seq(Output!Picture) /\ Len(q) = Len(room) + 1 /\ Len(room) \in Nat
    BY <1>3, <1>4
  <2>2. /\ DOMAIN room = 1..Len(room) /\ DOMAIN q = 1..Len(room) + 1
        /\ \A i \in 1..Len(room) : q[i] = room[i]
        /\ q[Len(room) + 1] = p
    BY <1>3, <1>4, <2>1
  <2> HIDE DEF q
  <2>3. Len(q) <= FrameCapacity
    BY <1>2, <1>4, <2>1
  <2>4. \A i \in DOMAIN q : i \in DOMAIN room \/ i = Len(q)
    BY <2>1, <2>2
  <2>5. \A i, j \in DOMAIN q : i < j => i \in DOMAIN room
    BY <2>1, <2>2
  <2> QED BY <2>1, <2>2, <2>3, <2>4, <2>5
<1> HIDE DEF q
<1>6. decoder' \in DecoderType /\ decoder'.backlog = Tail(b)
  <2> DEFINE rest == Tail(b)
  <2>1. /\ rest \in Seq(Output!Picture)
        /\ decoder' = [decoder EXCEPT !.backlog = rest]
    BY <1>1, <1>3
  <2> HIDE DEF rest
  <2>2. decoder' \in DecoderType /\ decoder'.backlog = rest
    BY <1>2, <2>1 DEF DecoderType
  <2> QED BY <2>2 DEF rest
<1> HIDE DEF b
<1>7. Output!TypeOK'
  <2>1. Len(decoder'.backlog) <= BacklogLimit
    BY <1>2, <1>3, <1>6
  <2> QED BY <1>1, <1>2, <1>5, <1>6, <2>1, OutputTyped
<1>8. MuxFollows' /\ RecordsAreAccepted'
  <2>1. Output!NoDecoder.backlog = <<>>
    BY DEF Output!NoDecoder
  <2> QED BY <1>1, <2>1
          DEF Showing, MuxFollows, RecordsAreAccepted, Quiet, b
<1>9. /\ \A i \in DOMAIN frames : frames[i].binding = service.bound
      /\ \A i \in DOMAIN b : b[i].binding = service.bound
      /\ \A i, j \in DOMAIN frames :
           i < j => frames[i].sequence < frames[j].sequence
      /\ \A i, j \in DOMAIN b : i < j => b[i].sequence < b[j].sequence
      /\ \A i \in DOMAIN frames, j \in DOMAIN b :
           frames[i].sequence < b[j].sequence
      /\ mux.last # None =>
           /\ mux.last.binding = service.bound
           /\ \A i \in DOMAIN frames : mux.last.sequence < frames[i].sequence
           /\ \A i \in DOMAIN b : mux.last.sequence < b[i].sequence
  BY DEF Showing, Pictures, InOrder, b
<1>10. Pictures'
  <2>1. ASSUME NEW i \in DOMAIN q
        PROVE  /\ q[i].binding = service.bound
               /\ mux.last # None => mux.last.sequence < q[i].sequence
               /\ \A j \in DOMAIN Tail(b) : q[i].sequence < Tail(b)[j].sequence
    <3>1. CASE i \in DOMAIN room /\ q[i] = room[i]
      BY <1>3, <1>4, <1>9, <3>1
    <3>2. CASE i = Len(q) /\ q[i] = p
      BY <1>3, <1>9, <3>2
    <3> QED BY <1>5, <3>1, <3>2
  <2>2. ASSUME NEW i \in DOMAIN q, NEW j \in DOMAIN q, i < j
        PROVE  q[i].sequence < q[j].sequence
    <3>1. i \in DOMAIN room /\ q[i] = room[i]
      BY <1>5, <2>2
    <3>2. CASE j \in DOMAIN room /\ q[j] = room[j]
      <4>1. i + d < j + d
        BY <1>4, <2>2, <3>1, <3>2
      <4> QED BY <1>4, <1>9, <3>1, <3>2, <4>1
    <3>3. CASE j = Len(q) /\ q[j] = p
      BY <1>3, <1>4, <1>9, <3>1, <3>3
    <3> QED BY <1>5, <3>2, <3>3
  <2>3. ASSUME NEW i \in DOMAIN Tail(b)
        PROVE  /\ Tail(b)[i].binding = service.bound
               /\ mux.last # None => mux.last.sequence < Tail(b)[i].sequence
    BY <1>3, <1>9
  <2>4. ASSUME NEW i \in DOMAIN Tail(b), NEW j \in DOMAIN Tail(b), i < j
        PROVE  Tail(b)[i].sequence < Tail(b)[j].sequence
    <3>1. i + 1 < j + 1
      BY <1>3, <2>4
    <3> QED BY <1>3, <1>9, <3>1
  <2>5. mux.last # None => mux.last.binding = service.bound
    BY <1>9
  <2> QED BY <1>1, <1>6, <2>1, <2>2, <2>3, <2>4, <2>5 DEF Pictures, InOrder
<1>11. Numbered'
  <2>1. ASSUME service.phase = "run", service.binding # None
        PROVE  /\ \A i \in DOMAIN q : q[i].sequence < service.validator.next
               /\ \A i \in DOMAIN Tail(b) :
                    Tail(b)[i].sequence < service.validator.next
               /\ mux.last # None => mux.last.sequence < service.validator.next
    <3>1. /\ \A i \in DOMAIN frames :
               frames[i].sequence < service.validator.next
          /\ \A i \in DOMAIN b : b[i].sequence < service.validator.next
          /\ mux.last # None => mux.last.sequence < service.validator.next
      BY <2>1 DEF Showing, Numbered, b
    <3>2. ASSUME NEW i \in DOMAIN q
          PROVE  q[i].sequence < service.validator.next
      <4>1. CASE i \in DOMAIN room /\ q[i] = room[i]
        BY <1>4, <3>1, <4>1
      <4>2. CASE i = Len(q) /\ q[i] = p
        BY <1>3, <3>1, <4>2
      <4> QED BY <1>5, <4>1, <4>2
    <3>3. \A i \in DOMAIN Tail(b) : Tail(b)[i].sequence < service.validator.next
      BY <1>3, <3>1
    <3> QED BY <3>1, <3>2, <3>3
  <2> QED BY <1>1, <1>6, <2>1 DEF Numbered
<1>12. CameraStep
  BY <1>1, CameraStands
<1> QED BY <1>1, <1>7, <1>8, <1>10, <1>11, <1>12, ThreadMoves
        DEF OutputKept, Showing

\* The mux obeys a command: a session of the camera opens or closes.
LEMMA MuxCommandKeeps ==
  ASSUME Typed, Protocol, Showing, Output!MuxCommand
  PROVE  OutputKept
<1>1. /\ mux.writing = None /\ mux.command # None /\ frames' = <<>>
      /\ mux' = [mux EXCEPT !.active = (mux.command = "activate"),
                            !.last = None, !.command = None]
      /\ UNCHANGED <<input, service, decoder, pipeline, device>>
  BY DEF Output!MuxCommand
<1>2. /\ service \in ServiceType /\ decoder \in DecoderType /\ mux \in MuxType
      /\ Len(decoder.backlog) <= BacklogLimit
      /\ pipeline \in BOOLEAN /\ device \in Output!Picture \cup {Neutral}
      /\ FrameCapacity \in Nat
  BY OutputTyped, PathConstantsOK DEF Typed
<1>3. /\ mux' \in MuxType /\ mux'.last = None /\ mux'.command = None
      /\ mux'.writing = None
      /\ mux'.active <=> mux.command = "activate"
  BY <1>1, <1>2 DEF MuxType
<1>4. Output!TypeOK'
  <2>1. frames' \in Seq(Output!Picture) /\ Len(frames') <= FrameCapacity
    <3>1. Len(<<>>) = 0 /\ <<>> \in Seq(Output!Picture)
      OBVIOUS
    <3> QED BY <1>1, <1>2, <3>1
  <2> QED BY <1>1, <1>2, <1>3, <2>1, OutputTyped
<1>5. mux.command = "activate" =>
        /\ service.phase \in {"activating", "closing", "exited"}
        /\ ~mux.active /\ service.bound # None
  BY DEF Showing, MuxFollows
<1>6. MuxFollows'
  BY <1>1, <1>3, <1>5, NothingElse DEF Showing, MuxFollows, Quiet
<1>7. Pictures' /\ Numbered' /\ RecordsAreAccepted'
  BY <1>1, <1>3 DEF Showing, Pictures, Numbered, RecordsAreAccepted, InOrder
<1>8. CASE mux.command = "activate"
  <2>1. ~mux.active /\ mux'.active /\ service.bound \in Binding
    BY <1>2, <1>3, <1>5, <1>8 DEF ServiceType
  <2>2. CameraStep
    BY <1>1, <1>3, <2>1, Names
       DEF CameraStep, Camera!Next, Camera!Open, Camera!vars
  <2> QED BY <1>1, <1>4, <1>6, <1>7, <2>2, ThreadMoves DEF OutputKept, Showing
<1>9. CASE mux.command # "activate"
  <2>1. ~mux'.active
    BY <1>3, <1>9
  <2>2. CameraStep
    BY <1>1, <1>3, <2>1 DEF CameraStep, Camera!Next, Camera!Close, Camera!vars
  <2> QED BY <1>1, <1>4, <1>6, <1>7, <2>2, ThreadMoves DEF OutputKept, Showing
<1> QED BY <1>8, <1>9

\* A tick takes the newest picture, or lets the last one age.
LEMMA MuxTickKeeps ==
  ASSUME Typed, Protocol, Showing, Output!MuxTick
  PROVE  OutputKept
<1>1. /\ mux.writing = None /\ mux.command = None
      /\ UNCHANGED <<input, service, decoder, pipeline, device>>
  BY DEF Output!MuxTick
<1>2. /\ service \in ServiceType /\ decoder \in DecoderType /\ mux \in MuxType
      /\ Len(decoder.backlog) <= BacklogLimit
      /\ frames \in Seq(Output!Picture) /\ Len(frames) <= FrameCapacity
      /\ pipeline \in BOOLEAN /\ device \in Output!Picture \cup {Neutral}
      /\ FrameCapacity \in Nat /\ StaleTicks \in Nat
  BY OutputTyped, PathConstantsOK DEF Typed
<1>3. CASE mux.active /\ frames # <<>>
  <2> DEFINE p == frames[Len(frames)]
             m == [mux EXCEPT !.last = p, !.age = 0]
  <2>1. mux' = [m EXCEPT !.writing = Output!Shown(m)] /\ frames' = <<>>
    BY <1>3 DEF Output!MuxTick, Output!TakeLatest
  <2>2. Len(frames) \in DOMAIN frames /\ p \in Output!Picture
    BY <1>2, <1>3
  <2>3. /\ p.binding = service.bound
        /\ \A j \in DOMAIN decoder.backlog :
             p.sequence < decoder.backlog[j].sequence
        /\ mux.last # None => mux.last.sequence < p.sequence
        /\ service.phase = "run" /\ service.binding # None =>
             p.sequence < service.validator.next
    BY <2>2 DEF Showing, Pictures, Numbered
  <2> HIDE DEF p
  <2>4. m \in MuxType /\ m.last = p /\ m.active = mux.active
    <3>1. 0 \in 0..StaleTicks
      BY <1>2
    <3> QED BY <1>2, <2>2, <3>1 DEF MuxType
  <2>5. Output!Shown(m) \in {p, Neutral}
    BY <2>4 DEF Output!Shown
  <2>6. m.command = None
    BY <1>1, <1>2 DEF MuxType
  <2> HIDE DEF m
  <2>7. /\ mux' \in MuxType /\ mux'.last = p /\ mux'.active = mux.active
        /\ mux'.command = None /\ mux'.writing \in {p, Neutral}
    BY <2>1, <2>2, <2>4, <2>5, <2>6 DEF MuxType
  <2>8. Output!TypeOK'
    <3>1. frames' \in Seq(Output!Picture) /\ Len(frames') <= FrameCapacity
      <4>1. Len(<<>>) = 0 /\ <<>> \in Seq(Output!Picture)
        OBVIOUS
      <4> QED BY <1>2, <2>1, <4>1
    <3> QED BY <1>1, <1>2, <2>7, <3>1, OutputTyped
  <2>9. MuxFollows'
    BY <1>1, <1>3, <2>1, <2>7, NothingElse DEF Showing, MuxFollows, Quiet
  <2>10. Pictures' /\ Numbered' /\ RecordsAreAccepted'
    BY <1>1, <2>1, <2>3, <2>7
       DEF Showing, Pictures, Numbered, RecordsAreAccepted, InOrder
  <2>11. CameraStep
    <3>1. mux.last # None =>
            mux.last.sequence \in Nat /\ p.sequence > mux.last.sequence
      BY <1>2, <2>2, <2>3, PictureFields DEF MuxType
    <3> QED BY <1>1, <1>3, <2>2, <2>3, <2>7, <3>1
            DEF CameraStep, Camera!Next, Camera!Accept, Camera!vars
  <2> QED BY <1>1, <2>8, <2>9, <2>10, <2>11, ThreadMoves DEF OutputKept, Showing
<1>4. CASE ~(mux.active /\ frames # <<>>)
  <2>1. PICK age \in 0..StaleTicks :
          LET m == [mux EXCEPT !.age = age]
          IN  mux' = [m EXCEPT !.writing = Output!Shown(m)]
    BY <1>4 DEF Output!MuxTick
  <2>2. frames' = frames
    BY <1>4 DEF Output!MuxTick
  <2> DEFINE m == [mux EXCEPT !.age = age]
  <2>3. /\ m \in MuxType /\ m.last = mux.last /\ m.active = mux.active
        /\ m.command = None
    BY <1>1, <1>2 DEF MuxType
  <2>4. /\ Output!Shown(m) \in {mux.last, Neutral}
        /\ ~mux.active => Output!Shown(m) = Neutral
    BY <2>3 DEF Output!Shown
  <2>5. Output!Shown(m) \in Output!Picture \cup {Neutral, None}
    BY <1>2, <2>4 DEF MuxType
  <2>6. mux' = [m EXCEPT !.writing = Output!Shown(m)]
    BY <2>1
  <2> HIDE DEF m
  <2>7. /\ mux' \in MuxType /\ mux'.last = mux.last
        /\ mux'.active = mux.active /\ mux'.command = None
        /\ mux'.writing \in {mux.last, Neutral}
        /\ ~mux.active => mux'.writing = Neutral
    BY <2>3, <2>4, <2>5, <2>6 DEF MuxType
  <2>8. Output!TypeOK'
    BY <1>1, <1>2, <2>2, <2>7, OutputTyped
  <2>9. MuxFollows'
    BY <1>1, <2>2, <2>7, NothingElse DEF Showing, MuxFollows, Quiet
  <2>10. Pictures' /\ Numbered' /\ RecordsAreAccepted'
    BY <1>1, <2>2, <2>7
       DEF Showing, Pictures, Numbered, RecordsAreAccepted, InOrder
  <2>11. CameraStep
    BY <1>1, <2>7, CameraStands
  <2> QED BY <1>1, <2>8, <2>9, <2>10, <2>11, ThreadMoves DEF OutputKept, Showing
<1> QED BY <1>3, <1>4

\* The tick's picture reaches the camera, or the pipeline has gone.
LEMMA MuxWriteKeeps ==
  ASSUME Typed, Protocol, Showing, Output!MuxWrite
  PROVE  OutputKept
<1>1. /\ mux.writing # None
      /\ UNCHANGED <<input, service, decoder, frames, pipeline>>
      /\ \/ device' = mux.writing /\ mux' = [mux EXCEPT !.writing = None]
         \/ /\ device' = device
            /\ mux' = [mux EXCEPT !.alive = FALSE, !.writing = None]
  BY DEF Output!MuxWrite
<1>2. /\ mux \in MuxType /\ device \in Output!Picture \cup {Neutral}
      /\ mux.writing \in {Neutral, mux.last}
  BY <1>1, OutputTyped DEF Typed, Showing, MuxFollows
<1>3. /\ mux' \in MuxType /\ mux'.last = mux.last /\ mux'.active = mux.active
      /\ mux'.command = mux.command /\ mux'.writing = None
  BY <1>1, <1>2 DEF MuxType
<1>4. device' \in Output!Picture \cup {Neutral}
  BY <1>1, <1>2 DEF MuxType
<1>5. Output!TypeOK'
  BY <1>1, <1>3, <1>4, OutputTyped DEF Typed
<1>6. Showing'
  BY <1>1, <1>3 DEF Showing, MuxFollows, Pictures, Numbered, RecordsAreAccepted,
                    InOrder, Quiet
<1>7. CameraStep
  BY <1>1, <1>2, <1>3
     DEF CameraStep, Camera!Next, Camera!Show, Camera!Blank, Camera!vars
<1> QED BY <1>1, <1>5, <1>6, <1>7, ThreadMoves DEF OutputKept

\* The pipeline or the decoder dies.
LEMMA DeathsKeep ==
  ASSUME Typed, Protocol, Showing, Output!PipelineDies \/ Output!DecoderDies
  PROVE  OutputKept
<1>1. UNCHANGED <<input, service, frames, mux>>
  BY DEF Output!PipelineDies, Output!DecoderDies
<1>2. CASE Output!PipelineDies
  <2>1. ~pipeline' /\ device' = Neutral /\ decoder' = decoder
    BY <1>2 DEF Output!PipelineDies
  <2>2. pipeline' \in BOOLEAN
    BY <1>2 DEF Output!PipelineDies
  <2>3. Output!TypeOK'
    BY <1>1, <2>1, <2>2, OutputTyped DEF Typed
  <2>4. Showing'
    BY <1>1, <2>1 DEF Showing, MuxFollows, Pictures, Numbered,
                      RecordsAreAccepted, InOrder, Quiet
  <2>5. CameraStep
    BY <1>1, <2>1 DEF CameraStep, Camera!Next, Camera!Blank
  <2> QED BY <1>1, <2>3, <2>4, <2>5, ThreadMoves DEF OutputKept
<1>3. CASE Output!DecoderDies
  <2>1. /\ decoder.state = "running" /\ UNCHANGED <<pipeline, device>>
        /\ decoder' = [decoder EXCEPT !.state = "dead"]
    BY <1>3 DEF Output!DecoderDies
  <2>2. decoder' \in DecoderType /\ decoder'.backlog = decoder.backlog
    BY <2>1, OutputTyped DEF Typed, DecoderType
  <2>3. Output!TypeOK'
    BY <1>1, <2>1, <2>2, OutputTyped DEF Typed
  <2>4. decoder # Output!NoDecoder
    BY <2>1 DEF Output!NoDecoder
  <2>5. Showing'
    BY <1>1, <2>2, <2>4 DEF Showing, MuxFollows, Pictures, Numbered,
                            RecordsAreAccepted, InOrder, Quiet
  <2>6. CameraStep
    BY <1>1, <2>1, CameraStands
  <2> QED BY <1>1, <2>3, <2>5, <2>6, ThreadMoves DEF OutputKept
<1> QED BY <1>2, <1>3

\* Reading takes from the input, and the end of the process closes it.
LEMMA OutputInput ==
  ASSUME Typed, OutputStep
  PROVE  /\ input' \in [open: BOOLEAN, items: Seq(Ingress!Item)]
         /\ Len(input'.items) <= PipeCapacity
<1>1. /\ input \in [open: BOOLEAN, items: Seq(Ingress!Item)]
      /\ Len(input.items) <= PipeCapacity /\ PipeCapacity \in Nat
      /\ input.items \in Seq(Ingress!Item)
  BY PathConstantsOK DEF Typed, Ingress!TypeOK
<1>2. \/ input' = input
      \/ input.items # <<>> /\ input' = [input EXCEPT !.items = Tail(@)]
      \/ input' = [open |-> FALSE, items |-> <<>>]
  BY DEF OutputStep, Output!ServiceInput, Output!HealthFails, Output!Activated,
         Output!ActivateFails, Output!Deactivated, Output!Join, Output!Exit,
         Output!Killed, Output!Gone, Output!Pump, Output!MuxCommand,
         Output!MuxTick, Output!MuxWrite, Output!PipelineDies,
         Output!DecoderDies
<1>3. CASE input' = input
  BY <1>1, <1>3
<1>4. CASE input.items # <<>> /\ input' = [input EXCEPT !.items = Tail(@)]
  <2> DEFINE rest == Tail(input.items)
  <2>1. rest \in Seq(Ingress!Item) /\ Len(rest) <= PipeCapacity
    BY <1>1, <1>4
  <2>2. input' = [input EXCEPT !.items = rest]
    BY <1>4
  <2> HIDE DEF rest
  <2>3. input' \in [open: BOOLEAN, items: Seq(Ingress!Item)]
        /\ input'.items = rest
    BY <1>1, <2>1, <2>2
  <2> QED BY <2>1, <2>3
<1>5. CASE input' = [open |-> FALSE, items |-> <<>>]
  <2>1. Len(<<>>) = 0 /\ <<>> \in Seq(Ingress!Item)
    OBVIOUS
  <2> QED BY <1>1, <1>5, <2>1
<1> QED BY <1>2, <1>3, <1>4, <1>5

-------------------------------------------------------------------------------
(* The whole path *)

\* Every step of the output process.
LEMMA OutputKeeps ==
  ASSUME Typed, Protocol, Showing, OutputStep
  PROVE  OutputKept
<1>1. CASE Output!ServiceInput \/ Output!Exit \/ Output!Killed
  BY <1>1, ServiceInputKeeps, GoneKeeps
<1>2. CASE \/ Output!HealthFails \/ Output!Activated \/ Output!ActivateFails
           \/ Output!Deactivated \/ Output!Join
  BY <1>2, ServiceKeeps
<1>3. CASE Output!Pump \/ Output!MuxCommand \/ Output!MuxTick
  BY <1>3, PumpKeeps, MuxCommandKeeps, MuxTickKeeps
<1>4. CASE Output!MuxWrite \/ Output!PipelineDies \/ Output!DecoderDies
  BY <1>4, MuxWriteKeeps, DeathsKeep
<1> QED BY <1>1, <1>2, <1>3, <1>4 DEF OutputStep

\* Every step of the path keeps the invariant and is one of the camera, or is
\* not seen by it.
LEMMA StepKeeps == IInv /\ [Next]_vars => IInv' /\ CameraStep
<1> SUFFICES ASSUME IInv, [Next]_vars PROVE IInv' /\ CameraStep
  OBVIOUS
<1>1. Typed /\ Protocol /\ Showing
  BY DEF IInv
<1>2. ASSUME UNCHANGED outputVars
      PROVE  Output!TypeOK' /\ Serving' /\ Showing' /\ CameraStep
  <2>1. UNCHANGED <<service, decoder, frames, mux, pipeline, device>>
    BY <1>2 DEF outputVars
  <2>2. Output!TypeOK'
    BY <1>1, <2>1, OutputTyped DEF Typed
  <2>3. Serving' /\ Showing'
    BY <1>1, <2>1 DEF Typed, Serving, Showing, MuxFollows, Quiet, Pictures,
                      Numbered, RecordsAreAccepted, InOrder
  <2>4. CameraStep
    BY <2>1, CameraStands
  <2> QED BY <2>2, <2>3, <2>4
<1>3. CASE IngressStep /\ UNCHANGED outputVars
  BY <1>1, <1>2, <1>3, IngressKeeps DEF IngressKept, IInv, Typed
<1>4. CASE OutputStep /\ UNCHANGED ingressVars
  <2>1. OutputKept
    BY <1>1, <1>4, OutputKeeps
  <2>2. Protocol'
    BY <1>1, <1>4, <2>1, MovesKeep DEF OutputKept
  <2>3. Ingress!TypeOK'
    <3>1. UNCHANGED <<capture, task, queue, worker>>
      BY <1>4 DEF ingressVars
    <3>2. /\ input' \in [open: BOOLEAN, items: Seq(Ingress!Item)]
          /\ Len(input'.items) <= PipeCapacity
      BY <1>1, <1>4, OutputInput
    <3> QED BY <1>1, <3>1, <3>2 DEF Typed, Ingress!TypeOK
  <2> QED BY <2>1, <2>2, <2>3 DEF OutputKept, IInv, Typed
<1>5. CASE UNCHANGED vars
  <2>1. UNCHANGED <<capture, task, queue, worker, input, service>>
        /\ UNCHANGED outputVars /\ UNCHANGED ingressVars
    BY <1>5 DEF vars, ingressVars, outputVars
  <2>2. Moves
    BY <1>1, <2>1, ThreadMoves
  <2>3. Protocol'
    BY <1>1, <2>1, <2>2, MovesKeep
  <2>4. Ingress!TypeOK'
    BY <1>1, <2>1 DEF Typed, Ingress!TypeOK
  <2> QED BY <1>2, <2>1, <2>3, <2>4 DEF IInv, Typed
<1> QED BY <1>3, <1>4, <1>5 DEF Next

\* Before the first capture.
LEMMA InitHolds == Init => IInv /\ Camera!Init
<1> SUFFICES ASSUME Init PROVE IInv /\ Camera!Init
  OBVIOUS
<1>1. Ingress!Init /\ Output!Init
  BY DEF Init
<1>2. /\ capture = [step |-> "idle", binding |-> 0, sequence |-> 0,
                    record |-> None]
      /\ task = [running |-> FALSE, validator |-> None]
      /\ queue = [items |-> <<>>, closed |-> TRUE] /\ worker = None
      /\ input = [open |-> TRUE, items |-> <<>>]
  BY <1>1 DEF Ingress!Init
<1>3. /\ service = [phase |-> "run", binding |-> None, bound |-> None,
                    validator |-> None, failure |-> None, quitting |-> FALSE]
      /\ decoder = Output!NoDecoder /\ frames = <<>> /\ pipeline = TRUE
      /\ mux = [alive |-> TRUE, command |-> None, active |-> FALSE,
                last |-> None, age |-> 0, writing |-> None]
      /\ device = Neutral
  BY <1>1 DEF Output!Init
<1>4. Len(<<>>) = 0 /\ \A S : <<>> \in Seq(S)
  OBVIOUS
<1>5. Ingress!TypeOK
  BY <1>2, <1>4, PathConstantsOK, RecordConstantsOK, Names
     DEF Ingress!TypeOK, Sequence
<1>6. Output!TypeOK
  <2>1. service \in ServiceType /\ mux \in MuxType
    BY <1>3, PathConstantsOK DEF ServiceType, MuxType
  <2>2. decoder \in DecoderType /\ decoder.backlog = <<>>
    BY <1>3, <1>4 DEF DecoderType, Output!NoDecoder
  <2>3. Len(decoder.backlog) <= BacklogLimit /\ Len(frames) <= FrameCapacity
    BY <1>3, <1>4, <2>2, PathConstantsOK
  <2>4. frames \in Seq(Output!Picture) /\ pipeline \in BOOLEAN
    BY <1>3, <1>4
  <2> QED BY <1>3, <2>1, <2>2, <2>3, <2>4, OutputTyped
<1>7. Serving /\ Showing
  BY <1>3, NothingElse
     DEF Serving, Showing, MuxFollows, Quiet, Pictures, Numbered,
         RecordsAreAccepted, InOrder, Output!NoDecoder
<1>8. Expected = Unbound /\ ServiceExpects = Unbound
  BY <1>2, <1>3, <1>4 DEF Expected, Expect, ServiceExpects
<1>9. Protocol
  BY <1>2, <1>8
     DEF Protocol, Script, Writer, Renumbering, Queued, Returned, Ends,
         Capturing, Unbound
<1>10. Camera!Init
  BY <1>3 DEF Camera!Init
<1> QED BY <1>5, <1>6, <1>7, <1>9, <1>10 DEF IInv, Typed

\* In every reachable state each item in the pipe fits the ones before it, each
\* binding of the output process will be given back, and its pictures are of
\* that binding and in order (capture.rs, service.rs, decoder.rs, mux.rs).
THEOREM PathInvariant == Spec => []IInv
<1>1. IInv /\ [Next]_vars => IInv'
  BY StepKeeps
<1> QED BY <1>1, InitHolds, PTL DEF Spec

\* The state stays of its type: the media queue, the pipe, the decoder's backlog
\* and the queue of raw frames keep their bounds.
THEOREM PathTypes == Spec => []TypeOK
<1>1. IInv => TypeOK
  BY DEF IInv, Typed, TypeOK
<1> QED BY <1>1, PathInvariant, PTL

\* A service that serves nobody has nothing of an earlier capture left, although
\* the pump went on while it was being joined (ServiceOutput::reset).
THEOREM ResetForgets == Spec => []ResetLeavesNothing
<1>1. IInv => ResetLeavesNothing
  BY DEF IInv, Showing, MuxFollows, Quiet, ResetLeavesNothing
<1> QED BY <1>1, PathInvariant, PTL

\* The output process never finds fault with a record of the daemon's, whatever
\* the phone sent and the queue dropped (capture.rs renumbers the records).
THEOREM SecondValidatorAgrees == Spec => []RecordsAreAccepted
<1>1. IInv => RecordsAreAccepted
  BY DEF IInv, Showing
<1> QED BY <1>1, PathInvariant, PTL

\* The output process serves no capture behind the daemon's back
\* (OutputWorker::bind and reset against ServiceOutput's binding).
THEOREM BindingsAreKnown == Spec => []DaemonKnowsTheBinding
<1>1. IInv => DaemonKnowsTheBinding
  <2> SUFFICES ASSUME IInv, service.phase = "run", service.binding # None
               PROVE  \/ worker = service.binding
                      \/ \E i \in DOMAIN input.items : input.items[i] =
                           [kind |-> "reset", binding |-> service.binding]
    BY DEF DaemonKnowsTheBinding
  <2>1. Going /\ ServiceExpects.binding = service.binding
    BY DEF Going, ServiceExpects
  <2>2. Resets(service.binding, 0)
    BY <2>1 DEF IInv, Protocol, Returned
  <2> QED BY <2>2 DEF Resets
<1> QED BY <1>1, PathInvariant, PTL

\* The daemon, the output process and the pipe between them implement the
\* virtual camera: pictures of the session that is served only, in their order,
\* and none of a closed one.
THEOREM PathImplementsCamera == Spec => ImplementsCamera
<1>1. IInv /\ [Next]_vars => [Camera!Next]_(Camera!vars)
  BY StepKeeps DEF CameraStep
<1> QED BY <1>1, InitHolds, PathInvariant, PTL
        DEF Spec, ImplementsCamera, Camera!Spec
===============================================================================
