----------------------------- MODULE ControlsProofs -----------------------------
(***************************************************************************)
(* First, what Button.tla promises for every number of buttons and every   *)
(* size of the queue.  EventsAlternate and StateIsReported are inductive   *)
(* together: a report contradicts state, and state is what was reported    *)
(* last.                                                                   *)
(*                                                                         *)
(* Then, what the buttons and the arpeggiator do together in Controls.tla: *)
(* every step of the one is a step of Button and of Arpeggio at once, so   *)
(* that the invariants of both hold, and meet: a held note leads back,     *)
(* through what was passed on, seen and reported, to a pin.                *)
(***************************************************************************)
EXTENDS Controls, SequenceTheorems, TLAPS

Reports == TypeOK /\ EventsAlternate /\ StateIsReported

LEMMA TypeInit == Init => TypeOK
BY ButtonAssumption DEF Init, TypeOK, Event

LEMMA TypeNext == TypeOK /\ [Next]_vars => TypeOK'
<1> SUFFICES ASSUME TypeOK, [Next]_vars PROVE TypeOK'
  OBVIOUS
<1> USE ButtonAssumption
<1> DEFINE Delivery(q, w, t) ==
             /\ q \in Seq(Event) /\ Len(q) =< QUEUE_SIZE
             /\ w \in BOOLEAN /\ (t = <<>> \/ \E e \in Event : t = <<e>>)
             /\ w => q = <<>> /\ t = <<>>
<1>0. Delivery(queue, waiting, taken)
  BY DEF TypeOK
<1>1. ASSUME NEW b \in Buttons, NEW s \in BOOLEAN, ~QueueFull, notify(b, s)
      PROVE  Delivery(queue', waiting', taken')
  <2>1. [index |-> b, state |-> s] \in Event
    BY DEF Event
  <2>2. Len(queue) \in Nat /\ Len(queue) + 1 =< QUEUE_SIZE
    BY <1>0, <1>1 DEF QueueFull
  <2>3. CASE waiting
    <3>1. queue' = queue /\ waiting' = FALSE /\ taken' = <<[index |-> b, state |-> s]>>
      BY <1>0, <1>1, <2>3 DEF notify
    <3> QED
      BY <1>0, <2>1, <3>1
  <2>4. CASE ~waiting
    <3>1. /\ queue' = Append(queue, [index |-> b, state |-> s])
          /\ waiting' = waiting /\ taken' = taken
      BY <1>1, <2>4 DEF notify
    <3> QED
      BY <1>0, <2>1, <2>2, <2>4, <3>1
  <2> QED
    BY <2>3, <2>4
<1>2. ASSUME NEW b \in Buttons, PinChanges(b) PROVE TypeOK'
  BY <1>2 DEF PinChanges, TypeOK, delivery
<1>3. ASSUME NEW b \in Buttons, button_event_interrupt(b) PROVE TypeOK'
  <2>1. Delivery(queue', waiting', taken')
    <3>1. CASE UNCHANGED delivery
      BY <1>0, <3>1 DEF delivery
    <3>2. CASE ~QueueFull /\ notify(b, ~state[b])
      BY <1>1, <3>2 DEF TypeOK
    <3> QED
      BY <1>3, <3>1, <3>2 DEF button_event_interrupt
  <2> QED
    BY <1>3, <2>1 DEF button_event_interrupt, StartTimer, TypeOK
<1>4. ASSUME NEW b \in Buttons, button_debounce_cb(b) PROVE TypeOK'
  <2>1. Delivery(queue', waiting', taken')
    <3>1. CASE UNCHANGED delivery
      BY <1>0, <3>1 DEF delivery
    <3>2. CASE ~QueueFull /\ notify(b, pin[b])
      BY <1>1, <3>2 DEF TypeOK
    <3> QED
      BY <1>4, <3>1, <3>2 DEF button_debounce_cb
  <2> QED
    BY <1>4, <2>1 DEF button_debounce_cb, TypeOK
<1>5. ASSUME button_event_get PROVE TypeOK'
  <2>1. Delivery(queue', waiting', taken')
    <3>1. CASE queue # <<>>
      <4>1. Head(queue) \in Event /\ Tail(queue) \in Seq(Event)
            /\ Len(Tail(queue)) =< QUEUE_SIZE
        BY <1>0, <3>1, HeadTailProperties
      <4> QED
        BY <1>0, <1>5, <3>1, <4>1 DEF button_event_get
    <3>2. CASE queue = <<>>
      BY <1>0, <1>5, <3>2 DEF button_event_get
    <3> QED
      BY <3>1, <3>2
  <2> QED
    BY <1>5, <2>1 DEF button_event_get, TypeOK
<1>6. ASSUME button_event_handler PROVE TypeOK'
  <2>1. PICK e \in Event : taken = <<e>>
    BY <1>0, <1>6 DEF button_event_handler
  <2>2. Delivery(queue', waiting', taken')
    BY <1>0, <1>6 DEF button_event_handler
  <2>3. seen' = [seen EXCEPT ![e.index] = e.state] /\ e.state \in BOOLEAN
    BY <1>6, <2>1 DEF button_event_handler, Event
  <2> QED
    BY <1>6, <2>2, <2>3 DEF button_event_handler, TypeOK
<1>7. CASE UNCHANGED vars
  BY <1>7 DEF vars, TypeOK
<1> QED
  BY <1>2, <1>3, <1>4, <1>5, <1>6, <1>7 DEF Next

\* The variables of button.c and of the button thread keep their types.
THEOREM ButtonTypeCorrect == Spec => []TypeOK
<1> QED
  BY TypeInit, TypeNext, PTL DEF Spec

-----------------------------------------------------------------------------
(* What is pending, in the thread's hands or in the queue, is one sequence to *)
(* which reports are appended and from whose head the thread handles them.    *)

LEMMA DeliveryTypes ==
  ASSUME TypeOK PROVE taken \in Seq(Event) /\ queue \in Seq(Event)
<1>1. CASE taken = <<>>
  BY <1>1 DEF TypeOK
<1>2. ASSUME NEW e \in Event, taken = <<e>>
      PROVE  taken \in Seq(Event)
  BY <1>2
<1> QED
  BY <1>1, <1>2 DEF TypeOK

LEMMA PendingType == TypeOK => Pending \in Seq(Event)
BY DeliveryTypes, ConcatProperties DEF Pending

\* Whether the thread waits or not, its event is the last one pending.
LEMMA NotifyAppends ==
  ASSUME TypeOK, NEW b \in Buttons, NEW s \in BOOLEAN, notify(b, s)
  PROVE  Pending' = Append(Pending, [index |-> b, state |-> s])
<1> DEFINE e == [index |-> b, state |-> s]
<1>1. e \in Event /\ taken \in Seq(Event) /\ queue \in Seq(Event)
  BY DeliveryTypes DEF Event
<1>2. CASE waiting
  <2>1. taken = <<>> /\ queue = <<>> /\ taken' = <<e>> /\ queue' = <<>>
    BY <1>2 DEF TypeOK, notify
  <2> HIDE DEF e
  <2>2. <<>> \o <<>> = <<>> /\ <<e>> \o <<>> = <<e>> /\ Append(<<>>, e) = <<e>>
    BY <1>1
  <2> QED
    BY <2>1, <2>2 DEF Pending, e
<1>3. CASE ~waiting
  <2>1. taken' = taken /\ queue' = Append(queue, e)
    BY <1>3 DEF notify
  <2> HIDE DEF e
  <2>2. taken \o Append(queue, e) = Append(taken \o queue, e)
    BY <1>1
  <2> QED
    BY <2>1, <2>2 DEF Pending, e
<1> QED
  BY <1>2, <1>3

\* The thread getting an event, or starting to wait, leaves it pending.
LEMMA GetKeepsPending ==
  ASSUME TypeOK, button_event_get
  PROVE  Pending' = Pending
<1>1. CASE queue = <<>>
  BY <1>1 DEF button_event_get, Pending
<1>2. CASE queue # <<>>
  <2>1. taken = <<>> /\ taken' = <<Head(queue)>> /\ queue' = Tail(queue)
    BY <1>2 DEF button_event_get
  <2>2. queue \in Seq(Event)
    BY DEF TypeOK
  <2>3. <<Head(queue)>> \o Tail(queue) = queue /\ <<>> \o queue = queue
    BY <1>2, <2>2, HeadTailProperties
  <2> QED
    BY <2>1, <2>3 DEF Pending
<1> QED
  BY <1>1, <1>2

\* And what it hands on is the head of what was pending.
LEMMA HandlerTakesHead ==
  ASSUME TypeOK, button_event_handler
  PROVE  /\ Pending # <<>> /\ Head(Pending) = taken[1]
         /\ Pending' = Tail(Pending)
<1>1. PICK e \in Event : taken = <<e>>
  BY DEF TypeOK, button_event_handler
<1>2. queue \in Seq(Event) /\ taken' = <<>> /\ queue' = queue
  BY DEF TypeOK, button_event_handler
<1>3. /\ <<e>> \o queue # <<>> /\ Head(<<e>> \o queue) = e
      /\ Tail(<<e>> \o queue) = queue /\ <<>> \o queue = queue
  BY <1>2
<1> QED
  BY <1>1, <1>2, <1>3 DEF Pending

-----------------------------------------------------------------------------
LEMMA ReportInit == Init => EventsAlternate /\ StateIsReported
<1> SUFFICES ASSUME Init PROVE EventsAlternate /\ StateIsReported
  OBVIOUS
<1>1. Pending = <<>> /\ Len(Pending) = 0 /\ seen = state
  BY DEF Init, Pending
<1> QED
  BY <1>1 DEF EventsAlternate, FirstIsNews, NextContradicts, StateIsReported

\* A report appended to what is pending contradicts the previous one of its button,
\* or what the thread knows, because state was the last one reported.
LEMMA ReportAppends ==
  ASSUME Reports, NEW b \in Buttons, NEW s \in BOOLEAN, s # state[b],
         notify(b, s), state' = [state EXCEPT ![b] = s], seen' = seen
  PROVE  EventsAlternate' /\ StateIsReported'
<1> DEFINE e == [index |-> b, state |-> s]
           n == Len(Pending)
<1>0. Pending \in Seq(Event) /\ Pending' = Append(Pending, e)
  BY PendingType, NotifyAppends DEF Reports
<1>1. /\ e \in Event /\ Pending \in Seq(Event) /\ n \in Nat
      /\ e.index = b /\ e.state = s
  BY <1>0 DEF Event
<1>2. Len(Pending') = n + 1 /\ Pending'[n + 1] = e
      /\ \A i \in 1 .. n : Pending'[i] = Pending[i]
  BY <1>0, <1>1
<1>3. \A i \in 1 .. n : Pending[i] \in Event
  BY <1>1
<1>4. state'[b] = s /\ \A c \in Buttons : c # b => state'[c] = state[c]
  BY DEF Reports, TypeOK
<1> HIDE DEF e, n
<1>5. FirstIsNews'
  <2> SUFFICES ASSUME NEW i \in 1 .. n + 1,
                      \A h \in 1 .. i - 1 : Pending'[h].index # Pending'[i].index
               PROVE  Pending'[i].state # seen[Pending'[i].index]
    BY <1>2 DEF FirstIsNews
  <2>1. CASE i \in 1 .. n
    <3>1. \A h \in 1 .. i - 1 : Pending[h].index # Pending[i].index
      BY <1>1, <1>2, <2>1
    <3> QED
      BY <1>1, <1>2, <2>1, <3>1 DEF Reports, EventsAlternate, FirstIsNews, n
  <2>2. CASE i = n + 1
    <3>1. \A h \in 1 .. n : Pending[h].index # b
      BY <1>1, <1>2, <2>2
    <3>2. seen[b] = state[b]
      BY <3>1 DEF Reports, StateIsReported, NothingPending, n
    <3> QED
      BY <1>1, <1>2, <2>2, <3>2
  <2> QED
    BY <1>1, <2>1, <2>2
<1>6. NextContradicts'
  <2> SUFFICES ASSUME NEW i \in 1 .. n + 1, NEW j \in 1 .. n + 1,
                      i < j, Pending'[i].index = Pending'[j].index,
                      \A h \in i + 1 .. j - 1 : Pending'[h].index # Pending'[i].index
               PROVE  Pending'[i].state # Pending'[j].state
    BY <1>2 DEF NextContradicts
  <2>0. i \in 1 .. n
    BY <1>1
  <2>1. CASE j \in 1 .. n
    <3>1. \A h \in i + 1 .. j - 1 : Pending[h].index # Pending[i].index
      BY <1>1, <1>2, <2>0, <2>1
    <3> QED
      BY <1>1, <1>2, <2>0, <2>1, <3>1 DEF Reports, EventsAlternate, NextContradicts, n
  <2>2. CASE j = n + 1
    <3>1. Pending[i].index = b /\ \A h \in i + 1 .. n : Pending[h].index # Pending[i].index
      BY <1>1, <1>2, <2>0, <2>2
    <3>2. Pending[i].state = state[b]
      BY <2>0, <3>1 DEF Reports, StateIsReported, NothingPending, n
    <3> QED
      BY <1>1, <1>2, <2>0, <2>2, <3>2
  <2>3. j \in 1 .. n \/ j = n + 1
    BY <1>1
  <2> QED
    BY <2>1, <2>2, <2>3
<1>7. StateIsReported'
  <2>1. ASSUME NEW i \in 1 .. n + 1,
               \A j \in i + 1 .. n + 1 : Pending'[j].index # Pending'[i].index
        PROVE  Pending'[i].state = state'[Pending'[i].index]
    <3>1. CASE i = n + 1
      BY <1>1, <1>2, <1>4, <3>1
    <3>2. CASE i \in 1 .. n
      <4>1. Pending[i].index # b /\ \A j \in i + 1 .. n : Pending[j].index # Pending[i].index
        BY <1>1, <1>2, <2>1, <3>2
      <4>2. Pending[i].state = state[Pending[i].index]
        BY <3>2, <4>1 DEF Reports, StateIsReported, NothingPending, n
      <4>3. Pending[i].index \in Buttons
        BY <1>3, <3>2 DEF Event
      <4> QED
        BY <1>2, <1>4, <3>2, <4>1, <4>2, <4>3
    <3> QED
      BY <1>1, <3>1, <3>2
  <2>2. ASSUME NEW c \in Buttons, \A i \in 1 .. n + 1 : Pending'[i].index # c
        PROVE  seen[c] = state'[c]
    <3>1. c # b
      BY <1>1, <1>2, <2>2
    <3>2. \A i \in 1 .. n : Pending[i].index # c
      BY <1>1, <1>2, <2>2
    <3> QED
      BY <1>4, <3>1, <3>2 DEF Reports, StateIsReported, NothingPending, n
  <2> QED
    BY <1>2, <2>1, <2>2 DEF StateIsReported, NothingPending
<1> QED
  BY <1>5, <1>6, <1>7 DEF EventsAlternate

\* What the thread hands on becomes what it told the synthesizer, so that the next
\* report of the same button is news again.
LEMMA HandlerTakes ==
  ASSUME Reports, button_event_handler
  PROVE  EventsAlternate' /\ StateIsReported'
<1> DEFINE n == Len(Pending) - 1
           b == Pending[1].index
<1>1. /\ Pending \in Seq(Event) /\ Pending # <<>> /\ n \in Nat
      /\ \A i \in 1 .. n + 1 : Pending[i] \in Event
      /\ Head(Pending) = Pending[1]
  BY PendingType, HandlerTakesHead, HeadTailProperties DEF Reports
<1>2. Len(Pending') = n /\ \A i \in 1 .. n : Pending'[i] = Pending[i + 1]
  BY <1>1, HandlerTakesHead, HeadTailProperties DEF Reports
<1>3. b \in Buttons
  BY <1>1 DEF Event
<1>4. /\ seen'[b] = Pending[1].state
      /\ \A c \in Buttons : c # b => seen'[c] = seen[c]
      /\ state' = state
  BY <1>1, <1>3, HandlerTakesHead DEF button_event_handler, Reports, TypeOK
<1>5. Len(Pending) = n + 1
  BY <1>1
<1> HIDE DEF n, b
<1>6. FirstIsNews'
  <2> SUFFICES ASSUME NEW i \in 1 .. n,
                      \A h \in 1 .. i - 1 : Pending'[h].index # Pending'[i].index
               PROVE  Pending'[i].state # seen'[Pending'[i].index]
    BY <1>2 DEF FirstIsNews
  <2>1. \A h \in 2 .. i : Pending[h].index # Pending[i + 1].index
    <3> SUFFICES ASSUME NEW h \in 2 .. i PROVE Pending[h].index # Pending[i + 1].index
      OBVIOUS
    <3>1. h - 1 \in 1 .. i - 1 /\ h - 1 \in 1 .. n /\ (h - 1) + 1 = h
      BY <1>1
    <3> QED
      BY <1>2, <3>1
  <2>2. i + 1 \in 1 .. n + 1 /\ 1 \in 1 .. n + 1 /\ 1 < i + 1
    BY <1>1
  <2>3. CASE Pending[i + 1].index = b
    <3>1. \A h \in 1 + 1 .. (i + 1) - 1 : Pending[h].index # Pending[1].index
      BY <2>1, <2>3 DEF b
    <3>2. Pending[1].state # Pending[i + 1].state
      BY <1>5, <2>2, <2>3, <3>1 DEF Reports, EventsAlternate, NextContradicts, b
    <3> QED
      BY <1>2, <1>4, <2>3, <3>2
  <2>4. CASE Pending[i + 1].index # b
    <3>1. \A h \in 1 .. (i + 1) - 1 : Pending[h].index # Pending[i + 1].index
      BY <2>1, <2>4 DEF b
    <3>2. Pending[i + 1].state # seen[Pending[i + 1].index]
      BY <1>5, <2>2, <3>1 DEF Reports, EventsAlternate, FirstIsNews
    <3>3. Pending[i + 1].index \in Buttons
      BY <1>1, <2>2 DEF Event
    <3> QED
      BY <1>2, <1>4, <2>4, <3>2, <3>3
  <2> QED
    BY <2>3, <2>4
<1>7. NextContradicts'
  <2> SUFFICES ASSUME NEW i \in 1 .. n, NEW j \in 1 .. n,
                      i < j, Pending'[i].index = Pending'[j].index,
                      \A h \in i + 1 .. j - 1 : Pending'[h].index # Pending'[i].index
               PROVE  Pending'[i].state # Pending'[j].state
    BY <1>2 DEF NextContradicts
  <2>1. \A h \in (i + 1) + 1 .. (j + 1) - 1 : Pending[h].index # Pending[i + 1].index
    <3> SUFFICES ASSUME NEW h \in (i + 1) + 1 .. (j + 1) - 1
                 PROVE  Pending[h].index # Pending[i + 1].index
      OBVIOUS
    <3>1. h - 1 \in i + 1 .. j - 1 /\ h - 1 \in 1 .. n /\ (h - 1) + 1 = h
      BY <1>1
    <3> QED
      BY <1>2, <3>1
  <2>2. i + 1 \in 1 .. n + 1 /\ j + 1 \in 1 .. n + 1 /\ i + 1 < j + 1
    BY <1>1
  <2>3. Pending[i + 1].state # Pending[j + 1].state
    BY <1>2, <1>5, <2>1, <2>2 DEF Reports, EventsAlternate, NextContradicts
  <2> QED
    BY <1>2, <2>3
<1>8. StateIsReported'
  <2>1. ASSUME NEW i \in 1 .. n,
               \A j \in i + 1 .. n : Pending'[j].index # Pending'[i].index
        PROVE  Pending'[i].state = state[Pending'[i].index]
    <3>1. \A j \in (i + 1) + 1 .. n + 1 : Pending[j].index # Pending[i + 1].index
      <4> SUFFICES ASSUME NEW j \in (i + 1) + 1 .. n + 1
                   PROVE  Pending[j].index # Pending[i + 1].index
        OBVIOUS
      <4>1. j - 1 \in i + 1 .. n /\ j - 1 \in 1 .. n /\ (j - 1) + 1 = j
        BY <1>1
      <4> QED
        BY <1>2, <2>1, <4>1
    <3>2. i + 1 \in 1 .. n + 1
      BY <1>1
    <3>3. Pending[i + 1].state = state[Pending[i + 1].index]
      BY <1>5, <3>1, <3>2 DEF Reports, StateIsReported
    <3> QED
      BY <1>2, <3>3
  <2>2. ASSUME NEW c \in Buttons, \A i \in 1 .. n : Pending'[i].index # c
        PROVE  seen'[c] = state[c]
    <3>1. \A j \in 2 .. n + 1 : Pending[j].index # c
      <4> SUFFICES ASSUME NEW j \in 2 .. n + 1 PROVE Pending[j].index # c
        OBVIOUS
      <4>1. j - 1 \in 1 .. n /\ (j - 1) + 1 = j
        BY <1>1
      <4> QED
        BY <1>2, <2>2, <4>1
    <3>2. CASE c = b
      <4>1. \A j \in 1 + 1 .. n + 1 : Pending[j].index # Pending[1].index
        BY <3>1, <3>2 DEF b
      <4>2. 1 \in 1 .. n + 1
        BY <1>1
      <4>3. Pending[1].state = state[Pending[1].index]
        BY <1>5, <4>1, <4>2 DEF Reports, StateIsReported
      <4> QED
        BY <1>4, <3>2, <4>3 DEF b
    <3>3. CASE c # b
      <4>1. \A j \in 1 .. n + 1 : Pending[j].index # c
        BY <3>1, <3>3 DEF b
      <4>2. seen[c] = state[c]
        BY <1>5, <4>1 DEF Reports, StateIsReported, NothingPending
      <4> QED
        BY <1>4, <3>3, <4>2
    <3> QED
      BY <3>2, <3>3
  <2> QED
    BY <1>2, <1>4, <2>1, <2>2 DEF StateIsReported, NothingPending
<1> QED
  BY <1>6, <1>7, <1>8 DEF EventsAlternate

LEMMA ReportNext ==
  Reports /\ [Next]_vars => EventsAlternate' /\ StateIsReported'
<1> SUFFICES ASSUME Reports, [Next]_vars PROVE EventsAlternate' /\ StateIsReported'
  OBVIOUS
<1>1. CASE UNCHANGED <<Pending, state, seen>>
  BY <1>1 DEF Reports, EventsAlternate, FirstIsNews, NextContradicts, StateIsReported,
              NothingPending
<1>2. ASSUME NEW b \in Buttons, PinChanges(b) PROVE UNCHANGED <<Pending, state, seen>>
  BY <1>2 DEF PinChanges, delivery, Pending
<1>3. ASSUME NEW b \in Buttons, button_event_interrupt(b)
      PROVE  \/ UNCHANGED <<Pending, state, seen>>
             \/ EventsAlternate' /\ StateIsReported'
  <2>1. CASE notify(b, ~state[b]) /\ state' = [state EXCEPT ![b] = ~@]
    <3>1. ~state[b] # state[b] /\ state' = [state EXCEPT ![b] = ~state[b]]
      BY <2>1 DEF Reports, TypeOK
    <3>2. seen' = seen /\ (~state[b]) \in BOOLEAN
      BY <1>3 DEF button_event_interrupt
    <3> QED
      BY <2>1, <3>1, <3>2, ReportAppends
  <2> QED
    BY <1>3, <2>1 DEF button_event_interrupt, delivery, Pending
<1>4. ASSUME NEW b \in Buttons, button_debounce_cb(b)
      PROVE  \/ UNCHANGED <<Pending, state, seen>>
             \/ EventsAlternate' /\ StateIsReported'
  <2>1. CASE Disagrees(b) /\ notify(b, pin[b]) /\ state' = [state EXCEPT ![b] = pin[b]]
    <3>1. pin[b] # state[b] /\ pin[b] \in BOOLEAN
      BY <2>1 DEF Disagrees, Reports, TypeOK
    <3>2. seen' = seen
      BY <1>4 DEF button_debounce_cb
    <3> QED
      BY <2>1, <3>1, <3>2, ReportAppends
  <2> QED
    BY <1>4, <2>1 DEF button_debounce_cb, delivery, Pending
<1>5. CASE button_event_handler
  BY <1>5, HandlerTakes
<1>6. CASE button_event_get
  BY <1>1, <1>6, GetKeepsPending DEF button_event_get, Reports
<1>7. CASE UNCHANGED vars
  BY <1>1, <1>7 DEF vars, Pending
<1> QED
  BY <1>1, <1>2, <1>3, <1>4, <1>5, <1>6, <1>7 DEF Next

LEMMA ReportsInductive == Spec => []Reports
<1>1. Init => Reports
  BY TypeInit, ReportInit DEF Reports
<1>2. Reports /\ [Next]_vars => Reports'
  BY TypeNext, ReportNext DEF Reports
<1> QED
  BY <1>1, <1>2, PTL DEF Spec

\* The button thread sees the presses and releases of a button alternately.
THEOREM EventsAlwaysAlternate == Spec => []EventsAlternate
<1>1. Reports => EventsAlternate
  BY DEF Reports
<1> QED
  BY <1>1, ReportsInductive, PTL

\* button_config.state is always what was last reported, refusals included.
THEOREM StateAlwaysReported == Spec => []StateIsReported
<1>1. Reports => StateIsReported
  BY DEF Reports
<1> QED
  BY <1>1, ReportsInductive, PTL

-----------------------------------------------------------------------------
(* The edges that are ignored and the verification of the guess made at one. *)
Debounce == TypeOK /\ VerifiedAtRest /\ IgnoredOnlyWhileTimed

LEMMA DebounceInit == Init => VerifiedAtRest /\ IgnoredOnlyWhileTimed
BY DEF Init, VerifiedAtRest, IgnoredOnlyWhileTimed

LEMMA DebounceNext ==
  Debounce /\ [Next]_vars => VerifiedAtRest' /\ IgnoredOnlyWhileTimed'
<1> SUFFICES ASSUME Debounce, [Next]_vars PROVE VerifiedAtRest' /\ IgnoredOnlyWhileTimed'
  OBVIOUS
<1> USE DEF Debounce, TypeOK, VerifiedAtRest, IgnoredOnlyWhileTimed
<1>1. ASSUME NEW b \in Buttons, PinChanges(b)
      PROVE  VerifiedAtRest' /\ IgnoredOnlyWhileTimed'
  BY <1>1 DEF PinChanges
<1>2. ASSUME NEW b \in Buttons, button_event_interrupt(b)
      PROVE  VerifiedAtRest' /\ IgnoredOnlyWhileTimed'
  BY <1>2 DEF button_event_interrupt, StartTimer
<1>3. ASSUME NEW b \in Buttons, button_debounce_cb(b)
      PROVE  VerifiedAtRest' /\ IgnoredOnlyWhileTimed'
  BY <1>3 DEF button_debounce_cb, Disagrees
<1>4. CASE button_event_get \/ button_event_handler
  BY <1>4 DEF button_event_get, button_event_handler
<1>5. CASE UNCHANGED vars
  BY <1>5 DEF vars
<1> QED
  BY <1>1, <1>2, <1>3, <1>4, <1>5 DEF Next

LEMMA DebounceInductive == Spec => []Debounce
<1>1. Init => Debounce
  BY TypeInit, DebounceInit DEF Debounce
<1>2. Debounce /\ [Next]_vars => Debounce'
  BY TypeNext, DebounceNext DEF Debounce
<1> QED
  BY <1>1, <1>2, PTL DEF Spec

\* A button at rest was reported as its pin is, or the reason why it could not
\* be (a refused report, a failed read) has occurred since it was last verified.
THEOREM RestAlwaysVerified == Spec => []VerifiedAtRest
<1>1. Debounce => VerifiedAtRest
  BY DEF Debounce
<1> QED
  BY <1>1, DebounceInductive, PTL

\* No button stays deaf to its edges without a timer that will end it, but for
\* one whose pin could not be read.
THEOREM AlwaysListensAgain == Spec => []IgnoredOnlyWhileTimed
<1>1. Debounce => IgnoredOnlyWhileTimed
  BY DEF Debounce
<1> QED
  BY <1>1, DebounceInductive, PTL

-----------------------------------------------------------------------------
(* The composition.  AP is the arpeggiator of Controls with what was proved *)
(* of it; the two instances are one module under one substitution.          *)
AP == INSTANCE ArpeggioProofs WITH Notes <- ButtonNotes, down <- Told

LEMMA KeyMapValues ==
  ASSUME KeyMapSound
  PROVE  /\ MAX_NOTES \in Nat \ {0} /\ DIVIDER \in Nat \ {0}
         /\ ButtonNotes \subseteq 1 .. 255 - 12 * (AP!MAX_OCTAVES - 1)
BY DEF KeyMapSound, ButtonNotes, Arp!MAX_OCTAVES, AP!MAX_OCTAVES

LEMMA SameInit == Arp!Init => AP!Init
BY DEF Arp!Init, AP!Init, Arp!Indices, AP!Indices, Arp!InitialList, AP!InitialList,
       Arp!InitialNotes, AP!InitialNotes, Arp!Positions, AP!Positions, Arp!Keys, AP!Keys,
       Arp!Unused, AP!Unused, Arp!Outside, AP!Outside

LEMMA SameNext == Arp!Next => AP!Next
<1> USE DEF Arp!ButtonThreadRuns, AP!ButtonThreadRuns, Arp!MutexFree, AP!MutexFree,
            Arp!Indices, AP!Indices, Arp!keys, AP!keys, Arp!held, AP!held,
            Arp!RestartStores, AP!RestartStores
<1>1. ASSUME NEW n \in ButtonNotes, Arp!note_add(n) PROVE AP!note_add(n)
  BY <1>1 DEF Arp!note_add, AP!note_add, Arp!arpeggio_note_add, AP!arpeggio_note_add,
              Arp!Without, AP!Without
<1>2. ASSUME NEW n \in ButtonNotes, Arp!note_remove(n) PROVE AP!note_remove(n)
  BY <1>2 DEF Arp!note_remove, AP!note_remove, Arp!arpeggio_note_remove,
              AP!arpeggio_note_remove, Arp!Without, AP!Without,
              Arp!IndexAfterRemoval, AP!IndexAfterRemoval
<1>3. ASSUME NEW s \in Arp!RestartStores, Arp!RestartStore(s) PROVE AP!RestartStore(s)
  BY <1>3 DEF Arp!RestartStore, AP!RestartStore
<1>4. Arp!Unlock => AP!Unlock
  BY DEF Arp!Unlock, AP!Unlock, Arp!Outside, AP!Outside
<1>5. Arp!arpeggio_tick => AP!arpeggio_tick
  <2>1. Arp!TickCounts => AP!TickCounts
    BY DEF Arp!TickCounts, AP!TickCounts, Arp!Counted, AP!Counted
  <2>2. Arp!TickStops => AP!TickStops
    BY DEF Arp!TickStops, AP!TickStops, Arp!MustStop, AP!MustStop, Arp!Positions,
           AP!Positions, Arp!StopFinds, AP!StopFinds, Arp!StopReinsertsAt,
           AP!StopReinsertsAt, Arp!Relinked, AP!Relinked, Arp!StoppedNotes,
           AP!StoppedNotes, Arp!Unused, AP!Unused
  <2>3. Arp!TickDisables => AP!TickDisables
    BY DEF Arp!TickDisables, AP!TickDisables
  <2>4. Arp!TickPlays => AP!TickPlays
    BY DEF Arp!TickPlays, AP!TickPlays, Arp!NextIndex, AP!NextIndex, Arp!MAX_OCTAVES,
           AP!MAX_OCTAVES, Arp!PlayedList, AP!PlayedList, Arp!PlayedNotes,
           AP!PlayedNotes, Arp!PlayedKey, AP!PlayedKey, Arp!Relinked, AP!Relinked,
           Arp!Positions, AP!Positions
  <2>5. Arp!TickEnds => AP!TickEnds
    BY DEF Arp!TickEnds, AP!TickEnds, Arp!Counted, AP!Counted
  <2> QED
    BY <2>1, <2>2, <2>3, <2>4, <2>5 DEF Arp!arpeggio_tick, AP!arpeggio_tick
<1> QED
  BY <1>1, <1>2, <1>3, <1>4, <1>5 DEF Arp!Next, AP!Next, Arp!ButtonThread, AP!ButtonThread

-----------------------------------------------------------------------------
(* Every step of the composition is a step of Button. *)

LEMMA ControlsStepsButton == [ControlsNext]_controlVars => [Next]_vars
<1> SUFFICES ASSUME [ControlsNext]_controlVars PROVE [Next]_vars
  OBVIOUS
<1>1. CASE ButtonEventGet
  BY <1>1 DEF ButtonEventGet, Next
<1>2. CASE ButtonInterrupt
  BY <1>2 DEF ButtonInterrupt, Next
<1>3. CASE synthesizer_key_event
  BY <1>3 DEF synthesizer_key_event, Next
<1>4. CASE FinishNoteAdd \/ EncoderTick
  BY <1>4 DEF FinishNoteAdd, EncoderTick
<1>5. CASE UNCHANGED controlVars
  BY <1>5 DEF controlVars
<1> QED
  BY <1>1, <1>2, <1>3, <1>4, <1>5 DEF ControlsNext

\* The interrupts and the queue work as Button.tla has them, whatever the
\* arpeggiator does in between, so that all that is proved of it holds here.
THEOREM ControlsKeepButton == ControlsSpec => ButtonSafety
<1>1. ControlsInit => Init
  BY DEF ControlsInit
<1> QED
  BY <1>1, ControlsStepsButton, PTL DEF ControlsSpec, ButtonSafety

ButtonInv == Reports /\ Debounce

LEMMA ButtonInvInit == ControlsInit => ButtonInv
BY TypeInit, ReportInit, DebounceInit DEF ControlsInit, ButtonInv, Reports, Debounce

LEMMA ButtonInvNext == ButtonInv /\ [ControlsNext]_controlVars => ButtonInv'
BY ControlsStepsButton, TypeNext, ReportNext, DebounceNext DEF ButtonInv, Reports, Debounce

-----------------------------------------------------------------------------
(* And a step of Arpeggio, whose alternation of presses and releases is the *)
(* one of what is pending.                                                  *)

\* The arpeggiator hears of a press as of a button that was up, and of a release
\* as of one that was down: the event in the thread's hands is news.
LEMMA PassesAlternately ==
  ASSUME ButtonInv, KeyMapSound, synthesizer_key_event
  PROVE  \E n \in ButtonNotes :
           \/ n \notin Told /\ Told' = Told \cup {n} /\ Arp!arpeggio_note_add(n)
           \/ n \in Told /\ Told' = Told \ {n} /\ Arp!arpeggio_note_remove(n)
<1> DEFINE e == taken[1]
           n == key_map[e.index]
<1>1. e \in Event /\ e = Pending[1] /\ 1 \in 1 .. Len(Pending)
  <2>1. Pending \in Seq(Event) /\ Pending # <<>> /\ Head(Pending) = e
    BY PendingType, HandlerTakesHead DEF ButtonInv, Reports, synthesizer_key_event
  <2> QED
    BY <2>1, HeadTailProperties
<1>2. seen' = [seen EXCEPT ![e.index] = e.state]
  BY DEF synthesizer_key_event, button_event_handler
<1>3. \/ e.state /\ Arp!arpeggio_note_add(n)
      \/ ~e.state /\ Arp!arpeggio_note_remove(n)
  BY DEF synthesizer_key_event
<1> HIDE DEF e
<1>4. e.state # seen[e.index]
  BY <1>1 DEF ButtonInv, Reports, EventsAlternate, FirstIsNews
<1>5. e.index \in Buttons /\ e.state \in BOOLEAN /\ seen \in [Buttons -> BOOLEAN]
  BY <1>1 DEF Event, ButtonInv, Reports, TypeOK
<1>6. \A b \in Buttons : seen'[b] = IF b = e.index THEN e.state ELSE seen[b]
  BY <1>2, <1>5
<1>7. \A b \in Buttons : key_map[b] = n => b = e.index
  BY <1>5 DEF KeyMapSound
<1>8. n \in ButtonNotes
  BY <1>5 DEF ButtonNotes
<1>9. n \in Told <=> ~e.state
  BY <1>4, <1>5, <1>7 DEF Told
<1>10. n \in Told' <=> e.state
  BY <1>5, <1>6, <1>7 DEF Told
<1>11. ASSUME NEW m, m # n PROVE m \in Told' <=> m \in Told
  BY <1>6, <1>11 DEF Told
<1> HIDE DEF n
<1>12. CASE e.state
  <2>1. Told' = Told \cup {n}
    BY <1>9, <1>10, <1>11, <1>12
  <2> QED
    BY <1>3, <1>8, <1>9, <1>12, <2>1
<1>13. CASE ~e.state
  <2>1. Told' = Told \ {n}
    BY <1>9, <1>10, <1>11, <1>13
  <2> QED
    BY <1>3, <1>8, <1>9, <1>13, <2>1
<1> QED
  BY <1>12, <1>13

LEMMA ControlsStepsArpeggio ==
  ASSUME ButtonInv, KeyMapSound, [ControlsNext]_controlVars
  PROVE  [Arp!Next]_(Arp!vars)
<1>1. CASE ButtonEventGet
  BY <1>1 DEF ButtonEventGet, button_event_get, Told, Arp!vars, arpVars
<1>2. CASE synthesizer_key_event
  <2>1. PICK n \in ButtonNotes :
           \/ n \notin Told /\ Told' = Told \cup {n} /\ Arp!arpeggio_note_add(n)
           \/ n \in Told /\ Told' = Told \ {n} /\ Arp!arpeggio_note_remove(n)
    BY <1>2, PassesAlternately
  <2>2. Arp!note_add(n) \/ Arp!note_remove(n)
    BY <2>1 DEF Arp!note_add, Arp!note_remove
  <2> QED
    BY <2>2 DEF Arp!Next, Arp!ButtonThread
<1>3. CASE FinishNoteAdd
  BY <1>3 DEF FinishNoteAdd, Arp!Next, Arp!ButtonThread
<1>4. CASE EncoderTick
  BY <1>4 DEF EncoderTick, Arp!Next
<1>5. CASE ButtonInterrupt
  <2>1. UNCHANGED seen
    BY <1>5 DEF ButtonInterrupt, PinChanges, button_event_interrupt, button_debounce_cb
  <2>2. Told' = Told
    BY <2>1 DEF Told
  <2> QED
    BY <1>5, <2>2 DEF ButtonInterrupt, Arp!vars, arpVars
<1>6. CASE UNCHANGED controlVars
  <2>1. Told' = Told
    BY <1>6 DEF controlVars, vars, Told
  <2> QED
    BY <1>6, <2>1 DEF controlVars, Arp!vars, arpVars
<1> QED
  BY <1>1, <1>2, <1>3, <1>4, <1>5, <1>6 DEF ControlsNext

LEMMA ButtonInvAlways == ControlsSpec => []ButtonInv
BY ButtonInvInit, ButtonInvNext, PTL DEF ControlsSpec

\* What Arpeggio.tla assumes of button.c is what Button.tla promises: with a note
\* of its own for each button, the composition implements the arpeggiator, and
\* everything proved of that holds here too.
THEOREM ControlsKeepArpeggio ==
  ASSUME KeyMapSound PROVE ControlsSpec => ArpeggioSafety
<1>1. ControlsInit => Arp!Init
  BY DEF ControlsInit
<1>2. ButtonInv /\ [ControlsNext]_controlVars => [Arp!Next]_(Arp!vars)
  BY ControlsStepsArpeggio
<1> QED
  BY <1>1, <1>2, ButtonInvAlways, PTL DEF ControlsSpec, ArpeggioSafety

-----------------------------------------------------------------------------
(* Where the two meet. *)

LEMMA HeldNotesAlways ==
  ASSUME KeyMapSound PROVE ControlsSpec => [](AP!HeldInv /\ AP!NotesArePressed)
<1>0. /\ MAX_NOTES \in Nat \ {0} /\ DIVIDER \in Nat \ {0}
      /\ ButtonNotes \subseteq 1 .. 255 - 12 * (AP!MAX_OCTAVES - 1)
  BY KeyMapValues
<1>1. AP!Init => AP!HeldInv /\ AP!NotesArePressed
  <2>1. AP!Init => AP!HeldInv
    BY <1>0, AP!HeldInvInit
  <2>2. AP!Init => AP!NotesArePressed
    BY DEF AP!Init, AP!NotesArePressed
  <2> QED
    BY <2>1, <2>2
<1>2. AP!HeldInv /\ AP!NotesArePressed /\ [AP!Next]_(AP!vars)
        => AP!HeldInv' /\ AP!NotesArePressed'
  BY <1>0, AP!HeldInvNext, AP!NotesArePressedNext
<1>3. Arp!Init => AP!Init
  BY SameInit
<1>4. [Arp!Next]_(Arp!vars) => [AP!Next]_(AP!vars)
  BY SameNext DEF Arp!vars, AP!vars
<1> QED
  BY <1>1, <1>2, <1>3, <1>4, ControlsKeepArpeggio, PTL DEF ArpeggioSafety

\* A note sounds on only for a button that is physically down or about which the
\* controls still have something to say: no release is lost between an edge of a
\* pin and the array of held notes but for a refused report or a failed read.
THEOREM NotesAlwaysFollowPins ==
  ASSUME KeyMapSound PROVE ControlsSpec => []NotesFollowPins
<1>1. ButtonInv /\ AP!NotesArePressed => NotesFollowPins
  <2> SUFFICES ASSUME ButtonInv, AP!NotesArePressed, NEW i \in 0 .. len - 1
               PROVE  \E b \in Buttons : notes[i] = key_map[b] /\ (pin[b] \/ ~AtRest(b))
    BY DEF NotesFollowPins
  <2>1. notes[i] \in Told
    BY DEF AP!NotesArePressed
  <2>2. PICK b \in Buttons : seen[b] /\ notes[i] = key_map[b]
    BY <2>1 DEF Told
  <2>3. ASSUME AtRest(b) PROVE pin[b]
    <3>1. seen[b] = state[b]
      BY <2>3 DEF AtRest, ButtonInv, Reports, StateIsReported
    <3>2. state[b] = pin[b]
      BY <2>3 DEF AtRest, ButtonInv, Debounce, VerifiedAtRest
    <3> QED
      BY <2>2, <3>1, <3>2
  <2> QED
    BY <2>2, <2>3
<1> QED
  BY <1>1, ButtonInvAlways, HeldNotesAlways, PTL

\* No note is held twice, so that the one removal by its release ends it.
THEOREM NotesAlwaysHeldOnce ==
  ASSUME KeyMapSound PROVE ControlsSpec => []HeldOnce
<1>1. AP!NotesArePressed => HeldOnce
  BY DEF AP!NotesArePressed, HeldOnce
<1> QED
  BY <1>1, HeldNotesAlways, PTL
=============================================================================
