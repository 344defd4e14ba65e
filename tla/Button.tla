-------------------------------- MODULE Button --------------------------------
(***************************************************************************)
(* io/button.c and the button thread of main.c: edges of the button pins   *)
(* raise an interrupt that reports the toggled state at once and starts a  *)
(* debounce timer; edges are ignored until the timer's callback compares   *)
(* the pin with the reported state and reports again if they differ.       *)
(* Reports go to the button thread: into its hands when it waits for one,  *)
(* else into a message queue of QUEUE_SIZE entries, which refuses them     *)
(* when it is full.                                                        *)
(*                                                                         *)
(* The timer interrupt has priority over the GPIO interrupt, and a button  *)
(* has its timer running only while its edges are ignored, so each handler *)
(* is one step.  The model starts when button_init has returned; the       *)
(* button thread, started before main and above it, has long been waiting. *)
(***************************************************************************)
EXTENDS Integers, Sequences

CONSTANTS Buttons,          \* the indices of _button_config
          QUEUE_SIZE,       \* BUTTON_EVENTS_MSGQ_MAX_ELEMENTS
          ReadsMayFail,     \* whether gpio_pin_get can return an error
          ThreadKeepsUp     \* whether the thread has passed everything on and waits
                            \* whenever a debounce time is over

ASSUME ButtonAssumption ==
  /\ QUEUE_SIZE \in Nat \ {0}
  /\ ReadsMayFail \in BOOLEAN
  /\ ThreadKeepsUp \in BOOLEAN

VARIABLES
  pin,          \* whether the button is physically down
  edge,         \* an edge is latched and its interrupt not yet served
  ongoing,      \* debounce_ongoing
  timer,        \* the debounce timer runs
  state,        \* button_config.state, TRUE for BUTTON_PRESSED
  queue,        \* _button_msg_queue, of struct button_event
  waiting,      \* the button thread is blocked in k_msgq_get(K_FOREVER)
  taken,        \* the event in the hands of the button thread: <<>> or <<event>>
  seen,         \* the state of each button as the thread last passed it on
  unverified    \* history: a report was refused, or a read failed, since the
                \* pin was last compared with state

vars == <<pin, edge, ongoing, timer, state, queue, waiting, taken, seen, unverified>>
delivery == <<queue, waiting, taken>>

Event == [index : Buttons, state : BOOLEAN]

\* button_init: the state is read from the pin, BUTTON_RELEASED if that fails.
Init ==
  /\ pin \in [Buttons -> BOOLEAN]
  /\ \E failed \in IF ReadsMayFail THEN SUBSET Buttons ELSE {{}} :
        /\ state = [b \in Buttons |-> pin[b] /\ b \notin failed]
        /\ unverified = [b \in Buttons |-> b \in failed]
  /\ edge = [b \in Buttons |-> FALSE]
  /\ ongoing = [b \in Buttons |-> FALSE]
  /\ timer = [b \in Buttons |-> FALSE]
  /\ queue = <<>> /\ waiting = TRUE /\ taken = <<>>
  /\ seen = state

\* A press, a release or a bounce of the contact.
PinChanges(b) ==
  /\ pin' = [pin EXCEPT ![b] = ~@]
  /\ edge' = [edge EXCEPT ![b] = TRUE]
  /\ UNCHANGED <<ongoing, timer, state, delivery, seen, unverified>>

\* _button_state_notify.  A waiting thread is handed the event (k_msgq_put) and
\* takes no place of the queue; it only waits when that is empty.
QueueFull_Never == FALSE
QueueFull == Len(queue) >= QUEUE_SIZE

notify_Unchecked(b, s) ==
  LET event == [index |-> b, state |-> s]
  IN  \/ waiting /\ waiting' = FALSE /\ taken' = <<event>> /\ UNCHANGED queue
      \/ /\ ~waiting /\ UNCHANGED <<waiting, taken>>
         /\ queue' = IF Len(queue) = QUEUE_SIZE - 1 THEN queue ELSE Append(queue, event)
notify(b, s) ==
  LET event == [index |-> b, state |-> s]
  IN  \/ waiting /\ waiting' = FALSE /\ taken' = <<event>> /\ UNCHANGED queue
      \/ ~waiting /\ queue' = Append(queue, event) /\ UNCHANGED <<waiting, taken>>

StartTimer_Missing(b) == UNCHANGED timer
StartTimer(b) == timer' = [timer EXCEPT ![b] = TRUE]

button_event_interrupt(b) ==
  /\ edge[b]
  /\ edge' = [edge EXCEPT ![b] = FALSE]
  /\ \/ /\ ongoing[b]
        /\ UNCHANGED <<ongoing, timer, state, delivery, unverified>>
     \/ /\ ~ongoing[b] /\ QueueFull
        /\ unverified' = [unverified EXCEPT ![b] = TRUE]
        /\ UNCHANGED <<ongoing, timer, state, delivery>>
     \/ /\ ~ongoing[b] /\ ~QueueFull
        /\ notify(b, ~state[b])
        /\ ongoing' = [ongoing EXCEPT ![b] = TRUE]
        /\ state' = [state EXCEPT ![b] = ~@]
        /\ StartTimer(b)
        /\ UNCHANGED unverified
  /\ UNCHANGED <<pin, seen>>

Disagrees_Never(b)  == FALSE
Disagrees_Always(b) == TRUE
Disagrees(b) == pin[b] # state[b]

\* What was reported and not yet passed on, the oldest first.
Pending == taken \o queue
NothingPending(b) == \A i \in 1 .. Len(Pending) : Pending[i].index # b

\* The timer is one-shot.  When the pin cannot be read nothing else happens.
button_debounce_cb(b) ==
  /\ timer[b]
  /\ ThreadKeepsUp => waiting
  /\ timer' = [timer EXCEPT ![b] = FALSE]
  /\ \/ /\ ReadsMayFail
        /\ unverified' = [unverified EXCEPT ![b] = TRUE]
        /\ UNCHANGED <<ongoing, state, delivery>>
     \/ /\ ongoing' = [ongoing EXCEPT ![b] = FALSE]
        /\ \/ /\ ~Disagrees(b)
              /\ unverified' = [unverified EXCEPT ![b] = FALSE]
              /\ UNCHANGED <<state, delivery>>
           \/ /\ Disagrees(b) /\ QueueFull
              /\ unverified' = [unverified EXCEPT ![b] = TRUE]
              /\ UNCHANGED <<state, delivery>>
           \/ /\ Disagrees(b) /\ ~QueueFull
              /\ notify(b, pin[b])
              /\ state' = [state EXCEPT ![b] = pin[b]]
              /\ unverified' = [unverified EXCEPT ![b] = FALSE]
  /\ UNCHANGED <<pin, edge, seen>>

\* A thread runs when no interrupt waits to be served.
ThreadRuns == \A b \in Buttons : ~edge[b]

\* The button thread's loop: it gets an event, or waits for one if there is none,
button_event_get ==
  /\ ThreadRuns /\ ~waiting /\ taken = <<>>
  /\ \/ queue # <<>> /\ taken' = <<Head(queue)>> /\ queue' = Tail(queue) /\ UNCHANGED waiting
     \/ queue = <<>> /\ waiting' = TRUE /\ UNCHANGED <<queue, taken>>
  /\ UNCHANGED <<pin, edge, ongoing, timer, state, seen, unverified>>

\* and passes it on to the synthesizer.
button_event_handler ==
  /\ ThreadRuns /\ taken # <<>>
  /\ seen' = [seen EXCEPT ![taken[1].index] = taken[1].state]
  /\ taken' = <<>>
  /\ UNCHANGED <<pin, edge, ongoing, timer, state, queue, waiting, unverified>>

Next ==
  \/ \E b \in Buttons : \/ PinChanges(b)
                        \/ button_event_interrupt(b)
                        \/ button_debounce_cb(b)
  \/ button_event_get \/ button_event_handler

\* Pending interrupts are served, running timers expire, and the thread runs.
Fairness ==
  /\ \A b \in Buttons : WF_vars(button_event_interrupt(b)) /\ WF_vars(button_debounce_cb(b))
  /\ WF_vars(button_event_get) /\ WF_vars(button_event_handler)

Spec == Init /\ [][Next]_vars /\ Fairness

-----------------------------------------------------------------------------
\* Types of the variables; a thread that waits has left nothing in the queue.
TypeOK ==
  /\ pin \in [Buttons -> BOOLEAN]
  /\ edge \in [Buttons -> BOOLEAN]
  /\ ongoing \in [Buttons -> BOOLEAN]
  /\ timer \in [Buttons -> BOOLEAN]
  /\ state \in [Buttons -> BOOLEAN]
  /\ seen \in [Buttons -> BOOLEAN]
  /\ unverified \in [Buttons -> BOOLEAN]
  /\ queue \in Seq(Event) /\ Len(queue) =< QUEUE_SIZE
  /\ waiting \in BOOLEAN
  /\ taken = <<>> \/ \E e \in Event : taken = <<e>>
  /\ waiting => queue = <<>> /\ taken = <<>>

\* The first pending event of a button tells the synthesizer something new, and
\* each later one contradicts the one before.
FirstIsNews ==
  \A i \in 1 .. Len(Pending) :
    (\A h \in 1 .. i - 1 : Pending[h].index # Pending[i].index)
      => Pending[i].state # seen[Pending[i].index]

NextContradicts ==
  \A i, j \in 1 .. Len(Pending) :
    i < j /\ Pending[i].index = Pending[j].index
          /\ (\A h \in i + 1 .. j - 1 : Pending[h].index # Pending[i].index)
      => Pending[i].state # Pending[j].state

\* Presses and releases of a button reach the synthesizer alternately, whatever
\* the pin does and whichever reports are refused: a note is never added twice.
EventsAlternate == FirstIsNews /\ NextContradicts

\* state is always what was last reported, so a refused report is never taken
\* for one that was made (the early returns at button.c 134 and 164).
StateIsReported ==
  /\ \A i \in 1 .. Len(Pending) :
       (\A j \in i + 1 .. Len(Pending) : Pending[j].index # Pending[i].index)
         => Pending[i].state = state[Pending[i].index]
  /\ \A b \in Buttons : NothingPending(b) => seen[b] = state[b]

\* A button at rest (edges not ignored, none waiting) was reported right: its
\* guess at the edge has been verified, or a refusal or failed read is recorded.
VerifiedAtRest ==
  \A b \in Buttons :
    ~ongoing[b] /\ ~edge[b] /\ ~unverified[b] => state[b] = pin[b]

\* A button whose edges are ignored has a timer that will end it, unless its
\* pin could not be read when the timer expired.
IgnoredOnlyWhileTimed ==
  \A b \in Buttons : ongoing[b] => timer[b] \/ (ReadsMayFail /\ unverified[b])

\* Once the pins rest, the synthesizer gets to know them, unless to the end a refused
\* report or failed read stands: each wrong guess at an edge is corrected by a
\* debounce callback.
CorrectedUnlessRefused ==
  <>[](\A b \in Buttons : ~unverified[b]) /\ <>[][FALSE]_pin => <>[](seen = pin)

\* README.md 52: "This will result in occasional wrong button states, but
\* corrected again after the debounce time".  So when a button has no edge, no
\* debounce time and no event left to wait for, the synthesizer knows its pin.
CorrectedAfterDebounce ==
  \A b \in Buttons :
    ~ongoing[b] /\ ~edge[b] /\ NothingPending(b) => seen[b] = pin[b]
=============================================================================
