----------------------------- MODULE GatewayProofs -----------------------------
(***************************************************************************)
(* Slots, links and CIS belong together, the CIS work never finds its      *)
(* queue empty nor forgets a headset, and the search for headsets goes on, *)
(* for any headsets, any number of slots and any number of attempts.       *)
(***************************************************************************)
EXTENDS Gateway, TLAPS

LEMMA TypeInit == Init => TypeOK
BY GatewayAssumption DEF Init, TypeOK, Slots, Idle, LinkedStates, InSetUp, Request

\* A request put where there is room (k_msgq_put at ble_transmit.c 389 and 1173).
LEMMA PutKeepsQueue ==
  ASSUME requests \in Seq(Request), HasRoom, NEW r \in Request
  PROVE  /\ Append(requests, r) \in Seq(Request)
         /\ Len(Append(requests, r)) <= CONFIG_BT_MAX_CONN
<1>1. Append(requests, r) \in Seq(Request)
  OBVIOUS
<1>2. Len(Append(requests, r)) = Len(requests) + 1 /\ Len(requests) \in Nat
  OBVIOUS
<1> QED
  BY <1>1, <1>2, GatewayAssumption DEF HasRoom

LEMMA TypeNext == TypeOK /\ [Next]_vars => TypeOK'
<1> SUFFICES ASSUME TypeOK, [Next]_vars PROVE TypeOK'
  OBVIOUS
<1> USE GatewayAssumption DEF TypeOK, InSetUp, LinkedStates, acl, iso
<1>1. CASE work_scan_start
  BY <1>1 DEF work_scan_start
<1>2. ASSUME NEW h \in Headsets, device_found(h) PROVE TypeOK'
  BY <1>2 DEF device_found
<1>3. ASSUME NEW h \in Headsets, on_connected_cb(h) PROVE TypeOK'
  BY <1>3 DEF on_connected_cb
<1>4. ASSUME NEW h \in Headsets, security_changed_cb(h) PROVE TypeOK'
  <2>1. PICK s \in {"exchanging", "closing", "stalled"} : link' = [link EXCEPT ![h] = s]
    BY <1>4 DEF security_changed_cb
  <2>2. unattended' \in BOOLEAN
    BY <1>4 DEF security_changed_cb
  <2>3. UNCHANGED <<scanning, scanWork, peer, iso>>
    BY <1>4 DEF security_changed_cb
  <2> QED
    BY <2>1, <2>2, <2>3
<1>5. ASSUME NEW h \in Headsets, mtu_exchange_handler(h) PROVE TypeOK'
  <2>1. /\ link' \in [Headsets -> InSetUp \cup LinkedStates \cup {"none"}]
        /\ scanning' \in BOOLEAN /\ scanWork' \subseteq {"acl", "mtu"}
        /\ unattended' \in BOOLEAN /\ UNCHANGED <<peer, worker, cis>>
    BY <1>5 DEF mtu_exchange_handler
  <2>2. /\ requests' \in Seq(Request) /\ Len(requests') <= CONFIG_BT_MAX_CONN
        /\ cisWork' \in {"idle", "now", "later"}
        /\ fault' \in {"none", "security", "discover", "requests", "get", "retry", "null"}
    <3>1. CASE UNCHANGED iso
      BY <3>1
    <3>2. CASE cis_connect(h)
      <4>1. PICK i \in Slots :
              IF HasRoom
              THEN /\ requests' = Append(requests, RequestFor(i))
                   /\ cisWork' = Scheduled(i) /\ UNCHANGED fault
              ELSE fault' = "requests" /\ UNCHANGED <<requests, cisWork>>
        BY <3>2 DEF cis_connect
      <4>2. RequestFor(i) \in Request
        BY DEF Request, RequestFor
      <4>3. CASE HasRoom
        BY <4>1, <4>2, <4>3, PutKeepsQueue DEF Scheduled
      <4>4. CASE ~HasRoom
        BY <4>1, <4>4
      <4> QED
        BY <4>3, <4>4
    <3>3. CASE fault' = "discover" /\ UNCHANGED <<requests, cisWork>>
      BY <3>3
    <3> QED
      BY <1>5, <3>1, <3>2, <3>3 DEF mtu_exchange_handler
  <2> QED
    BY <2>1, <2>2
<1>6. ASSUME NEW h \in Headsets, on_disconnected_cb(h) PROVE TypeOK'
  BY <1>6 DEF on_disconnected_cb, Released
<1>7. CASE work_takes
  <2>1. CASE requests = <<>>
    BY <1>7, <2>1 DEF work_takes
  <2>2. CASE requests # <<>>
    <3>1. Head(requests) \in Request /\ Tail(requests) \in Seq(Request)
          /\ Len(Tail(requests)) <= CONFIG_BT_MAX_CONN
      BY <2>2
    <3>2. worker' = [channel |-> Head(requests).channel,
                     retries |-> Head(requests).retries + 1,
                     acl |-> peer[Head(requests).channel],
                     live |-> Linked(peer[Head(requests).channel]),
                     busy |-> TRUE]
      BY <1>7, <2>2 DEF work_takes
    <3>3. worker' \in [channel : Slots, retries : 0 .. CIS_CONN_RETRY_TIMES,
                       acl : Headsets \cup {NoConn}, live : BOOLEAN, busy : BOOLEAN]
      BY <3>1, <3>2 DEF Request, Linked
    <3> QED
      BY <1>7, <2>2, <3>1, <3>3 DEF work_takes
  <2> QED
    BY <2>1, <2>2
<1>8. Idle \in [channel : Slots, retries : 0 .. CIS_CONN_RETRY_TIMES,
                acl : Headsets \cup {NoConn}, live : BOOLEAN, busy : BOOLEAN]
  BY DEF Idle, Slots
<1>9. CASE work_connects
  BY <1>8, <1>9 DEF work_connects
<1>10. CASE work_retries
  <2>1. [channel |-> worker.channel, retries |-> worker.retries] \in Request
    BY <1>10 DEF work_retries, Request
  <2>2. CASE HasRoom
    <3>1. requests' = Append(requests, [channel |-> worker.channel, retries |-> worker.retries])
          /\ cisWork' = "later" /\ worker' = Idle /\ UNCHANGED <<fault, acl, cis>>
      BY <1>10, <2>2 DEF work_retries, Requeued
    <3>2. requests' \in Seq(Request) /\ Len(requests') <= CONFIG_BT_MAX_CONN
      BY <2>1, <2>2, <3>1, PutKeepsQueue
    <3> QED
      BY <1>8, <3>1, <3>2
  <2>3. CASE ~HasRoom
    BY <1>8, <1>10, <2>3 DEF work_retries
  <2> QED
    BY <2>2, <2>3
<1>11. CASE work_gives_up
  BY <1>8, <1>11 DEF work_gives_up
<1>12. ASSUME NEW i \in Slots, cis_changes(i) PROVE TypeOK'
  BY <1>12 DEF cis_changes
<1>13. CASE UNCHANGED vars
  BY <1>13 DEF vars
<1> QED
  BY <1>1, <1>2, <1>3, <1>4, <1>5, <1>6, <1>7, <1>9, <1>10, <1>11, <1>12, <1>13
  DEF Next, work_iso_cis_conn

\* Types of the variables; the request queue never exceeds its size
\* (_kwork_msgq, ble_transmit.c 66), and no request is retried too often.
THEOREM GatewayTypeCorrect == Spec => []TypeOK
BY TypeInit, TypeNext, PTL DEF Spec

-----------------------------------------------------------------------------
(* Slots, links and CIS.  A CIS may only come up on a slot whose headset the *)
(* work read before it waited: as long as that headset has had its link      *)
(* since, the slot is still its own.                                         *)

WorkerInv ==
  worker.live =>
    /\ worker.busy /\ worker.acl \in Headsets
    /\ peer[worker.channel] = worker.acl
    /\ link[worker.acl] \notin {"none", "creating"}

SlotInv == OneSlotPerLink /\ WorkerInv

LEMMA SlotInvInit == Init => SlotInv
BY DEF Init, SlotInv, OneSlotPerLink, WorkerInv, Idle

LEMMA SlotInvNext == TypeOK /\ SlotInv /\ [Next]_vars => SlotInv'
<1> SUFFICES ASSUME TypeOK, SlotInv, [Next]_vars PROVE SlotInv'
  OBVIOUS
<1> USE GatewayAssumption DEF SlotInv, OneSlotPerLink, WorkerInv, acl, iso
<1>1. CASE work_scan_start
  BY <1>1 DEF work_scan_start
<1>2. ASSUME NEW h \in Headsets, device_found(h) PROVE SlotInv'
  <2>1. CASE UNCHANGED <<peer, link>>
    BY <1>2, <2>1 DEF device_found
  <2>2. CASE ~UNCHANGED <<peer, link>>
    <3>1. PICK i \in Slots : TakesSlot(i) /\ peer' = [peer EXCEPT ![i] = h]
      BY <1>2, <2>2 DEF device_found
    <3>2. /\ peer[i] = NoConn /\ \A j \in Slots : peer[j] # h
          /\ link' = [link EXCEPT ![h] = "creating"]
          /\ UNCHANGED <<cis, worker>>
      BY <1>2, <2>2, <3>1 DEF device_found, CanCreate, TakesSlot, FreeSlots
    <3> USE DEF TypeOK
    <3>3. OneSlotPerLink'
      BY <3>1, <3>2
    <3>4. WorkerInv'
      BY <3>1, <3>2
    <3> QED
      BY <3>3, <3>4
  <2> QED
    BY <2>1, <2>2
<1>3. ASSUME NEW h \in Headsets, on_connected_cb(h) PROVE SlotInv'
  BY <1>3 DEF on_connected_cb, TypeOK
<1>4. ASSUME NEW h \in Headsets, security_changed_cb(h) PROVE SlotInv'
  BY <1>4 DEF security_changed_cb, TypeOK
<1>5. ASSUME NEW h \in Headsets, mtu_exchange_handler(h) PROVE SlotInv'
  BY <1>5 DEF mtu_exchange_handler, TypeOK
<1>6. ASSUME NEW h \in Headsets, on_disconnected_cb(h) PROVE SlotInv'
  <2>1. /\ link' = [link EXCEPT ![h] = "none"]
        /\ cis' = [i \in Slots |-> IF peer[i] = h THEN "down" ELSE cis[i]]
        /\ peer' = [i \in Slots |-> IF peer[i] = h THEN NoConn ELSE peer[i]]
        /\ worker' = IF worker.acl = h THEN [worker EXCEPT !.live = FALSE] ELSE worker
    BY <1>6 DEF on_disconnected_cb, Released
  <2> USE DEF TypeOK
  <2>2. OneSlotPerLink'
    BY <2>1
  <2>3. WorkerInv'
    BY <2>1
  <2> QED
    BY <2>2, <2>3
<1>7. CASE work_takes
  <2>1. CASE requests = <<>>
    BY <1>7, <2>1 DEF work_takes
  <2>2. CASE requests # <<>>
    <3>1. Head(requests).channel \in Slots
      <4>1. Head(requests) \in Request
        BY <2>2 DEF TypeOK
      <4> QED
        BY <4>1 DEF Request
    <3>2. /\ worker'.acl = peer[Head(requests).channel]
          /\ worker'.live = Linked(peer[Head(requests).channel])
          /\ worker'.channel = Head(requests).channel
          /\ worker'.busy
          /\ UNCHANGED <<peer, link, cis>>
      BY <1>7, <2>2 DEF work_takes
    <3> QED
      BY <3>1, <3>2 DEF Linked, LinkedStates
  <2> QED
    BY <2>1, <2>2
<1>8. CASE work_connects
  BY <1>8 DEF work_connects, Idle, TypeOK
<1>9. CASE work_retries
  BY <1>9 DEF work_retries, Idle
<1>10. CASE work_gives_up
  BY <1>10 DEF work_gives_up, Idle, TypeOK
<1>11. ASSUME NEW i \in Slots, cis_changes(i) PROVE SlotInv'
  BY <1>11 DEF cis_changes, TypeOK
<1>12. CASE UNCHANGED vars
  BY <1>12 DEF vars
<1> QED
  BY <1>1, <1>2, <1>3, <1>4, <1>5, <1>6, <1>7, <1>8, <1>9, <1>10, <1>11, <1>12
  DEF Next, work_iso_cis_conn

\* A headset with a link has one slot to itself, and a CIS only comes up on a slot
\* whose headset has a link (_gateway_conn_peer, ble_acl_gateway.c 40-71), also
\* when the slot changed hands while bt_iso_chan_connect waited.
THEOREM SlotsNeverShared == Spec => []OneSlotPerLink
<1>1. SlotInv => OneSlotPerLink
  BY DEF SlotInv
<1> QED
  BY <1>1, SlotInvInit, SlotInvNext, TypeInit, TypeNext, PTL DEF Spec

-----------------------------------------------------------------------------
(* The queue of requests.                                                    *)

LEMMA WorkNext == TypeOK /\ WorkHasRequest /\ [Next]_vars => WorkHasRequest'
<1> SUFFICES ASSUME TypeOK, WorkHasRequest, [Next]_vars PROVE WorkHasRequest'
  OBVIOUS
<1> USE DEF WorkHasRequest, acl, iso
<1>1. ASSUME NEW h \in Headsets, mtu_exchange_handler(h), cis_connect(h)
      PROVE  WorkHasRequest'
  BY <1>1 DEF cis_connect, TypeOK
<1>2. ASSUME NEW h \in Headsets, mtu_exchange_handler(h) PROVE WorkHasRequest'
  BY <1>1, <1>2 DEF mtu_exchange_handler
<1>3. CASE work_takes
  BY <1>3 DEF work_takes, Alive
<1>4. CASE work_connects \/ work_gives_up
  BY <1>4 DEF work_connects, work_gives_up
<1>5. CASE work_retries
  BY <1>5 DEF work_retries, Requeued, TypeOK
<1>6. ASSUME NEW h \in Headsets,
             device_found(h) \/ security_changed_cb(h) \/ on_disconnected_cb(h)
      PROVE  WorkHasRequest'
  BY <1>6 DEF device_found, security_changed_cb, on_disconnected_cb
<1>8. ASSUME NEW h \in Headsets, on_connected_cb(h) PROVE WorkHasRequest'
  BY <1>8 DEF on_connected_cb, LinkRuns, Alive
<1>7. ASSUME work_scan_start \/ (\E i \in Slots : cis_changes(i)) \/ UNCHANGED vars
      PROVE  WorkHasRequest'
  BY <1>7 DEF work_scan_start, cis_changes, vars
<1> QED
  BY <1>2, <1>3, <1>4, <1>5, <1>6, <1>7, <1>8 DEF Next, work_iso_cis_conn

\* The CIS work never finds its queue empty (the ERR_CHK at ble_transmit.c 1159),
\* however requests, retries and lost links follow each other.
THEOREM WorkAlwaysHasRequest == Spec => []WorkHasRequest
<1>1. Init => WorkHasRequest
  BY DEF Init, WorkHasRequest
<1> QED
  BY <1>1, WorkNext, TypeInit, TypeNext, PTL DEF Spec

-----------------------------------------------------------------------------
(* A ready headset keeps its request.  SlotInv is needed for the request in   *)
(* the hands of the work: a headset that took over the slot in the meantime   *)
(* has queued one of its own.                                                 *)

Queued(i) == \E k \in 1 .. Len(requests) : requests[k].channel = i

\* Putting a request keeps the ones that are queued, and queues its slot.
LEMMA PutQueues ==
  ASSUME TypeOK, NEW r \in Request, requests' = Append(requests, r), NEW i
  PROVE  Queued(i)' <=> Queued(i) \/ r.channel = i
<1>1. /\ requests \in Seq(Request) /\ Len(requests) \in Nat
      /\ Len(requests') = Len(requests) + 1 /\ requests'[Len(requests) + 1] = r
      /\ \A k \in 1 .. Len(requests) : requests'[k] = requests[k]
  BY DEF TypeOK
<1>2. \A k : k \in 1 .. Len(requests') <=> k \in 1 .. Len(requests) \/ k = Len(requests) + 1
  BY <1>1
<1> QED
  BY <1>1, <1>2 DEF Queued

\* Taking the first one keeps those of all other slots.
LEMMA TakeKeepsOthers ==
  ASSUME TypeOK, requests # <<>>, requests' = Tail(requests),
         NEW i, Queued(i), Head(requests).channel # i
  PROVE  Queued(i)'
<1>1. PICK k \in 1 .. Len(requests) : requests[k].channel = i
  BY DEF Queued
<1>2. requests \in Seq(Request) /\ Head(requests) = requests[1]
  BY DEF TypeOK
<1>3. k - 1 \in 1 .. Len(requests) - 1 /\ Len(requests) \in Nat
  BY <1>1, <1>2
<1>4. Len(requests') = Len(requests) - 1 /\ requests'[k - 1] = requests[k]
  BY <1>2, <1>3
<1> QED
  BY <1>1, <1>3, <1>4 DEF Queued

LEMMA KeptNext ==
  TypeOK /\ SlotInv /\ RequestsKept /\ [Next]_vars => RequestsKept'
<1> SUFFICES ASSUME TypeOK, SlotInv, RequestsKept, [Next]_vars,
                    NEW i \in Slots, peer'[i] # NoConn, link'[peer'[i]] = "ready",
                    fault' = "none"
             PROVE  Queued(i)' \/ (worker'.live /\ worker'.channel = i)
  BY DEF RequestsKept, Queued
<1> USE GatewayAssumption DEF acl, iso
<1>0. peer[i] # NoConn /\ link[peer[i]] = "ready" /\ fault = "none"
        => Queued(i) \/ (worker.live /\ worker.channel = i)
  BY DEF RequestsKept, Queued
<1>1. ASSUME peer'[i] = peer[i], link'[peer[i]] = link[peer[i]], fault = "none",
             UNCHANGED <<requests, worker>>
      PROVE  Queued(i)' \/ (worker'.live /\ worker'.channel = i)
  BY <1>0, <1>1 DEF Queued
<1>2. ASSUME NEW h \in Headsets,
             device_found(h) \/ on_connected_cb(h) \/ security_changed_cb(h)
      PROVE  Queued(i)' \/ (worker'.live /\ worker'.channel = i)
  <2>1. CASE device_found(h)
    BY <1>1, <2>1 DEF device_found, LinkRuns, Alive, TypeOK
  <2>2. CASE on_connected_cb(h)
    BY <1>1, <2>2 DEF on_connected_cb, LinkRuns, Alive, TypeOK
  <2>3. CASE security_changed_cb(h)
    BY <1>1, <2>3 DEF security_changed_cb, LinkRuns, Alive, TypeOK
  <2> QED
    BY <1>2, <2>1, <2>2, <2>3
<1>3. ASSUME NEW h \in Headsets, mtu_exchange_handler(h)
      PROVE  Queued(i)' \/ (worker'.live /\ worker'.channel = i)
  <2>1. peer' = peer /\ worker' = worker /\ fault = "none"
    BY <1>3 DEF mtu_exchange_handler, LinkRuns, Alive
  <2>2. CASE peer[i] = h
    <3>1. link' = [link EXCEPT ![h] = "ready"] /\ cis_connect(h)
      BY <1>3, <2>1, <2>2 DEF mtu_exchange_handler, TypeOK
    <3>2. PICK j \in Slots :
            /\ peer[j] = h
            /\ requests' = Append(requests, RequestFor(j))
      BY <3>1 DEF cis_connect
    <3>3. j = i
      BY <2>2, <3>2 DEF SlotInv, OneSlotPerLink
    <3>4. RequestFor(i) \in Request /\ RequestFor(i).channel = i
      BY DEF RequestFor, Request
    <3> QED
      BY <3>2, <3>3, <3>4, PutQueues
  <2>3. CASE peer[i] # h
    <3>1. link'[peer[i]] = link[peer[i]]
      BY <1>3, <2>1, <2>3 DEF mtu_exchange_handler, TypeOK
    <3>2. CASE UNCHANGED requests
      BY <1>1, <2>1, <3>1, <3>2
    <3>3. CASE cis_connect(h) /\ ~UNCHANGED requests
      <4>1. PICK j \in Slots : requests' = Append(requests, RequestFor(j))
        BY <3>3 DEF cis_connect
      <4>2. RequestFor(j) \in Request
        BY DEF RequestFor, Request
      <4>3. peer[i] # NoConn /\ link[peer[i]] = "ready"
        BY <2>1, <3>1
      <4>4. CASE Queued(i)
        BY <4>1, <4>2, <4>4, PutQueues
      <4>5. CASE worker.live /\ worker.channel = i
        BY <2>1, <4>5
      <4> QED
        BY <1>0, <2>1, <4>3, <4>4, <4>5
    <3> QED
      BY <1>3, <3>2, <3>3 DEF mtu_exchange_handler
  <2> QED
    BY <2>2, <2>3
<1>4. ASSUME NEW h \in Headsets, on_disconnected_cb(h)
      PROVE  Queued(i)' \/ (worker'.live /\ worker'.channel = i)
  <2>1. /\ link' = [link EXCEPT ![h] = "none"] /\ fault = "none"
        /\ peer' = [j \in Slots |-> IF peer[j] = h THEN NoConn ELSE peer[j]]
        /\ worker' = IF worker.acl = h THEN [worker EXCEPT !.live = FALSE] ELSE worker
        /\ requests' = requests
    BY <1>4 DEF on_disconnected_cb, Released, LinkRuns, Alive
  <2>2. peer[i] # h /\ peer'[i] = peer[i] /\ link'[peer[i]] = link[peer[i]]
    BY <2>1 DEF TypeOK
  <2>3. CASE worker.live /\ worker.channel = i
    BY <2>1, <2>2, <2>3 DEF SlotInv, WorkerInv
  <2>4. CASE Queued(i)
    BY <2>1, <2>4 DEF Queued
  <2> QED
    BY <1>0, <2>1, <2>2, <2>3, <2>4
<1>5. CASE work_takes
  <2>1. /\ requests # <<>> /\ requests' = Tail(requests) /\ fault = "none"
        /\ worker'.channel = Head(requests).channel
        /\ worker'.live = Linked(peer[Head(requests).channel])
        /\ peer' = peer /\ link' = link /\ ~worker.busy
    BY <1>5 DEF work_takes, Alive
  <2>2. CASE Head(requests).channel = i
    BY <2>1, <2>2 DEF Linked, LinkedStates, TypeOK
  <2>3. CASE Head(requests).channel # i
    <3>1. Queued(i)
      BY <1>0, <2>1 DEF SlotInv, WorkerInv
    <3> QED
      BY <2>1, <2>3, <3>1, TakeKeepsOthers
  <2> QED
    BY <2>2, <2>3
<1>6. CASE work_connects \/ work_gives_up
  <2>1. /\ requests' = requests /\ peer' = peer /\ fault = "none"
        /\ \A h \in Headsets : link'[h] = "ready" => link[h] = "ready"
    BY <1>6 DEF work_connects, work_gives_up, Alive, TypeOK
  <2>2. worker.live => link'[worker.acl] # "ready" /\ peer[worker.channel] = worker.acl
    BY <1>6 DEF work_connects, work_gives_up, SlotInv, WorkerInv, TypeOK
  <2>3. Queued(i)
    BY <1>0, <2>1, <2>2 DEF TypeOK
  <2> QED
    BY <2>1, <2>3 DEF Queued
<1>7. CASE work_retries
  <2>1. /\ requests' = Append(requests, [channel |-> worker.channel, retries |-> worker.retries])
        /\ peer' = peer /\ link' = link /\ fault = "none"
    BY <1>7 DEF work_retries, Requeued, Alive
  <2>2. [channel |-> worker.channel, retries |-> worker.retries] \in Request
    BY <1>7 DEF work_retries, Request, TypeOK
  <2> QED
    BY <1>0, <2>1, <2>2, PutQueues
<1>8. CASE work_scan_start \/ \E j \in Slots : cis_changes(j)
  BY <1>1, <1>8 DEF work_scan_start, cis_changes, Alive
<1>9. CASE UNCHANGED vars
  BY <1>1, <1>9 DEF vars
<1> QED
  BY <1>2, <1>3, <1>4, <1>5, <1>6, <1>7, <1>8, <1>9 DEF Next, work_iso_cis_conn

\* No ready headset is forgotten by the queue of requests or by the work that takes
\* from it (ble_transmit.c 389 and 1158-1183), whatever was queued for its slot
\* before, retried, given up or lost in between.
THEOREM RequestsAlwaysKept == Spec => []RequestsKept
<1>1. Init => RequestsKept
  BY DEF Init, RequestsKept
<1> QED
  BY <1>1, KeptNext, SlotInvInit, SlotInvNext, TypeInit, TypeNext, PTL DEF Spec

-----------------------------------------------------------------------------
(* The search for headsets.                                                  *)

LEMMA SearchNext == TypeOK /\ SearchesWhileFree /\ [Next]_vars => SearchesWhileFree'
<1> SUFFICES ASSUME TypeOK, SearchesWhileFree, [Next]_vars PROVE SearchesWhileFree'
  OBVIOUS
<1> USE DEF SearchesWhileFree, InSetUp, FreeSlots, acl, iso
<1>1. CASE work_scan_start
  BY <1>1 DEF work_scan_start
<1>2. ASSUME NEW h \in Headsets, device_found(h) PROVE SearchesWhileFree'
  BY <1>2 DEF device_found, TypeOK
<1>3. ASSUME NEW h \in Headsets, on_connected_cb(h) PROVE SearchesWhileFree'
  BY <1>3 DEF on_connected_cb, TypeOK
<1>4. ASSUME NEW h \in Headsets, security_changed_cb(h) PROVE SearchesWhileFree'
  BY <1>4 DEF security_changed_cb, TypeOK
<1>5. ASSUME NEW h \in Headsets, mtu_exchange_handler(h) PROVE SearchesWhileFree'
  BY <1>5 DEF mtu_exchange_handler, SearchGoesOn, TypeOK
<1>6. ASSUME NEW h \in Headsets, on_disconnected_cb(h) PROVE SearchesWhileFree'
  BY <1>6 DEF on_disconnected_cb
<1>7. CASE work_takes \/ work_retries
  BY <1>7 DEF work_takes, work_retries, Alive
<1>8. CASE work_connects \/ work_gives_up
  BY <1>8 DEF work_connects, work_gives_up, Alive, TypeOK
<1>9. ASSUME NEW i \in Slots, cis_changes(i) PROVE SearchesWhileFree'
  BY <1>9 DEF cis_changes
<1>10. CASE UNCHANGED vars
  BY <1>10 DEF vars
<1> QED
  BY <1>1, <1>2, <1>3, <1>4, <1>5, <1>6, <1>7, <1>8, <1>9, <1>10
  DEF Next, work_iso_cis_conn

\* While a slot is free and no link is being set up the gateway scans or is about
\* to, unless a set-up, or the start of the scan itself, failed in a way that is
\* only logged (ble_acl_gateway.c 89, 152 and 231, ble_acl_common.c 86 and 193).
THEOREM SearchAlwaysGoesOn == Spec => []SearchesWhileFree
<1>1. Init => SearchesWhileFree
  BY DEF Init, SearchesWhileFree
<1> QED
  BY <1>1, SearchNext, TypeInit, TypeNext, PTL DEF Spec
=============================================================================
