------------------------------- MODULE Gateway -------------------------------
(***************************************************************************)
(* How the synthesizer finds its headsets: ble_acl_gateway.c,              *)
(* ble_acl_common.c and the CIS worker of ble_transmit.c.  The gateway     *)
(* scans until it finds a headset, stops, connects, secures the link,      *)
(* exchanges the MTU, scans again while a slot is free, and asks the       *)
(* system work queue to connect a CIS for the slot.                        *)
(*                                                                         *)
(* The callbacks run on the receive thread of the host, scanning and CIS   *)
(* work on the system work queue; both are cooperative, but the CIS work   *)
(* waits for the controller in the middle, and scanning then waits for it. *)
(* The host and the headsets are external: what they may answer is a       *)
(* choice of the action.                                                   *)
(***************************************************************************)
EXTENDS Integers, Sequences

CONSTANTS Headsets, NoConn,
          CONFIG_BT_MAX_CONN,      \* also CONFIG_BT_ISO_MAX_CHAN in prj.conf
          CIS_CONN_RETRY_TIMES

ASSUME GatewayAssumption ==
  /\ NoConn \notin Headsets
  /\ CONFIG_BT_MAX_CONN \in Nat \ {0}
  /\ CIS_CONN_RETRY_TIMES \in Nat \ {0}

VARIABLES
  scanning,    \* the host scans
  scanWork,    \* the submitted ones of _scan_work ("acl") and _start_scan_work ("mtu")
  peer,        \* _gateway_conn_peer; a connection is named by its headset
  link,        \* the state of the connection with a headset
  requests,    \* _kwork_msgq, of struct worker_data
  cisWork,     \* whether _iso_cis_conn_work is scheduled, at once or after a delay
  worker,      \* the request the CIS work has taken, the connection it read, and
               \* whether that has had its link since
  cis,         \* the state of the CIS of a slot
  fault,       \* the error that ended the program (ERR_CHK), or "none"
  unattended   \* history: since the host last scanned, a set-up or the start of a
               \* scan has failed in a way that is only logged

vars == <<scanning, scanWork, peer, link, requests, cisWork, worker, cis,
          fault, unattended>>
acl == <<scanning, scanWork, peer, link, unattended>>
iso == <<requests, cisWork, worker, cis, fault>>

Slots == 0 .. CONFIG_BT_MAX_CONN - 1
FreeSlots == {i \in Slots : peer[i] = NoConn}
InSetUp == {"creating", "securing", "exchanging", "closing"}
\* "ready": its CIS is still to be asked for; "joined": it was asked for; "stalled":
\* nothing will happen on the link any more but that it is lost.
LinkedStates == {"securing", "exchanging", "stalled", "ready", "joined"}
Request == [channel : Slots, retries : 0 .. CIS_CONN_RETRY_TIMES - 1]
Idle == [channel |-> 0, retries |-> 0, acl |-> NoConn, live |-> FALSE, busy |-> FALSE]

Init ==
  /\ scanning = FALSE /\ scanWork = {"acl"} /\ unattended = FALSE
  /\ peer = [i \in Slots |-> NoConn]
  /\ link = [h \in Headsets |-> "none"]
  /\ requests = <<>> /\ cisWork = "idle" /\ worker = Idle
  /\ cis = [i \in Slots |-> "down"]
  /\ fault = "none"

Alive == fault = "none"

\* Work scheduled without delay starts before the radio brings the next event.
LinkRuns == Alive /\ (cisWork = "now" => worker.busy)

-----------------------------------------------------------------------------
(* The links.                                                               *)
\* A scan that fails to start is only logged: nobody tries again.  While the host
\* scans another start fails, too, and changes nothing.
work_scan_start ==
  /\ Alive /\ ~worker.busy
  /\ \E w \in scanWork : scanWork' = scanWork \ {w}
  /\ \/ scanning' = TRUE /\ unattended' = FALSE
     \/ ~scanning /\ unattended' = TRUE /\ UNCHANGED scanning
  /\ UNCHANGED <<peer, link, iso>>

\* The host has one connection per headset, one that failed but still holds its
\* slot included, and creates one at a time.
CanCreate(h) ==
  /\ \A i \in Slots : peer[i] # h
  /\ \A g \in Headsets : link[g] # "creating"

\* The names compared end before the letter of the side (gateway 146): any
\* headset takes the first free slot.
TakesSlot_Last(i) == i = CONFIG_BT_MAX_CONN - 1
TakesSlot(i) == i \in FreeSlots /\ \A j \in FreeSlots : i <= j

device_found(h) ==
  /\ LinkRuns /\ scanning /\ link[h] = "none" /\ FreeSlots # {}
  /\ scanning' = FALSE
  /\ \/ /\ CanCreate(h)
        /\ \E i \in Slots : TakesSlot(i) /\ peer' = [peer EXCEPT ![i] = h]
        /\ link' = [link EXCEPT ![h] = "creating"]
        /\ UNCHANGED unattended
     \/ unattended' = TRUE /\ UNCHANGED <<peer, link>>
  /\ UNCHANGED <<scanWork, iso>>

\* The link comes up, to be secured (bt_conn_set_security failing ends the program),
\* or it fails, which is only logged.
on_connected_cb(h) ==
  /\ LinkRuns /\ link[h] = "creating"
  /\ \/ /\ link' = [link EXCEPT ![h] = "securing"]
        /\ fault' \in {"none", "security"} /\ UNCHANGED unattended
     \/ link' = [link EXCEPT ![h] = "none"] /\ unattended' = TRUE /\ UNCHANGED fault
  /\ UNCHANGED <<scanning, scanWork, peer, requests, cisWork, worker, cis>>

\* Without security the link is closed; if that fails, which is only logged, it
\* goes on as if secured.  A refused MTU request is only logged, too.
security_changed_cb(h) ==
  /\ LinkRuns /\ link[h] = "securing"
  /\ \/ /\ \E s \in {"exchanging", "closing"} : link' = [link EXCEPT ![h] = s]
        /\ UNCHANGED unattended
     \/ link' = [link EXCEPT ![h] = "stalled"] /\ unattended' = TRUE
  /\ UNCHANGED <<scanning, scanWork, peer, iso>>

\* ble_trans_iso_cis_connect: 500 ms of delay per slot.  Scheduling work that is
\* scheduled does nothing.
Scheduled(i) == IF cisWork # "idle" THEN cisWork ELSE IF i = 0 THEN "now" ELSE "later"

HasRoom_Unchecked == TRUE
HasRoom == Len(requests) < CONFIG_BT_MAX_CONN

RequestFor_First(i) == [channel |-> 0, retries |-> 0]
RequestFor(i) == [channel |-> i, retries |-> 0]

cis_connect(h) ==
  \E i \in Slots :
    /\ peer[i] = h
    /\ IF HasRoom
         THEN /\ requests' = Append(requests, RequestFor(i))
              /\ cisWork' = Scheduled(i) /\ UNCHANGED fault
         ELSE fault' = "requests" /\ UNCHANGED <<requests, cisWork>>

SearchGoesOn_Inverted == FreeSlots = {}
SearchGoesOn == FreeSlots # {}

\* After a failed exchange the link is closed, or stays, if that fails as well.
\* A service discovery that cannot start ends the program.
mtu_exchange_handler(h) ==
  /\ LinkRuns /\ link[h] = "exchanging"
  /\ \/ /\ \/ link' = [link EXCEPT ![h] = "closing"] /\ UNCHANGED unattended
           \/ link' = [link EXCEPT ![h] = "stalled"] /\ unattended' = TRUE
        /\ UNCHANGED <<scanning, scanWork, iso>>
     \/ /\ link' = [link EXCEPT ![h] = "ready"]
        /\ IF SearchGoesOn THEN scanWork' = scanWork \cup {"mtu"} /\ UNCHANGED scanning
                           ELSE scanning' = FALSE /\ UNCHANGED scanWork
        /\ \/ cis_connect(h)
           \/ fault' = "discover" /\ UNCHANGED <<requests, cisWork>>
        /\ UNCHANGED <<unattended, worker, cis>>
  /\ UNCHANGED peer

Released(h) == [i \in Slots |-> IF peer[i] = h THEN NoConn ELSE peer[i]]

\* A link is lost, or closed; its CIS went before it.
on_disconnected_cb(h) ==
  /\ LinkRuns /\ link[h] \in LinkedStates \cup {"closing"}
  /\ link' = [link EXCEPT ![h] = "none"]
  /\ cis' = [i \in Slots |-> IF peer[i] = h THEN "down" ELSE cis[i]]
  /\ peer' = Released(h)
  /\ scanWork' = scanWork \cup {"acl"}
  /\ worker' = IF worker.acl = h THEN [worker EXCEPT !.live = FALSE] ELSE worker
  /\ UNCHANGED <<scanning, unattended, requests, cisWork, fault>>

-----------------------------------------------------------------------------
(* The CIS work: _work_iso_cis_conn, which waits in bt_iso_chan_connect.     *)
Linked(h) == h \in Headsets /\ link[h] \in LinkedStates

work_takes ==
  /\ Alive /\ cisWork # "idle" /\ ~worker.busy
  /\ cisWork' = "idle"
  /\ IF requests = <<>>
       THEN fault' = "get" /\ UNCHANGED <<requests, worker>>
       ELSE /\ requests' = Tail(requests)
            /\ worker' = [channel |-> Head(requests).channel,
                          retries |-> Head(requests).retries + 1,
                          acl |-> peer[Head(requests).channel],
                          live |-> Linked(peer[Head(requests).channel]),
                          busy |-> TRUE]
            /\ UNCHANGED fault
  /\ UNCHANGED <<acl, cis>>

work_connects ==
  /\ Alive /\ worker.busy
  /\ worker.live /\ cis[worker.channel] = "down"
  /\ cis' = [cis EXCEPT ![worker.channel] = "connecting"]
  /\ link' = [link EXCEPT ![worker.acl] = IF @ = "ready" THEN "joined" ELSE @]
  /\ worker' = Idle
  /\ UNCHANGED <<scanning, scanWork, peer, unattended, requests, cisWork, fault>>

Requeued_Not == requests
Requeued == Append(requests, [channel |-> worker.channel, retries |-> worker.retries])

work_retries ==
  /\ Alive /\ worker.busy /\ worker.retries < CIS_CONN_RETRY_TIMES
  /\ IF HasRoom
       THEN /\ requests' = Requeued /\ cisWork' = "later" /\ UNCHANGED fault
       ELSE fault' = "retry" /\ UNCHANGED <<requests, cisWork>>
  /\ worker' = Idle
  /\ UNCHANGED <<acl, cis>>

\* bt_conn_disconnect, also of a connection that was NULL when it was read; nobody
\* looks whether it fails.
work_gives_up ==
  /\ Alive /\ worker.busy /\ worker.retries >= CIS_CONN_RETRY_TIMES
  /\ \/ worker.acl = NoConn /\ fault' = "null" /\ UNCHANGED link
     \/ /\ worker.acl # NoConn
        /\ IF worker.live
             THEN \/ link' = [link EXCEPT ![worker.acl] = "closing"]
                  \/ link' = [link EXCEPT ![worker.acl] = IF @ = "ready" THEN "stalled" ELSE @]
             ELSE UNCHANGED link
        /\ UNCHANGED fault
  /\ worker' = Idle
  /\ UNCHANGED <<scanning, scanWork, peer, unattended, requests, cisWork, cis>>

work_iso_cis_conn == work_takes \/ work_connects \/ work_retries \/ work_gives_up

\* The CIS comes up, cannot be established, or is lost.
cis_changes(i) ==
  /\ Alive /\ cis[i] # "down"
  /\ \/ cis[i] = "connecting" /\ cis' = [cis EXCEPT ![i] = "up"]
     \/ cis' = [cis EXCEPT ![i] = "down"]
  /\ UNCHANGED <<acl, requests, cisWork, worker, fault>>

-----------------------------------------------------------------------------
Next ==
  \/ work_scan_start
  \/ \E h \in Headsets :
       \/ device_found(h) \/ on_connected_cb(h) \/ security_changed_cb(h)
       \/ mtu_exchange_handler(h) \/ on_disconnected_cb(h)
  \/ work_iso_cis_conn
  \/ \E i \in Slots : cis_changes(i)

Spec == Init /\ [][Next]_vars

-----------------------------------------------------------------------------
\* Types of the variables.
TypeOK ==
  /\ scanning \in BOOLEAN /\ scanWork \subseteq {"acl", "mtu"}
  /\ peer \in [Slots -> Headsets \cup {NoConn}]
  /\ link \in [Headsets -> InSetUp \cup LinkedStates \cup {"none"}]
  /\ requests \in Seq(Request) /\ Len(requests) <= CONFIG_BT_MAX_CONN
  /\ cisWork \in {"idle", "now", "later"}
  /\ worker \in [channel : Slots, retries : 0 .. CIS_CONN_RETRY_TIMES,
                 acl : Headsets \cup {NoConn}, live : BOOLEAN, busy : BOOLEAN]
  /\ cis \in [Slots -> {"down", "connecting", "up"}]
  /\ fault \in {"none", "security", "discover", "requests", "get", "retry", "null"}
  /\ unattended \in BOOLEAN

\* A headset with a link has one slot, no two slots have the same headset, and a
\* CIS only exists on a slot whose headset has a link.
OneSlotPerLink ==
  /\ \A h \in Headsets : link[h] # "none" => \E i \in Slots : peer[i] = h
  /\ \A i, j \in Slots : peer[i] = peer[j] /\ peer[i] # NoConn => i = j
  /\ \A i \in Slots :
       cis[i] # "down" => peer[i] # NoConn /\ link[peer[i]] \notin {"none", "creating"}

\* The CIS work never finds its queue empty (ERR_CHK at ble_transmit.c 1158).
WorkHasRequest == (cisWork # "idle" /\ fault = "none" => requests # <<>>) /\ fault # "get"

\* A headset that is ready is never forgotten: until its CIS is asked for, the link
\* closed or a failure to close it ignored, a request for its slot is queued or in
\* the hands of the work, whatever was queued for the slot before.
RequestsKept ==
  \A i \in Slots :
    peer[i] # NoConn /\ link[peer[i]] = "ready" /\ fault = "none"
      => \/ \E k \in 1 .. Len(requests) : requests[k].channel = i
         \/ worker.live /\ worker.channel = i

\* While a slot is free and no link is being set up, the gateway scans or is
\* about to, unless a set-up or the start of a scan failed in one of the ways that
\* are only logged (ble_acl_gateway.c 89, 152 and 231, ble_acl_common.c 86 and 193).
SearchesWhileFree ==
  FreeSlots # {} /\ (\A h \in Headsets : link[h] \notin InSetUp) /\ fault = "none"
    => scanning \/ scanWork # {} \/ unattended

\* README.md 97: "Turn on both the synthesizer board as well as 1 or 2 headphone
\* boards [...] should now result in audio from headphone boards".  So a request
\* for a CIS that is queued has work scheduled, or under way, to serve it.
RequestsServed == requests # <<>> /\ fault = "none" => cisWork # "idle" \/ worker.busy
=============================================================================
