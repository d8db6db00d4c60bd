--------------------------- MODULE BleManagerProps ---------------------------
(***************************************************************************)
(* What BleManager has to guarantee, and the fairness under which the      *)
(* liveness part holds.                                                    *)
(***************************************************************************)
EXTENDS BleManager

Linked == {"Connected", "DiscoveringServices", "ReadyForProtocol"}

Discovery == {"mtu", "svcs", "chrs"}

(* An address is known by the time anything is connected or connecting, so  *)
(* that what a rejection remembers is an address.                           *)
AddressKnown ==
  deviceAddr = None => conn = None /\ ~connectPending /\ state \notin Linked

(* Before NimBLE has synced, nothing of a connection exists.                *)
SyncIdle ==
  syncPending => conn = None /\ ~connectPending /\ ~discActive
                   /\ state \in {"Initializing", "Idle"}

(* Every state the machine rests in has its way out already under way: a    *)
(* scan, an attempt, a procedure, a live link, a timer or a posted wake-up. *)
(* ble_manager.cpp has no watchdog, so a state with none of them is forever.*)
Awaited ==
  /\ state = "Scanning" => discActive
  /\ state = "Connecting" => connectPending
  /\ state \in {"Connected", "DiscoveringServices"} =>
       \E kind \in Discovery : <<kind, conn>> \in procs
  /\ state = "ReadyForProtocol" => conn \in live
  /\ state = "Backoff" => timer \/ "reconnect" \in posted

(* conn_handle_ is "valid once kConnected or later; BLE_HS_CONN_HANDLE_NONE *)
(* otherwise" (ble_manager.hpp:446).                                        *)
ConnHandleValid == (conn # None) <=> (state \in Linked)

(* Discovery is sequential per connection, in spite of late results of      *)
(* earlier links, and finished when the manager says it is ready.           *)
DiscoverySequential ==
  /\ \A k1, k2 \in Discovery :
       {<<k1, conn>>, <<k2, conn>>} \subseteq procs => k1 = k2
  /\ state = "ReadyForProtocol" => \A kind \in Discovery : <<kind, conn>> \notin procs

(* A read characteristic once found is never forgotten: either its          *)
(* descriptor search is outstanding, or the discovery that will bound it    *)
(* (pending_subscribe_val_handle_, ble_manager.hpp:551-571).                *)
SubscribeAwaited ==
  (conn # None /\ pendingSubscribe) =>
    IF searchStarted THEN <<"dscs", conn>> \in procs ELSE <<"chrs", conn>> \in procs

(* The radio never scans while a link is managed or being attempted, also   *)
(* when a stray backoff timer fires after a host reset                      *)
(* (HandleReconnectEvent's guard, ble_manager.cpp:1411).                    *)
ScanOnlyWhenUnconnected == discActive => conn = None /\ ~connectPending

(* A write the app queued is never left behind without a wake-up that will  *)
(* either send or drop it (command_queue_ and command_event_).              *)
WriteNeverStranded == commands > 0 => "command" \in putting \cup posted

(* A peer that failed its identity probe and was rejected is on its way out *)
(* as long as no pin filter demands it, and is not picked again             *)
(* (RejectCurrentPeerAndKeepScanning, ble_manager.hpp:293-302).             *)
RejectedPeerLeaves ==
  (conn # None /\ filter = None /\ IsRejectedAddress(deviceAddr)) => conn \in closing

-----------------------------------------------------------------------------
(* Fairness.  The host task and the esp_timer task run whenever they have   *)
(* something to do, and NimBLE ends every procedure, attempt and link it was *)
(* asked to.  That the appliance advertises, and has the services and the   *)
(* CCCD the code looks for, is assumed of the appliance.  Nothing is        *)
(* assumed of faults, of the app task or of notifications.                  *)

HostFairness ==
  /\ WF_vars(OnHostSync)
  /\ WF_vars(OnBackoffTimer)
  /\ WF_vars(HandleReconnectEvent)

RadioFairness ==
  /\ WF_vars(\E a \in Addresses : HandleDiscReport(a))
  /\ WF_vars(HandleConnectFailed \/ \E h \in Handles : HandleConnect(h))
  /\ \A h \in Handles : WF_vars(h \in closing /\ HandleDisconnect(h))

GattFairness ==
  \A h \in Handles :
    /\ \A kind \in GattKinds : WF_vars(IgnoreStale(kind, h))
    /\ \A kind \in GattKinds : WF_vars(h \notin live /\ GattError(kind, h))
    /\ WF_vars(OnMtuResult(h))
    /\ WF_vars(HandleServicesDone(h))
    /\ WF_vars(HandleCharacteristicsDone(h))
    /\ WF_vars(HandleCccd(h))

FairSpec == Spec /\ HostFairness /\ RadioFairness /\ GattFairness

(* BleManager "always retries" (ble_manager.hpp:416): once it has started   *)
(* scanning, whatever fails is followed by a connection ready for protocol, *)
(* by a host reset, the one event that hands control back to NimBLE, or by  *)
(* the app task rejecting the peer it is connected to.                      *)
AlwaysRetries ==
  (state \notin {"Initializing", "Idle"}) ~>
    ((state = "ReadyForProtocol" /\ conn # None) \/ state = "Idle" \/ conn \in closing)

(* A read characteristic that was found gets its CCCD written, or its       *)
(* connection ends: no link stays up unsubscribed with nothing under way.   *)
SubscribeSettles == pendingSubscribe ~> ~pendingSubscribe

-----------------------------------------------------------------------------
(* What all of this is to the app task: the machine's states and flags are  *)
(* mapped to the phases and the subscription of BleLink, and the event      *)
(* queue to its reports.                                                    *)

LinkPhase ==
  CASE state \in {"Initializing", "Idle"} -> "off"
    [] state \in {"Scanning", "Backoff"} -> "searching"
    [] state = "ReadyForProtocol" -> "ready"
    [] OTHER -> "linking"

\* The CCCD write was sent and answered.
LinkSubscribed ==
  /\ conn # None
  /\ subscribeStarted /\ ~pendingSubscribe
  /\ <<"cccd", conn>> \notin procs

Link == INSTANCE BleLink WITH Depth <- EventDepth, phase <- LinkPhase,
          subscribed <- LinkSubscribed, reports <- events

(* Behind its queue, BleManager is the link of BleLink: whatever handles,   *)
(* procedures and timers do, the app task sees a link that is searched for, *)
(* linked, ready and subscribed at most once, and whose end is reported     *)
(* (BleEventType, ble_manager.hpp:84-105).                                  *)
LinkSpec == Link!Spec

=============================================================================
