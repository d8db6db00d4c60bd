-------------------------------- MODULE BleLink --------------------------------
(***************************************************************************)
(* What BleManager promises its user, the app task: a link that is         *)
(* searched for, linked and ready in turn, that can be lost at any moment, *)
(* and a bounded queue of reports about it.  No handles, no procedures, no *)
(* timers: BleManager is shown to implement it.                            *)
(***************************************************************************)
EXTENDS Naturals, Sequences

CONSTANT Depth  \* how many reports the queue holds; more are dropped

VARIABLES
  phase,       \* "off" (NimBLE not synced or refused), "searching" (scanning or
               \* waiting to), "linking" (attempt or discovery), "ready"
  subscribed,  \* a subscription was written for this link
  reports      \* the reports the app task has not read

vars == <<phase, subscribed, reports>>

Phases == {"off", "searching", "linking", "ready"}

Reports == {"HostSynced", "HostReset", "DeviceFound", "ReadyForProtocol",
            "Subscribed", "ConnectionFailed"}

TypeOK ==
  /\ phase \in Phases
  /\ subscribed \in BOOLEAN
  /\ reports \in Seq(Reports) /\ Len(reports) <= Depth

Init == phase = "off" /\ subscribed = FALSE /\ reports = <<>>

\* What a full queue does with a report: nothing.
Report(queue, type) ==
  IF Len(queue) < Depth THEN Append(queue, type) ELSE queue

Synced ==
  /\ phase = "off"
  /\ phase' \in {"off", "searching"}
  /\ reports' = Report(reports, "HostSynced")
  /\ UNCHANGED subscribed

Found ==
  /\ phase = "searching"
  /\ phase' = "linking"
  /\ reports' = Report(reports, "DeviceFound")
  /\ UNCHANGED subscribed

\* The appliance was seen, and NimBLE refused the attempt to connect.
FoundInVain ==
  /\ phase = "searching"
  /\ reports' = Report(Report(reports, "DeviceFound"), "ConnectionFailed")
  /\ UNCHANGED <<phase, subscribed>>

\* The controller replaces a link that has just come up by another.
Relinked ==
  /\ phase \in {"searching", "linking"}
  /\ phase' = "linking"
  /\ subscribed' = FALSE
  /\ UNCHANGED reports

Ready ==
  /\ phase = "linking"
  /\ phase' = "ready"
  /\ reports' = Report(reports, "ReadyForProtocol")
  /\ UNCHANGED subscribed

\* At most one subscription per link, before or after it is ready.
Subscribe ==
  /\ phase \in {"linking", "ready"}
  /\ ~subscribed
  /\ subscribed' = TRUE
  /\ reports' = Report(reports, "Subscribed")
  /\ UNCHANGED phase

\* A link, an attempt or a scan is given up, and the search goes on.
Failed ==
  /\ phase # "off"
  /\ phase' = "searching"
  /\ subscribed' = FALSE
  /\ reports' = Report(reports, "ConnectionFailed")

Reset ==
  /\ phase' = "off"
  /\ subscribed' = FALSE
  /\ \/ /\ phase \notin {"linking", "ready"}
        /\ reports' = Report(reports, "HostReset")
     \/ reports' = Report(Report(reports, "ConnectionFailed"), "HostReset")
     \/ reports' = Report(Report(Report(reports, "ConnectionFailed"),
                                 "ConnectionFailed"), "HostReset")

\* The app task empties the queue.
Read ==
  /\ reports' = <<>>
  /\ UNCHANGED <<phase, subscribed>>

Next ==
  \/ Synced \/ Found \/ FoundInVain \/ Relinked \/ Ready \/ Subscribe
  \/ Failed \/ Reset \/ Read

Spec == Init /\ [][Next]_vars

-----------------------------------------------------------------------------
LinkReports == {"ReadyForProtocol", "ConnectionFailed"}

(* What the app task reads tells it whether the link is usable: as long as  *)
(* nothing was dropped, the last report of the two kinds GroheClient acts   *)
(* on is true of the link now, and no link is reported ready twice          *)
(* (BleManager::Enqueue, GroheClient::Poll).                                *)
ReportsTellLink ==
  /\ \A i \in 1 .. Len(reports) :
       (Len(reports) < Depth /\ reports[i] \in LinkReports /\
        \A j \in i + 1 .. Len(reports) : reports[j] \notin LinkReports)
         => (reports[i] = "ReadyForProtocol" <=> phase = "ready")
  /\ \A i \in 1 .. Len(reports) : \A j \in i + 1 .. Len(reports) :
       (reports[i] = "ReadyForProtocol" /\ reports[j] = "ReadyForProtocol")
         => \E k \in i + 1 .. j - 1 : reports[k] = "ConnectionFailed"

=============================================================================
