------------------------------- MODULE ApiServer -------------------------------
(***************************************************************************)
(* ProvisioningServer's HTTP worker: one task that serves a command or a   *)
(* status query (ApiHandoff) or the configuration (Settings), one request  *)
(* at a time, and a dial that may restart at any moment, by a power cut,   *)
(* the watchdog or the other server's esp_restart.                         *)
(***************************************************************************)
EXTENDS ApiHandoff, Settings

serverVars == <<vars, settingsVars>>

ServerInit == Init /\ SettingsInit

AcceptCommand == update.step = "idle" /\ Accept /\ UNCHANGED settingsVars

ServeCommand == HttpWork /\ UNCHANGED settingsVars

AppWork == (DialChanges \/ DrainCommand) /\ UNCHANGED settingsVars

ServeSettings == serving = "idle" /\ ServeConfig /\ UNCHANGED vars

\* The queues are created anew; last_known_status_ is the state the dial starts in,
\* which is later than all it has been in.
Restart ==
  /\ Boot /\ dial < MaxChanges
  /\ serving' = "idle" /\ kind' = "status" /\ answer' = None /\ gave_up' = FALSE
  /\ commands' = <<>> /\ results' = <<>> /\ snapshots' = <<>>
  /\ dial' = dial + 1 /\ last_known' = dial'
  /\ UNCHANGED <<number, told>>

ServerNext == AcceptCommand \/ ServeCommand \/ AppWork \/ ServeSettings \/ Restart

ServerSpec ==
  ServerInit /\ [][ServerNext]_serverVars /\ WF_serverVars(ServeCommand)
================================================================================
