---------------------------------- MODULE Ota ----------------------------------
(***************************************************************************)
(* The over-the-air update: class OtaServer on the httpd task, the boot    *)
(* confirmation at the end of App::Run's startup, and, external, the       *)
(* bootloader with its two application slots and the otadata entry it      *)
(* keeps for each.  Power may be lost between any two steps.               *)
(***************************************************************************)
EXTENDS Naturals

CONSTANTS
  Healthy,      \* images that start up
  Crashing,     \* images that crash, or trip the idle task's watchdog, during startup
  Hanging,      \* images that block for ever during startup
  Garbage,      \* what an upload that is not an application consists of
  None,         \* no slot, or nothing being uploaded
  MaxChunks,    \* how many kRecvChunkSize pieces an upload may have
  SlowStartup   \* whether a startup may outlast a whole upload

Images == Healthy \cup Crashing \cup Hanging
Slots == {0, 1}  \* ota_0 and ota_1 of partitions.csv

ASSUME OtaAssumption ==
  /\ None \notin Slots
  /\ None \notin Images /\ Garbage \notin Images /\ None # Garbage
  /\ Healthy \cap (Crashing \cup Hanging) = {} /\ Crashing \cap Hanging = {}
  /\ MaxChunks \in Nat \ {0}
  /\ SlowStartup \in BOOLEAN

Other(slot) == 1 - slot

EntryStates == {"None", "New", "Pending", "Valid", "Aborted"}

VARIABLES
  content,    \* what each slot holds: an image, or Garbage
  entry,      \* the state in each slot's otadata entry, "None" without one
  newest,     \* the slot whose entry has the higher sequence number, or None
  running,    \* the slot the dial runs from, None while it is off
  startup,    \* of App::Run: "started", "done", "hung"
  server,     \* server_ # nullptr
  upload,     \* HandleOtaPost: "none", "receiving", "written", "selected"
  incoming,   \* what the client is sending
  remaining   \* how much of it is still to come, in chunks

flash == <<content, entry, newest>>
post == <<upload, incoming, remaining>>
vars == <<flash, running, startup, server, post>>

TypeOK ==
  /\ content \in [Slots -> Images \cup {Garbage}]
  /\ entry \in [Slots -> EntryStates]
  /\ newest \in Slots \cup {None}
  /\ running \in Slots \cup {None}
  /\ startup \in {"started", "done", "hung"}
  /\ server \in BOOLEAN
  /\ upload \in {"none", "receiving", "written", "selected"}
  /\ incoming \in Images \cup {Garbage, None}
  /\ remaining \in 0 .. MaxChunks

\* A dial flashed over USB: ota_0 holds an image and otadata is empty.
Init ==
  /\ content \in {[slot \in Slots |-> IF slot = 0 THEN i ELSE Garbage] : i \in Healthy}
  /\ entry = [slot \in Slots |-> "None"]
  /\ newest = None
  /\ running = None /\ startup = "started" /\ server = FALSE
  /\ upload = "none" /\ incoming = None /\ remaining = 0

--------------------------------------------------------------------------------
(* External: the bootloader.                                               *)

Usable(e, slot) == e[slot] \in {"New", "Pending", "Valid"}

\* The entry that counts: the newest usable one.  None means the first slot.
Active(e, last) ==
  IF last # None /\ Usable(e, last) THEN last
  ELSE IF last # None /\ Usable(e, Other(last)) THEN Other(last)
  ELSE None

Slot(active) == IF active = None THEN 0 ELSE active

\* A slot whose trial was not confirmed is not tried again.
AfterTrial(e) == [slot \in Slots |-> IF e[slot] = "Pending" THEN "Aborted" ELSE e[slot]]

\* The slot that is booted, and what becomes of its entry.
Boot ==
  LET checked == AfterTrial(entry)
      active == Active(checked, newest)
  IN
  /\ running = None
  /\ running' = Slot(active)
  /\ entry' = IF active # None /\ checked[active] = "New"
                THEN [checked EXCEPT ![active] = "Pending"] ELSE checked
  /\ startup' = "started" /\ server' = FALSE
  /\ upload' = "none" /\ incoming' = None /\ remaining' = 0
  /\ UNCHANGED <<content, newest>>

Off ==
  /\ running' = None /\ startup' = "started" /\ server' = FALSE
  /\ upload' = "none" /\ incoming' = None /\ remaining' = 0

PowerLoss ==
  /\ running # None
  /\ Off
  /\ UNCHANGED flash

\* Power fails while the entry of the trial is being rewritten, by the
\* bootloader or by the confirmation: the entry is gone.
EntryLost ==
  /\ newest # None /\ entry[newest] \in {"New", "Pending"}
  /\ running \in {None, newest}
  /\ entry' = [entry EXCEPT ![newest] = "None"]
  /\ newest' = IF Usable(entry, Other(newest)) THEN Other(newest) ELSE None
  /\ Off
  /\ UNCHANGED content

--------------------------------------------------------------------------------
(* App::Run's startup and its end, ota::ConfirmBootValid.                   *)

StartupCrashes ==
  /\ running # None /\ startup = "started"
  /\ content[running] \in Crashing
  /\ Off
  /\ UNCHANGED flash

\* The task watchdog is only told of the app task after the startup.
StartupHangs ==
  /\ running # None /\ startup = "started"
  /\ content[running] \in Hanging
  /\ startup' = "hung"
  /\ UNCHANGED <<flash, running, server, post>>

\* Marks whichever entry is active valid, if it is not already.
ConfirmActive ==
  LET active == Active(entry, newest)
  IN  entry' = IF active = None THEN entry ELSE [entry EXCEPT ![active] = "Valid"]

\* Seeded bug: the image is confirmed before it has started up.
ConfirmBootValidFirst ==
  /\ running # None /\ startup = "started"
  /\ startup' = IF content[running] \in Healthy THEN "done" ELSE startup
  /\ ConfirmActive
  /\ UNCHANGED <<content, newest, running, server, post>>

\* Seeded bug: the rollback is never cancelled.
ConfirmBootValidNever ==
  /\ running # None /\ startup = "started"
  /\ content[running] \in Healthy
  /\ startup' = "done"
  /\ UNCHANGED <<flash, running, server, post>>

ConfirmBootValid ==
  /\ running # None /\ startup = "started"
  /\ content[running] \in Healthy
  /\ startup' = "done"
  /\ ConfirmActive
  /\ UNCHANGED <<content, newest, running, server, post>>

--------------------------------------------------------------------------------
(* OtaServer.                                                              *)

\* Wi-Fi came up; it may do so before the startup is over.  A server that
\* cannot be started stays away until the next boot.
StartServer ==
  /\ running # None /\ ~server
  /\ server' = TRUE
  /\ UNCHANGED <<flash, running, startup, post>>

Target == Other(running)

\* External: esp_ota_begin refuses while the running image is on trial.
BeginAllowed == entry[running] # "Pending"

\* A request that is turned away (no token, no body, no slot, refused begin)
\* leaves everything as it is.
HandleOtaPost(image, size) ==
  /\ server /\ upload = "none"
  /\ BeginAllowed
  /\ upload' = "receiving" /\ incoming' = image /\ remaining' = size
  /\ content' = [content EXCEPT ![Target] = Garbage]
  /\ UNCHANGED <<entry, newest, running, startup, server>>

\* A receive that times out is tried again, for ever.
Receive ==
  /\ upload = "receiving" /\ remaining > 0
  /\ remaining' = remaining - 1
  /\ UNCHANGED <<flash, running, startup, server, upload, incoming>>

\* The connection closes, a write, the validation or the selection fails.
Abort ==
  /\ upload \in {"receiving", "written"}
  /\ upload' = "none" /\ incoming' = None /\ remaining' = 0
  /\ UNCHANGED <<flash, running, startup, server>>

\* Seeded bug: whatever was received is good enough.
EndUploadUnchecked ==
  /\ upload = "receiving" /\ remaining = 0
  /\ upload' = "written"
  /\ content' = [content EXCEPT ![Target] = incoming]
  /\ UNCHANGED <<entry, newest, running, startup, server, incoming, remaining>>

\* esp_ota_end checks what was written, and only then is it selected.
EndUpload ==
  /\ upload = "receiving" /\ remaining = 0
  /\ incoming # Garbage
  /\ upload' = "written"
  /\ content' = [content EXCEPT ![Target] = incoming]
  /\ UNCHANGED <<entry, newest, running, startup, server, incoming, remaining>>

\* Startup takes seconds and a transfer of a megabyte longer, unless SlowStartup.
SetBootPartition ==
  /\ upload = "written"
  /\ SlowStartup \/ startup = "done"
  /\ upload' = "selected"
  /\ entry' = [entry EXCEPT ![Target] = "New"]
  /\ newest' = Target
  /\ UNCHANGED <<content, running, startup, server, incoming, remaining>>

Restart ==
  /\ upload = "selected"
  /\ Off
  /\ UNCHANGED flash

--------------------------------------------------------------------------------
Startup == StartupCrashes \/ StartupHangs \/ ConfirmBootValid

Server ==
  \/ StartServer
  \/ \E image \in Images \cup {Garbage}, size \in 1 .. MaxChunks : HandleOtaPost(image, size)
  \/ Receive \/ Abort \/ EndUpload \/ SetBootPartition \/ Restart

Next == Boot \/ PowerLoss \/ EntryLost \/ Startup \/ Server

Spec == Init /\ [][Next]_vars

\* The bootloader, the startup and a restart that was called for are not held up.
\* Nothing is assumed of clients and of the power supply.
FairSpec == Spec /\ WF_vars(Boot) /\ WF_vars(Startup) /\ WF_vars(Restart)

--------------------------------------------------------------------------------
OnTrial == newest # None /\ entry[newest] \in {"New", "Pending"}

\* The slot the bootloader chooses when the trial, if there is one, fails.
Kept ==
  Slot(Active([slot \in Slots |-> IF entry[slot] \in {"New", "Pending"}
                                    THEN "Aborted" ELSE entry[slot]], newest))

\* "A bad update can't brick the dial" (sdkconfig.defaults:171): whatever is
\* uploaded and whenever power fails, the slot that a failed trial leads back to
\* holds an image that starts up (HandleOtaPost, ConfirmBootValid).
NeverBricked == content[Kept] \in Healthy

Installed == INSTANCE Firmware WITH Broken <- Crashing \cup Hanging,
               confirmed <- content[Kept],
               trial <- IF OnTrial THEN content[newest] ELSE None

\* An upload is installed as a trial only when it is complete and well-formed, and
\* becomes the confirmed image only by starting up (esp_ota_end before
\* esp_ota_set_boot_partition, ConfirmBootValid after the startup).
FirmwareSpec == Installed!Spec

\* No image stays on trial: the dial confirms it or goes back, unless its startup
\* blocks for ever, which nothing in the code notices (App::Run registers with the
\* watchdog only after ConfirmBootValid).
TrialEnds == OnTrial ~> (~OnTrial \/ startup = "hung")
================================================================================
