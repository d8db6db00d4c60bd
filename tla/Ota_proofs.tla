------------------------------ MODULE Ota_proofs ------------------------------
(***************************************************************************)
(* Theorems about Ota: that no update bricks the dial, and that the two    *)
(* slots, their entries and the upload implement Firmware.  Both assume    *)
(* that no startup outlasts an upload.                                     *)
(***************************************************************************)
EXTENDS Ota, TLAPS

(***************************************************************************)
(* The inductive invariant: only the newest entry is on trial, and a       *)
(* failed trial leads to the other slot; a dial that is up runs the trial  *)
(* or the slot it would return to; an upload begins when nothing is on     *)
(* trial, so that its target is not the slot to return to.                 *)
(***************************************************************************)
TrialIsNewest ==
  /\ \A slot \in Slots : entry[slot] \in {"New", "Pending"} => slot = newest
  /\ OnTrial => Kept = Other(newest) /\ content[newest] \in Images

RunsKeptOrTrial ==
  running # None =>
    \/ OnTrial /\ running = newest /\ entry[newest] = "Pending" /\ upload = "none"
    \/ OnTrial /\ running = Other(newest) /\ upload = "selected"
    \/ ~OnTrial /\ running = Kept /\ upload # "selected"

\* Only a dial that is up serves anything, and an upload has something to write.
OnlyWhenUp ==
  /\ server => running # None
  /\ upload # "none" => running # None /\ incoming # None

UploadIsSafe ==
  /\ upload = "selected" => startup = "done"
  /\ upload = "written" => incoming \in Images /\ content[Other(running)] = incoming

OtaInv ==
  TypeOK /\ OnlyWhenUp /\ NeverBricked /\ TrialIsNewest /\ RunsKeptOrTrial /\ UploadIsSafe

--------------------------------------------------------------------------------
\* Which slot is kept, without the detour over the bootloader's choice.
Chosen(e, last) ==
  IF last # None /\ e[last] = "Valid" THEN last
  ELSE IF last # None /\ e[Other(last)] = "Valid" THEN Other(last)
  ELSE 0

\* A trial never counts: the slot the bootloader falls back to is the newest one
\* whose image was confirmed, or the one flashed over USB.
LEMMA KeptIs == TypeOK => Kept = Chosen(entry, newest)
<1> SUFFICES ASSUME TypeOK PROVE Kept = Chosen(entry, newest)
  OBVIOUS
<1>1. newest # None => newest \in Slots /\ Other(newest) \in Slots
  BY DEF TypeOK, Slots, Other
<1> DEFINE e == [slot \in Slots |-> IF entry[slot] \in {"New", "Pending"}
                                      THEN "Aborted" ELSE entry[slot]]
<1>2. \A slot \in Slots : Usable(e, slot) <=> entry[slot] = "Valid"
  BY DEF TypeOK, EntryStates, Usable
<1>3. Kept = Slot(Active(e, newest))
  BY DEF Kept
<1> HIDE DEF e
<1> QED BY <1>1, <1>2, <1>3, OtaAssumption DEF Slot, Active, Chosen

\* The types, for any images and any size of an upload.
LEMMA TypesKept == TypeOK /\ OnlyWhenUp /\ [Next]_vars => TypeOK' /\ OnlyWhenUp'
<1> SUFFICES ASSUME TypeOK, OnlyWhenUp, [Next]_vars PROVE TypeOK' /\ OnlyWhenUp'
  OBVIOUS
<1> DEFINE Types ==
             /\ content \in [Slots -> Images \cup {Garbage}]
             /\ entry \in [Slots -> EntryStates]
             /\ newest \in Slots \cup {None} /\ running \in Slots \cup {None}
             /\ startup \in {"started", "done", "hung"}
             /\ upload \in {"none", "receiving", "written", "selected"}
             /\ incoming \in Images \cup {Garbage, None}
             /\ remaining \in 0 .. MaxChunks
             /\ OnlyWhenUp
<1> USE OtaAssumption DEF TypeOK, OnlyWhenUp, Slots, EntryStates, Other, Target, flash, post
<1>1. Boot => Types'
  <2> SUFFICES ASSUME Boot PROVE Types'
    OBVIOUS
  <2> DEFINE e == AfterTrial(entry)
             active == Active(e, newest)
  <2>1. e \in [Slots -> EntryStates]
    BY DEF AfterTrial
  <2>2. active \in Slots \cup {None}
    BY DEF Active
  <2> HIDE DEF e, active
  <2>3. entry' = IF active # None /\ e[active] = "New"
                   THEN [e EXCEPT ![active] = "Pending"] ELSE e
    BY DEF Boot, e, active
  <2>4. entry' \in [Slots -> EntryStates]
    BY <2>1, <2>2, <2>3
  <2>5. running' \in Slots
    BY <2>2 DEF Boot, e, active, Slot
  <2> QED BY <2>4, <2>5 DEF Boot
<1>2. PowerLoss => Types'
  BY DEF PowerLoss, Off
<1>3. EntryLost => Types'
  BY DEF EntryLost, Off
<1>4. StartupCrashes => Types'
  BY DEF StartupCrashes, Off
<1>5. StartupHangs => Types'
  BY DEF StartupHangs
<1>6. ConfirmBootValid => Types'
  <2> SUFFICES ASSUME ConfirmBootValid PROVE Types'
    OBVIOUS
  <2>1. entry' \in [Slots -> EntryStates]
    BY DEF ConfirmBootValid, ConfirmActive, Active
  <2> QED BY <2>1 DEF ConfirmBootValid
<1>7. StartServer => Types'
  BY DEF StartServer
<1>8. ASSUME NEW image \in Images \cup {Garbage}, NEW size \in 1 .. MaxChunks,
             HandleOtaPost(image, size)
      PROVE  Types'
  BY <1>8 DEF HandleOtaPost
<1>9. Receive => Types'
  BY DEF Receive
<1>10. Abort => Types'
  BY DEF Abort
<1>11. EndUpload => Types'
  BY DEF EndUpload
<1>12. SetBootPartition => Types'
  BY DEF SetBootPartition
<1>13. Restart => Types'
  BY DEF Restart, Off
<1>14. UNCHANGED vars => Types'
  BY DEF vars
<1>15. Types'
  BY <1>1, <1>2, <1>3, <1>4, <1>5, <1>6, <1>7, <1>8, <1>9, <1>10, <1>11, <1>12,
     <1>13, <1>14 DEF Next, Startup, Server
<1>16. server' \in BOOLEAN
  BY Zenon DEF Next, Startup, Server, Boot, PowerLoss, EntryLost, Off, StartupCrashes,
     StartupHangs, ConfirmBootValid, StartServer, HandleOtaPost, Receive, Abort,
     EndUpload, SetBootPartition, Restart, vars
<1> QED BY <1>15, <1>16

\* A new image is booted and its trial recorded; otherwise the kept slot is booted
\* and a trial that was pending is over.
LEMMA BootEffect ==
  ASSUME OtaInv, Boot
  PROVE  \/ /\ newest # None /\ entry[newest] = "New" /\ running' = newest
            /\ entry' = [AfterTrial(entry) EXCEPT ![newest] = "Pending"]
         \/ /\ running' = Kept /\ entry' = AfterTrial(entry)
            /\ \A slot \in Slots : entry[slot] # "New"
<1> DEFINE e == AfterTrial(entry)
<1> USE DEF OtaInv, TypeOK, TrialIsNewest, Slots, EntryStates, Other
<1>1. /\ e \in [Slots -> EntryStates]
      /\ \A slot \in Slots :
           e[slot] = IF entry[slot] = "Pending" THEN "Aborted" ELSE entry[slot]
  BY DEF AfterTrial
<1> HIDE DEF e
<1>2. CASE newest # None /\ entry[newest] = "New"
  <2>1. Active(e, newest) = newest
    BY <1>1, <1>2 DEF Active, Usable
  <2> QED BY <1>1, <1>2, <2>1 DEF Boot, Slot, e
<1>3. CASE ~(newest # None /\ entry[newest] = "New")
  <2>1. \A slot \in Slots : e[slot] \notin {"New", "Pending"} /\ entry[slot] # "New"
    BY <1>1, <1>3, OtaAssumption
  <2>2. \A slot \in Slots : Usable(e, slot) <=> entry[slot] = "Valid"
    BY <1>1, <2>1 DEF Usable
  <2>3. newest # None => newest \in Slots /\ Other(newest) \in Slots
    OBVIOUS
  <2>4. Active(e, newest) \in Slots \cup {None} /\ Slot(Active(e, newest)) = Kept
    BY <2>2, <2>3, KeptIs, OtaAssumption DEF Active, Slot, Chosen
  <2> QED BY <2>1, <2>4 DEF Boot, e
<1> QED BY <1>2, <1>3

\* The confirmation ends the trial, if there is one, and changes nothing else.
LEMMA ConfirmEffect ==
  ASSUME OtaInv, ConfirmBootValid
  PROVE  IF OnTrial THEN running = newest /\ entry' = [entry EXCEPT ![newest] = "Valid"]
                    ELSE entry' = entry
<1> USE DEF OtaInv, TypeOK, TrialIsNewest, RunsKeptOrTrial, UploadIsSafe, OnTrial, Slots,
            EntryStates, Other
<1>1. CASE OnTrial
  <2>1. running = newest /\ Active(entry, newest) = newest
    BY <1>1 DEF ConfirmBootValid, Active, Usable
  <2> QED BY <1>1, <2>1 DEF ConfirmBootValid, ConfirmActive
<1>2. CASE ~OnTrial
  <2>1. CASE Active(entry, newest) = None
    BY <1>2, <2>1 DEF ConfirmBootValid, ConfirmActive
  <2>2. CASE Active(entry, newest) # None
    <3>1. Active(entry, newest) \in Slots /\ entry[Active(entry, newest)] = "Valid"
      BY <1>2, <2>2 DEF Active, Usable
    <3>2. entry' = [entry EXCEPT ![Active(entry, newest)] = "Valid"]
      BY <2>2 DEF ConfirmBootValid, ConfirmActive
    <3> QED BY <1>2, <3>1, <3>2
  <2> QED BY <2>1, <2>2
<1> QED BY <1>1, <1>2

(***************************************************************************)
(* The rest of the invariant, step by step.  Kept only depends on the      *)
(* entries, so that KeptIs before and after a step says what becomes of    *)
(* it.                                                                     *)
(***************************************************************************)
LEMMA InvKept == ~SlowStartup /\ OtaInv /\ [Next]_vars => OtaInv'
<1> SUFFICES ASSUME ~SlowStartup, OtaInv, [Next]_vars PROVE OtaInv'
  OBVIOUS
<1> DEFINE Safe == NeverBricked /\ TrialIsNewest /\ RunsKeptOrTrial /\ UploadIsSafe
<1>1. TypeOK' /\ OnlyWhenUp'
  BY TypesKept DEF OtaInv
<1>2. Kept = Chosen(entry, newest)
  BY KeptIs DEF OtaInv
<1>3. Kept' = Chosen(entry', newest')
  <2>1. (TypeOK => Kept = Chosen(entry, newest))'
    BY KeptIs, PTL
  <2> QED BY <1>1, <2>1
<1> USE OtaAssumption, <1>1, <1>2, <1>3
    DEF OtaInv, TypeOK, OnlyWhenUp, NeverBricked, TrialIsNewest, RunsKeptOrTrial, UploadIsSafe,
         OnTrial,
        Chosen, Slots, EntryStates, Other, Target, flash, post
<1>4. Boot => Safe'
  <2> SUFFICES ASSUME Boot PROVE Safe'
    OBVIOUS
  <2>1. CASE newest # None /\ entry[newest] = "New" /\ running' = newest
             /\ entry' = [AfterTrial(entry) EXCEPT ![newest] = "Pending"]
    BY <2>1 DEF Boot, AfterTrial
  <2>2. CASE running' = Kept /\ entry' = AfterTrial(entry)
             /\ \A slot \in Slots : entry[slot] # "New"
    <3>1. \A slot \in Slots : entry'[slot] \notin {"New", "Pending"}
                                /\ (entry'[slot] = "Valid" <=> entry[slot] = "Valid")
      BY <2>2 DEF AfterTrial
    <3> QED BY <2>2, <3>1 DEF Boot
  <2> QED BY <2>1, <2>2, BootEffect
<1>5. PowerLoss => Safe'
  BY DEF PowerLoss, Off
<1>6. EntryLost => Safe'
  BY DEF EntryLost, Off, Usable
<1>7. StartupCrashes => Safe'
  BY DEF StartupCrashes, Off
<1>8. StartupHangs => Safe'
  BY DEF StartupHangs
<1>9. ConfirmBootValid => Safe'
  BY ConfirmEffect DEF ConfirmBootValid
<1>10. StartServer => Safe'
  BY DEF StartServer
<1>11. ASSUME NEW image \in Images \cup {Garbage}, NEW size \in 1 .. MaxChunks,
             HandleOtaPost(image, size)
      PROVE  Safe'
  BY <1>11 DEF HandleOtaPost, BeginAllowed
<1>12. Receive => Safe'
  BY DEF Receive
<1>13. Abort => Safe'
  BY DEF Abort
<1>14. EndUpload => Safe'
  BY DEF EndUpload
<1>15. SetBootPartition => Safe'
  BY DEF SetBootPartition
<1>16. Restart => Safe'
  BY DEF Restart, Off
<1>17. UNCHANGED vars => Safe'
  BY DEF vars
<1>18. Safe'
  BY <1>4, <1>5, <1>6, <1>7, <1>8, <1>9, <1>10, <1>11, <1>12, <1>13, <1>14, <1>15,
     <1>16, <1>17 DEF Next, Startup, Server
<1> QED BY <1>1, <1>18

LEMMA InvInit == Init => OtaInv
<1> SUFFICES ASSUME Init PROVE OtaInv
  OBVIOUS
<1>1. TypeOK
  <2>1. content \in [Slots -> Images \cup {Garbage}]
    BY DEF Init, Images
  <2>2. server \in BOOLEAN
    BY DEF Init
  <2> QED BY <2>1, <2>2, OtaAssumption DEF Init, TypeOK, Slots, EntryStates
<1>2. Kept = 0
  BY <1>1, KeptIs DEF Init, Chosen
<1> QED
  BY <1>1, <1>2, OtaAssumption DEF Init, OtaInv, OnlyWhenUp, NeverBricked, TrialIsNewest,
     RunsKeptOrTrial, UploadIsSafe, OnTrial, Slots

(***************************************************************************)
(* "A bad update can't brick the dial" (sdkconfig.defaults:171): whatever  *)
(* images are uploaded and whenever power fails, in an upload, between the *)
(* selection and the first boot, in the trial or in the rewriting of its   *)
(* entry, the slot a failed trial leads back to holds an image that starts *)
(* up (OtaServer::HandleOtaPost, ota::ConfirmBootValid).                   *)
(***************************************************************************)
THEOREM NoBrick == ASSUME ~SlowStartup PROVE Spec => []NeverBricked
<1>1. OtaInv /\ [Next]_vars => OtaInv'
  BY InvKept
<1>2. OtaInv => NeverBricked
  BY DEF OtaInv
<1> QED BY <1>1, <1>2, InvInit, PTL DEF Spec

--------------------------------------------------------------------------------
(* The refinement: Trial stands for what INSTANCE Firmware calls trial.     *)

Confirmed == content[Kept]
Trial == IF OnTrial THEN content[newest] ELSE None

\* A step that leaves the entries and the two images that count alone is a
\* stuttering step of Firmware.
LEMMA FirmwareStep ==
  OtaInv /\ OtaInv' /\ [Next]_vars =>
    \/ Confirmed' = Confirmed /\ Trial' \in {Trial, None}
    \/ Confirmed' = Confirmed /\ Trial = None /\ Trial' \in Images
    \/ Trial \in Healthy /\ Confirmed' = Trial /\ Trial' = None
<1> DEFINE Step == \/ Confirmed' = Confirmed /\ Trial' \in {Trial, None}
                   \/ Confirmed' = Confirmed /\ Trial = None /\ Trial' \in Images
                   \/ Trial \in Healthy /\ Confirmed' = Trial /\ Trial' = None
<1> SUFFICES ASSUME OtaInv, OtaInv', [Next]_vars PROVE Step
  OBVIOUS
<1>1. Kept = Chosen(entry, newest)
  BY KeptIs DEF OtaInv
<1>2. Kept' = Chosen(entry', newest')
  <2>1. (TypeOK => Kept = Chosen(entry, newest))'
    BY KeptIs, PTL
  <2> QED BY <2>1 DEF OtaInv
<1> USE OtaAssumption, <1>1, <1>2
    DEF OtaInv, TypeOK, OnlyWhenUp, NeverBricked, TrialIsNewest, RunsKeptOrTrial, UploadIsSafe,
        OnTrial, Chosen, Slots, EntryStates, Other, Target, flash, post, Confirmed, Trial
<1>3. Boot => Step
  <2> SUFFICES ASSUME Boot PROVE Step
    OBVIOUS
  <2>1. CASE newest # None /\ entry[newest] = "New" /\ running' = newest
             /\ entry' = [AfterTrial(entry) EXCEPT ![newest] = "Pending"]
    BY <2>1 DEF Boot, AfterTrial
  <2>2. CASE running' = Kept /\ entry' = AfterTrial(entry)
             /\ \A slot \in Slots : entry[slot] # "New"
    <3>1. \A slot \in Slots : entry'[slot] \notin {"New", "Pending"}
                                /\ (entry'[slot] = "Valid" <=> entry[slot] = "Valid")
      BY <2>2 DEF AfterTrial
    <3> QED BY <2>2, <3>1 DEF Boot
  <2> QED BY <2>1, <2>2, BootEffect
<1>4. PowerLoss => Step
  BY DEF PowerLoss
<1>5. EntryLost => Step
  BY DEF EntryLost, Usable
<1>6. StartupCrashes => Step
  BY DEF StartupCrashes
<1>7. StartupHangs => Step
  BY DEF StartupHangs
<1>8. ConfirmBootValid => Step
  BY ConfirmEffect DEF ConfirmBootValid
<1>9. StartServer => Step
  BY DEF StartServer
<1>10. ASSUME NEW image \in Images \cup {Garbage}, NEW size \in 1 .. MaxChunks,
             HandleOtaPost(image, size)
      PROVE  Step
  BY <1>10 DEF HandleOtaPost, BeginAllowed
<1>11. Receive => Step
  BY DEF Receive
<1>12. Abort => Step
  BY DEF Abort
<1>13. EndUpload => Step
  BY DEF EndUpload
<1>14. SetBootPartition => Step
  BY DEF SetBootPartition
<1>15. Restart => Step
  BY DEF Restart
<1>16. UNCHANGED vars => Step
  BY DEF vars
<1> QED
  BY <1>3, <1>4, <1>5, <1>6, <1>7, <1>8, <1>9, <1>10, <1>11, <1>12, <1>13, <1>14, <1>15,
     <1>16 DEF Next, Startup, Server

(***************************************************************************)
(* An upload is installed as a trial only when it is complete and          *)
(* well-formed, and becomes the confirmed image only by starting up:       *)
(* OtaServer, the startup and the bootloader together implement Firmware.  *)
(***************************************************************************)
THEOREM ImplementsFirmware == ASSUME ~SlowStartup PROVE Spec => FirmwareSpec
<1>1. Init => Installed!Init
  BY InvInit DEF Installed!Init, Init, OtaInv, NeverBricked, OnTrial
<1>2. OtaInv /\ OtaInv' /\ [Next]_vars => [Installed!Next]_(Installed!vars)
  BY FirmwareStep DEF Installed!Next, Installed!Install, Installed!Confirm, Installed!Revert,
     Installed!vars, Confirmed, Trial, Images
<1>3. OtaInv /\ [Next]_vars => OtaInv'
  BY InvKept
<1> QED BY <1>1, <1>2, <1>3, InvInit, PTL DEF Spec, FirmwareSpec, Installed!Spec
================================================================================
