------------------------------ MODULE Home_proofs ------------------------------
(***************************************************************************)
(* What holds of the Home Assistant integration for any number of tokens,  *)
(* appliances and mishaps: that a set-up entry has its rows under one      *)
(* identity, and that it names the appliance the dial was told.            *)
(***************************************************************************)
EXTENDS Home, TLAPS

------------------------------------------------------------------------------
(* Types                                                                    *)

EntryData == [token : Tokens, appliance : Appliances \cup {None}]
Entries == [id : Identities, token : Tokens, appliance : Appliances \cup {None}]
Files == [entry : Entries, entities : SUBSET Identities, devices : SUBSET Identities]
CallStates == {"idle", "sent"} \cup Replies

HomeTypes ==
    /\ dial \in [up : BOOLEAN, token : Tokens, appliance : Appliances \cup {None},
                identified : BOOLEAN]
    /\ entry \in Entries /\ entities \subseteq Identities /\ devices \subseteq Identities
    /\ disk \in Files
    /\ setup \in {"not_loaded", "refreshing", "retry", "error", "adding", "loaded"}
    /\ reauth \in {"none", "form", "validating"}
    /\ merged \in {None} \cup EntryData
    /\ reauth = "validating" <=> merged # None
    /\ call["reauth"] # "idle" => reauth = "validating"
    /\ call["options"] # "idle" => selected \in Appliances
    /\ call \in [Calls -> CallStates]
    /\ torn \in BOOLEAN /\ unlinked \in BOOLEAN
    /\ late \subseteq Appliances

\* The migration's renames keep the rows' types.
LEMMA MigrateType ==
  ASSUME HomeTypes, NEW reply, MigrateToStableUniqueId(reply)
  PROVE  entry' \in Entries /\ entry'.appliance = entry.appliance
         /\ entities' \subseteq Identities /\ devices' \subseteq Identities
<1>1. {"mac"} \subseteq Identities /\ "mac" \in Identities
  BY DEF Identities
<1>2. entry \in Entries
  BY DEF HomeTypes
<1>3. entry' = entry \/ entry' = [entry EXCEPT !.id = "mac"]
  BY DEF MigrateToStableUniqueId
<1>4. entry' \in Entries /\ entry'.appliance = entry.appliance
  BY <1>1, <1>2, <1>3 DEF Entries
<1>5. entities' \in {entities, {"mac"}} /\ devices' \in {devices, {"mac"}}
  BY DEF MigrateToStableUniqueId, RenameDevice, RenameEntities
<1> QED BY <1>1, <1>4, <1>5 DEF HomeTypes

\* What a caller waits for is among the states of a call.
LEMMA ReplyIsCallState == Replies \subseteq CallStates /\ Good \subseteq Replies
                          /\ {"idle", "sent", "unreachable", "unauthorized"} \subseteq CallStates
  BY DEF Replies, Good, CallStates

\* What is no longer waited for was for one of the appliances.
LEMMA AbandonedType == HomeTypes => Abandoned \subseteq SUBSET Appliances
  BY DEF HomeTypes, Abandoned

\* Steps of the dial and of the network.
LEMMA DialType ==
  ASSUME HomeTypes, \/ \E c \in Calls : Serve(c) \/ Lose(c)
                    \/ DialChanges
                    \/ \E a \in Appliances : ServeLate(a)
  PROVE  HomeTypes'
<1>1. UNCHANGED <<haVars, disk, torn>>
  BY DEF Serve, ServeLate, Lose, DialChanges, DialFrame
<1>2. CASE DialChanges
  <2>1. dial' \in [up : BOOLEAN, token : Tokens, appliance : Appliances \cup {None},
                   identified : BOOLEAN]
    BY <1>2 DEF DialChanges, HomeTypes
  <2>2. late' \subseteq Appliances
    BY <1>2 DEF DialChanges, HomeTypes
  <2> QED BY <1>1, <1>2, <2>1, <2>2 DEF DialChanges, HomeTypes, haVars
<1>3. ASSUME NEW c \in Calls, Lose(c) PROVE HomeTypes'
  <2>1. call' \in [Calls -> CallStates] /\ call[c] # "idle"
        /\ \A d \in Calls \ {c} : call'[d] = call[d]
    BY <1>3, ReplyIsCallState DEF Lose, HomeTypes, Good
  <2>2. unlinked' \in BOOLEAN
    BY <1>3 DEF Lose, HomeTypes
  <2>3. late' \subseteq Appliances
    BY <1>3, AbandonedType DEF Lose, HomeTypes
  <2> QED BY <1>1, <1>3, <2>1, <2>2, <2>3 DEF Lose, HomeTypes, haVars, Calls
<1>4. ASSUME NEW c \in Calls, Serve(c) PROVE HomeTypes'
  <2>1. Status \in CallStates
    BY ReplyIsCallState DEF Status, Good
  <2>2. call[c] = "sent" /\ \E s \in CallStates : call' = [call EXCEPT ![c] = s]
    BY <1>4, <2>1, ReplyIsCallState DEF Serve
  <2>3. call' \in [Calls -> CallStates] /\ \A d \in Calls \ {c} : call'[d] = call[d]
    BY <2>2 DEF HomeTypes
  <2>4. dial' = dial \/ (c = "options" /\ dial' = [dial EXCEPT !.appliance = selected])
    BY <1>4 DEF Serve
  <2>5. c = "options" => selected \in Appliances
    BY <2>2 DEF HomeTypes
  <2>6. dial' \in [up : BOOLEAN, token : Tokens, appliance : Appliances \cup {None},
                   identified : BOOLEAN]
    BY <2>4, <2>5 DEF HomeTypes
  <2>7. unlinked' \in BOOLEAN /\ late' \subseteq Appliances
    BY <1>4 DEF Serve, HomeTypes
  <2> QED BY <1>1, <1>4, <2>2, <2>3, <2>6, <2>7 DEF HomeTypes, haVars, Calls
<1>5. ASSUME NEW a \in Appliances, ServeLate(a) PROVE HomeTypes'
  <2>1. dial' \in [up : BOOLEAN, token : Tokens, appliance : Appliances \cup {None},
                   identified : BOOLEAN]
    BY <1>5 DEF ServeLate, HomeTypes
  <2> QED BY <1>1, <1>5, <2>1 DEF ServeLate, HomeTypes, haVars
<1> QED BY <1>2, <1>3, <1>4, <1>5

\* Set-up and polling.
LEMMA SetupType ==
  ASSUME HomeTypes, Setup \/ Refresh \/ UpdateData PROVE HomeTypes'
<1>1. UNCHANGED <<dial, disk, merged, selected, late, torn, unlinked>>
  BY DEF Setup, BeginSetup, FirstRefreshFails, FirstRefreshSucceeds, AddEntities, Refresh,
       UpdateData, PollFrame, SetupFrame
<1>2. call' \in [Calls -> CallStates] /\ \A d \in Calls \ {"refresh"} : call'[d] = call[d]
  <2>1. call' = call \/ \E s \in {"idle", "sent"} : call' = [call EXCEPT !["refresh"] = s]
    BY DEF Setup, BeginSetup, FirstRefreshFails, FirstRefreshSucceeds, AddEntities, Refresh,
         UpdateData, Ask, Answered
  <2> QED BY <2>1, ReplyIsCallState DEF HomeTypes, Calls
<1>3. setup' \in {"not_loaded", "refreshing", "retry", "error", "adding", "loaded"}
  BY DEF Setup, BeginSetup, FirstRefreshFails, FirstRefreshSucceeds, AddEntities, Refresh,
       UpdateData, PollFrame, HomeTypes
<1>4. reauth' = reauth \/ (reauth = "none" /\ reauth' = "form")
  BY DEF Setup, BeginSetup, FirstRefreshFails, FirstRefreshSucceeds, AddEntities, Refresh,
       UpdateData, StartReauth
<1>5. entry' \in Entries /\ entities' \subseteq Identities /\ devices' \subseteq Identities
  <2>1. CASE FirstRefreshSucceeds
    BY <2>1, MigrateType DEF FirstRefreshSucceeds
  <2>2. CASE AddEntities
    <3>1. entry \in Entries /\ entry.id \in Identities
      BY DEF HomeTypes, Entries
    <3> QED BY <2>2, <3>1 DEF AddEntities, HomeTypes
  <2>3. CASE ~FirstRefreshSucceeds /\ ~AddEntities
    BY <2>3 DEF Setup, BeginSetup, FirstRefreshFails, Refresh, UpdateData, PollFrame, HomeTypes
  <2> QED BY <2>1, <2>2, <2>3
<1> QED BY <1>1, <1>2, <1>3, <1>4, <1>5 DEF HomeTypes, Calls

\* The flows.
LEMMA FlowType ==
  ASSUME HomeTypes, Flows PROVE HomeTypes'
<1>1. UNCHANGED <<dial, entities, devices, disk, setup, late, torn>>
  BY DEF Flows, SubmitToken, ReauthSucceeds, ReauthFails, Provision, ProvisionSucceeds,
       ProvisionFails, FlowFrame
<1>2. "reauth" \in Calls /\ "options" \in Calls
  BY DEF Calls
<1>3. entry \in Entries /\ None \notin EntryData
  BY HomeAssumption DEF HomeTypes, EntryData
<1>4. ASSUME NEW t \in Tokens, SubmitToken(t) PROVE HomeTypes'
  <2>1. merged' \in EntryData
    BY <1>3, <1>4 DEF SubmitToken, Data, EntryData, Entries
  <2>2. call' \in [Calls -> CallStates] /\ call'["options"] = call["options"]
    BY <1>2, <1>4, ReplyIsCallState DEF SubmitToken, Ask, HomeTypes
  <2> QED BY <1>1, <1>3, <1>4, <2>1, <2>2 DEF SubmitToken, HomeTypes
<1>5. CASE ReauthSucceeds \/ ReauthFails
  <2>1. call["reauth"] # "idle"
    BY <1>5 DEF ReauthSucceeds, ReauthFails, Answered, Good
  <2>2. merged \in EntryData
    BY <2>1 DEF HomeTypes
  <2>3. call' \in [Calls -> CallStates] /\ call'["reauth"] = "idle"
        /\ call'["options"] = call["options"]
    BY <1>2, <1>5, ReplyIsCallState DEF ReauthSucceeds, ReauthFails, Answered, HomeTypes
  <2>4. entry' \in Entries
    BY <1>3, <1>5, <2>2 DEF ReauthSucceeds, ReauthFails, Entries, EntryData
  <2>5. merged' = None /\ reauth' \in {"none", "form"} /\ UNCHANGED selected
    BY <1>5 DEF ReauthSucceeds, ReauthFails
  <2>6. unlinked' \in BOOLEAN
    BY <1>5 DEF ReauthSucceeds, ReauthFails, HomeTypes
  <2> QED BY <1>1, <2>3, <2>4, <2>5, <2>6 DEF HomeTypes
<1>6. ASSUME NEW a \in Appliances, Provision(a) PROVE HomeTypes'
  <2>1. call' \in [Calls -> CallStates] /\ call'["reauth"] = call["reauth"]
    BY <1>2, <1>6, ReplyIsCallState DEF Provision, Ask, HomeTypes
  <2> QED BY <1>1, <1>6, <2>1 DEF Provision, HomeTypes
<1>7. CASE ProvisionSucceeds \/ ProvisionFails
  <2>1. selected \in Appliances
    BY <1>7 DEF ProvisionSucceeds, ProvisionFails, Answered, Good, HomeTypes
  <2>2. call' \in [Calls -> CallStates] /\ call'["options"] = "idle"
        /\ call'["reauth"] = call["reauth"]
    BY <1>2, <1>7, ReplyIsCallState DEF ProvisionSucceeds, ProvisionFails, Answered, HomeTypes
  <2>3. entry' \in Entries
    BY <1>3, <1>7, <2>1 DEF ProvisionSucceeds, ProvisionFails, Entries
  <2>4. unlinked' \in BOOLEAN /\ UNCHANGED <<merged, reauth>>
    BY <1>7 DEF ProvisionSucceeds, ProvisionFails, HomeTypes
  <2> QED BY <1>1, <2>2, <2>3, <2>4 DEF HomeTypes
<1> QED BY <1>4, <1>5, <1>6, <1>7 DEF Flows

\* Saving one of the files, and losing what is not saved.
LEMMA FileType ==
  ASSUME HomeTypes, Save \/ Crash PROVE HomeTypes'
<1>1. disk \in Files /\ Saved \in Files
  BY DEF HomeTypes, Files, Saved
<1>2. CASE Save
  <2>1. disk' \in Files
    BY <1>1, <1>2 DEF Save, Files
  <2> QED BY <1>2, <2>1 DEF Save, HomeTypes, haVars
<1>3. CASE Crash
  <2>1. /\ entry' \in Entries /\ entities' \subseteq Identities /\ devices' \subseteq Identities
        /\ UNCHANGED <<dial, disk>>
    BY <1>1, <1>3 DEF Crash, Files
  <2>2. call' \in [Calls -> CallStates] /\ call'["reauth"] = "idle" /\ call'["options"] = "idle"
    BY <1>3, ReplyIsCallState DEF Crash, Calls
  <2>3. torn' \in BOOLEAN /\ unlinked' \in BOOLEAN /\ late' \subseteq Appliances
    BY <1>3, AbandonedType DEF Crash, HomeTypes
  <2> QED BY <1>3, <2>1, <2>2, <2>3 DEF Crash, HomeTypes
<1> QED BY <1>2, <1>3

LEMMA HomeTypeStep == HomeTypes /\ [Next]_vars => HomeTypes'
<1> SUFFICES ASSUME HomeTypes, [Next]_vars PROVE HomeTypes'
  OBVIOUS
<1>1. CASE UNCHANGED vars
  BY <1>1 DEF vars, haVars, HomeTypes
<1> QED BY <1>1, DialType, SetupType, FlowType, FileType DEF Next

------------------------------------------------------------------------------
(* The entry and the dial                                                   *)

\* What the dial has answered that it was provisioned with is what the flow asked for,
\* unless an older request has been served since.
LinkInv ==
    /\ ~unlinked /\ call["options"] \in Good => selected = dial.appliance
    /\ LinkFollowsDial

LEMMA LinkStep == HomeTypes /\ LinkInv /\ [Next]_vars => LinkInv'
<1> SUFFICES ASSUME HomeTypes, LinkInv, [Next]_vars PROVE LinkInv'
  OBVIOUS
<1>1. /\ {"refresh", "reauth", "options"} = Calls /\ call \in [Calls -> CallStates]
      /\ entry \in Entries
      /\ dial \in [up : BOOLEAN, token : Tokens, appliance : Appliances \cup {None},
                   identified : BOOLEAN]
  BY DEF Calls, HomeTypes
<1>2. "idle" \notin Good /\ "sent" \notin Good /\ "unauthorized" \notin Good
      /\ "unreachable" \notin Good
  BY DEF Good
<1>3. ASSUME NEW c \in Calls, Serve(c) PROVE LinkInv'
  <2>1. UNCHANGED <<entry, selected>> /\ call[c] = "sent"
    BY <1>3 DEF Serve, DialFrame, haVars
  <2>2. CASE c # "options"
    <3>1. call'["options"] = call["options"] /\ UNCHANGED <<dial, unlinked>>
      BY <1>1, <1>3, <2>2 DEF Serve
    <3> QED BY <2>1, <3>1 DEF LinkInv, LinkFollowsDial
  <2>3. CASE c = "options"
    <3>1. \/ call'["options"] = "unauthorized" /\ UNCHANGED <<dial, unlinked>>
          \/ call'["options"] = Status /\ dial'.appliance = selected
      BY <1>1, <1>3, <2>3 DEF Serve
    <3>2. Status \in Good
      BY DEF Status, Good
    <3> QED BY <1>2, <2>1, <2>3, <3>1, <3>2 DEF LinkInv, LinkFollowsDial
  <2> QED BY <2>2, <2>3
<1>4. ASSUME NEW c \in Calls, Lose(c) PROVE LinkInv'
  <2>1. UNCHANGED <<entry, selected, dial>>
    BY <1>4 DEF Lose, DialFrame, haVars
  <2>2. CASE c # "options"
    <3>1. call'["options"] = call["options"] /\ (unlinked' <=> unlinked)
      BY <1>1, <1>4, <2>2 DEF Lose
    <3> QED BY <2>1, <3>1 DEF LinkInv, LinkFollowsDial
  <2>3. CASE c = "options"
    <3>1. call'["options"] = "unreachable"
          /\ (unlinked' <=> unlinked \/ call["options"] \in Good)
      BY <1>1, <1>4, <2>3 DEF Lose
    <3> QED BY <1>2, <2>1, <3>1 DEF LinkInv, LinkFollowsDial
  <2> QED BY <2>2, <2>3
<1>5. CASE DialChanges
  <2>1. dial'.appliance = dial.appliance /\ UNCHANGED <<entry, selected, unlinked, call>>
    BY <1>1, <1>5 DEF DialChanges, DialFrame, haVars
  <2> QED BY <2>1 DEF LinkInv, LinkFollowsDial
<1>6. CASE Setup \/ Refresh \/ UpdateData
  <2>1. UNCHANGED <<dial, selected, unlinked>>
    BY <1>6 DEF Setup, BeginSetup, FirstRefreshFails, FirstRefreshSucceeds, AddEntities,
         Refresh, UpdateData, PollFrame, SetupFrame
  <2>2. call'["options"] = call["options"]
    BY <1>1, <1>6 DEF Setup, BeginSetup, FirstRefreshFails, FirstRefreshSucceeds, AddEntities,
         Refresh, UpdateData, Ask, Answered
  <2>3. entry'.appliance = entry.appliance
    <3>1. CASE FirstRefreshSucceeds
      BY <3>1, MigrateType DEF FirstRefreshSucceeds
    <3>2. CASE ~FirstRefreshSucceeds
      BY <1>6, <3>2 DEF Setup, BeginSetup, FirstRefreshFails, AddEntities, Refresh,
           UpdateData, PollFrame
    <3> QED BY <3>1, <3>2
  <2> QED BY <2>1, <2>2, <2>3 DEF LinkInv, LinkFollowsDial
<1>7. ASSUME NEW t \in Tokens, SubmitToken(t) PROVE LinkInv'
  <2>1. call'["options"] = call["options"] /\ UNCHANGED <<dial, entry, selected, unlinked>>
    BY <1>1, <1>7 DEF SubmitToken, Ask, FlowFrame
  <2> QED BY <2>1 DEF LinkInv, LinkFollowsDial
<1>8. CASE ReauthSucceeds \/ ReauthFails
  <2>1. call'["options"] = call["options"] /\ UNCHANGED <<dial, selected>>
    BY <1>1, <1>8 DEF ReauthSucceeds, ReauthFails, Answered, FlowFrame
  <2>2. ~unlinked' =>
          ~unlinked /\ (call["options"] \in Good \/ entry'.appliance = entry.appliance)
    BY <1>1, <1>8 DEF ReauthSucceeds, ReauthFails, Entries
  <2> QED BY <2>1, <2>2 DEF LinkInv, LinkFollowsDial
<1>9. ASSUME NEW a \in Appliances, Provision(a) PROVE LinkInv'
  <2>1. call["options"] = "idle" /\ call'["options"] = "sent"
        /\ UNCHANGED <<dial, entry, unlinked>>
    BY <1>1, <1>9 DEF Provision, Ask, FlowFrame
  <2> QED BY <1>2, <2>1 DEF LinkInv, LinkFollowsDial
<1>10. CASE ProvisionSucceeds
  <2>1. call["options"] \in Good /\ call'["options"] = "idle" /\ UNCHANGED <<dial, unlinked>>
        /\ entry'.appliance = selected
    BY <1>1, <1>10 DEF ProvisionSucceeds, Answered, FlowFrame, Entries
  <2> QED BY <1>2, <2>1 DEF LinkInv, LinkFollowsDial
<1>11. CASE ProvisionFails
  <2>1. call["options"] \notin Good /\ call'["options"] = "idle"
        /\ UNCHANGED <<dial, entry, unlinked>>
    BY <1>1, <1>2, <1>11 DEF ProvisionFails, Answered, FlowFrame
  <2> QED BY <1>2, <2>1 DEF LinkInv, LinkFollowsDial
<1>12. CASE Save
  BY <1>12 DEF Save, haVars, LinkInv, LinkFollowsDial
<1>13. CASE Crash
  <2>1. call'["options"] = "idle" /\ UNCHANGED dial
        /\ (unlinked' <=> entry'.appliance # dial.appliance)
    BY <1>1, <1>13 DEF Crash
  <2> QED BY <1>2, <2>1 DEF LinkInv, LinkFollowsDial
<1>14. CASE UNCHANGED vars
  BY <1>14 DEF vars, haVars, LinkInv, LinkFollowsDial
<1>15. ASSUME NEW a \in Appliances, ServeLate(a) PROVE LinkInv'
  BY <1>15 DEF ServeLate, LinkInv, LinkFollowsDial
<1> QED BY <1>3, <1>4, <1>5, <1>6, <1>7, <1>8, <1>9, <1>10, <1>11, <1>12, <1>13, <1>14, <1>15
        DEF Next, Flows

------------------------------------------------------------------------------
(* The rows                                                                 *)

\* Somewhere among the files something is under the stable identity.
Migrating(files) == files.entry.id = "mac" \/ "mac" \in files.entities \cup files.devices

\* Then the dial has reported its device_id, and no answer without one is on its way.
MacKnown ==
    /\ Migrating(Saved) \/ Migrating(disk) => dial.identified
    /\ call["refresh"] = "identified" => dial.identified
    /\ call["refresh"] = "anonymous" => ~Migrating(Saved) /\ ~Migrating(disk)

\* The set-up could mend the files if it had to, and has nothing but the entry's
\* identity left when it adds the entities.
OneRow ==
    ~torn =>
      /\ Mendable(Saved) /\ devices # Identities /\ disk.devices # Identities
      /\ setup = "adding" => entities \subseteq {entry.id} /\ devices \subseteq {entry.id}

RowInv == MacKnown /\ OneRow /\ NoOrphans

\* The steps that leave the rows, the entry's identity and the set-up alone.
LEMMA RowsUntouched ==
  ASSUME RowInv, UNCHANGED <<entities, devices, disk, setup, torn>>, entry'.id = entry.id,
         dial.identified => dial'.identified,
         call'["refresh"] = "identified" => dial'.identified,
         call'["refresh"] = "anonymous" => call["refresh"] = "anonymous" \/ ~dial.identified
  PROVE  RowInv'
<1>1. (Migrating(Saved)' <=> Migrating(Saved)) /\ (Mendable(Saved)' <=> Mendable(Saved))
      /\ (Migrating(disk)' <=> Migrating(disk))
  BY DEF Migrating, Mendable, Saved
<1>2. MacKnown'
  BY <1>1 DEF RowInv, MacKnown
<1>3. OneRow'
  BY <1>1 DEF RowInv, OneRow
<1> QED BY <1>2, <1>3 DEF RowInv, NoOrphans

\* The migration leaves one identity in every file.
LEMMA MigrationMends ==
  ASSUME HomeTypes, RowInv, FirstRefreshSucceeds PROVE RowInv'
<1>1. /\ setup' = "adding" /\ UNCHANGED <<dial, disk, torn>>
      /\ call["refresh"] \in Good /\ MigrateToStableUniqueId(call["refresh"])
      /\ call'["refresh"] = "idle"
  BY DEF FirstRefreshSucceeds, Answered, SetupFrame, HomeTypes, Calls
<1>2. entry \in Entries /\ entities \subseteq Identities /\ devices \subseteq Identities
  BY DEF HomeTypes
<1>3. CASE call["refresh"] = "identified"
  <2>1. /\ entry'.id = "mac" /\ dial.identified
        /\ devices' = IF entities # {} /\ "mac" \notin devices THEN {"mac"} ELSE devices
        /\ entities' = IF entry.id = "host" /\ entities # {} THEN {"mac"} ELSE entities
    BY <1>1, <1>2, <1>3 DEF MigrateToStableUniqueId, RenameDevice, RenameEntities, RowInv,
         MacKnown, Entries
  <2>2. ~torn => entities' \subseteq {"mac"} /\ devices' \subseteq {"mac"}
    <3> SUFFICES ASSUME ~torn PROVE entities' \subseteq {"mac"} /\ devices' \subseteq {"mac"}
      OBVIOUS
    <3>1. /\ entry.id = "mac" => "host" \notin entities
          /\ entities = {} => devices \subseteq {"mac"}
          /\ devices # {"host", "mac"}
      BY DEF RowInv, OneRow, Mendable, Saved, Identities
    <3>2. entry.id \in {"host", "mac"} /\ entities \subseteq {"host", "mac"}
          /\ devices \subseteq {"host", "mac"}
      BY <1>2 DEF Entries, Identities
    <3>3. entities' \subseteq {"mac"}
      BY <2>1, <3>1, <3>2
    <3>4. "mac" \in devices => devices = {"mac"}
      BY <3>1, <3>2
    <3>5. devices' \subseteq {"mac"}
      BY <2>1, <3>1, <3>2, <3>4
    <3> QED BY <3>3, <3>5
  <2>3. Mendable(Saved)' <=>
          /\ entry'.id = "mac" => "host" \notin entities'
          /\ entities' = {} => devices' \subseteq {"mac"}
    BY DEF Mendable, Saved
  <2>4. MacKnown'
    BY <1>1, <2>1 DEF MacKnown, RowInv
  <2>5. OneRow'
    BY <1>1, <2>1, <2>2, <2>3 DEF OneRow, RowInv, Identities
  <2> QED BY <1>1, <2>4, <2>5 DEF RowInv, NoOrphans
<1>4. CASE call["refresh"] # "identified"
  <2>1. call["refresh"] = "anonymous" /\ UNCHANGED <<entry, entities, devices>>
    BY <1>1, <1>4 DEF MigrateToStableUniqueId, Good
  <2>2. entry.id = "host" /\ entities \subseteq {"host"} /\ devices \subseteq {"host"}
    BY <1>2, <2>1 DEF RowInv, MacKnown, Migrating, Saved, Entries, Identities
  <2>3. (Migrating(Saved)' <=> Migrating(Saved)) /\ (Mendable(Saved)' <=> Mendable(Saved))
        /\ (Migrating(disk)' <=> Migrating(disk))
    BY <1>1, <2>1 DEF Migrating, Mendable, Saved
  <2>4. MacKnown'
    BY <1>1, <2>3 DEF MacKnown, RowInv
  <2>5. OneRow'
    BY <1>1, <2>1, <2>2, <2>3 DEF OneRow, RowInv
  <2> QED BY <1>1, <2>4, <2>5 DEF RowInv, NoOrphans
<1> QED BY <1>3, <1>4

\* The platforms add the rows that are missing, under that identity.
LEMMA RowsAdded ==
  ASSUME HomeTypes, RowInv, AddEntities PROVE RowInv'
<1>1. /\ setup = "adding" /\ setup' = "loaded" /\ UNCHANGED <<entry, dial, disk, torn, call>>
      /\ entities' = entities \cup {entry.id} /\ devices' = devices \cup {entry.id}
  BY DEF AddEntities, SetupFrame
<1>2. ~torn => entities' = {entry.id} /\ devices' = {entry.id}
  BY <1>1 DEF RowInv, OneRow
<1>3. Migrating(Saved)' <=> Migrating(Saved)
  BY <1>1 DEF Migrating, Saved
<1>4. MacKnown'
  BY <1>1, <1>3 DEF MacKnown, RowInv, Migrating
<1>5. ~torn => Mendable(Saved)'
  BY <1>1, <1>2 DEF Mendable, Saved
<1>6. OneRow'
  BY <1>1, <1>2, <1>5 DEF OneRow, RowInv, Identities
<1> QED BY <1>1, <1>2, <1>4, <1>6 DEF RowInv, NoOrphans

\* What is saved, and what a crash goes back to, is what was there once.
LEMMA RowsSaved ==
  ASSUME HomeTypes, RowInv, Save PROVE RowInv'
<1>1. /\ UNCHANGED <<dial, entry, entities, devices, setup, call, torn>> /\ disk \in Files
      /\ \E f \in DOMAIN disk : disk' = [disk EXCEPT ![f] = Saved[f]]
  BY DEF Save, haVars, HomeTypes
<1>2. DOMAIN disk = {"entry", "entities", "devices"}
  BY <1>1 DEF Files
<1>3. /\ disk'.entry \in {disk.entry, entry} /\ disk'.entities \in {disk.entities, entities}
      /\ disk'.devices \in {disk.devices, devices}
  BY <1>1, <1>2 DEF Files, Saved
<1>4. (Migrating(Saved)' <=> Migrating(Saved)) /\ (Mendable(Saved)' <=> Mendable(Saved))
  BY <1>1 DEF Migrating, Mendable, Saved
<1>5. Migrating(disk)' => Migrating(disk) \/ Migrating(Saved)
  BY <1>3 DEF Migrating, Saved
<1>6. MacKnown'
  BY <1>1, <1>4, <1>5 DEF MacKnown, RowInv
<1>7. OneRow'
  BY <1>1, <1>3, <1>4 DEF OneRow, RowInv
<1> QED BY <1>1, <1>6, <1>7 DEF RowInv, NoOrphans

LEMMA RowsRestored ==
  ASSUME HomeTypes, RowInv, Crash PROVE RowInv'
<1>1. /\ entry' = disk.entry /\ entities' = disk.entities /\ devices' = disk.devices
      /\ setup' = "not_loaded" /\ UNCHANGED <<dial, disk>> /\ call'["refresh"] = "idle"
      /\ torn' <=> torn \/ ~Mendable(disk)
  BY DEF Crash, Calls
<1>2. (Migrating(Saved)' <=> Migrating(disk)) /\ (Mendable(Saved)' <=> Mendable(disk))
      /\ (Migrating(disk)' <=> Migrating(disk))
  BY <1>1 DEF Migrating, Mendable, Saved
<1>3. MacKnown'
  BY <1>1, <1>2 DEF MacKnown, RowInv
<1>4. OneRow'
  BY <1>1, <1>2 DEF OneRow, RowInv
<1> QED BY <1>1, <1>3, <1>4 DEF RowInv, NoOrphans

LEMMA RowStep == HomeTypes /\ RowInv /\ [Next]_vars => RowInv'
<1> SUFFICES ASSUME HomeTypes, RowInv, [Next]_vars PROVE RowInv'
  OBVIOUS
<1>1. {"refresh", "reauth", "options"} = Calls /\ call \in [Calls -> CallStates]
      /\ entry \in Entries
      /\ dial \in [up : BOOLEAN, token : Tokens, appliance : Appliances \cup {None},
                   identified : BOOLEAN]
  BY DEF Calls, HomeTypes
<1>2. ASSUME NEW c \in Calls, Serve(c) PROVE RowInv'
  <2>1. UNCHANGED <<entry, entities, devices, disk, setup, torn>>
    BY <1>2 DEF Serve, DialFrame, haVars
  <2>2. dial'.identified = dial.identified
    BY <1>1, <1>2 DEF Serve
  <2>3. call'["refresh"] \in {call["refresh"], "unauthorized", Status}
    BY <1>1, <1>2 DEF Serve
  <2>4. Status = "identified" => dial.identified
    BY DEF Status
  <2>5. Status = "anonymous" => ~dial.identified
    BY DEF Status
  <2>6. call["refresh"] = "identified" => dial.identified
    BY DEF RowInv, MacKnown
  <2> QED BY <2>1, <2>2, <2>3, <2>4, <2>5, <2>6, RowsUntouched
<1>3. ASSUME NEW c \in Calls, Lose(c) PROVE RowInv'
  <2>1. UNCHANGED <<dial, entry, entities, devices, disk, setup, torn>>
        /\ call'["refresh"] \in {call["refresh"], "unreachable"}
    BY <1>1, <1>3 DEF Lose, DialFrame, haVars
  <2>2. call["refresh"] = "identified" => dial.identified
    BY DEF RowInv, MacKnown
  <2> QED BY <2>1, <2>2, RowsUntouched
<1>4. CASE DialChanges
  <2>1. UNCHANGED <<entry, entities, devices, disk, setup, torn, call>>
        /\ (dial.identified => dial'.identified)
    BY <1>1, <1>4 DEF DialChanges, DialFrame, haVars
  <2>2. call["refresh"] = "identified" => dial.identified
    BY DEF RowInv, MacKnown
  <2> QED BY <2>1, <2>2, RowsUntouched
<1>5. CASE Flows
  <2>1. UNCHANGED <<dial, entities, devices, disk, setup, torn>>
        /\ call'["refresh"] = call["refresh"] /\ entry'.id = entry.id
    BY <1>1, <1>5 DEF Flows, SubmitToken, ReauthSucceeds, ReauthFails, Provision,
         ProvisionSucceeds, ProvisionFails, Ask, Answered, FlowFrame, Entries
  <2>2. call["refresh"] = "identified" => dial.identified
    BY DEF RowInv, MacKnown
  <2> QED BY <2>1, <2>2, RowsUntouched
<1>6. CASE Refresh \/ UpdateData
  <2>1. UNCHANGED <<dial, entry, entities, devices, disk, setup, torn>>
        /\ call'["refresh"] \in {"sent", "idle"}
    BY <1>1, <1>6 DEF Refresh, UpdateData, PollFrame, SetupFrame, Ask, Answered
  <2> QED BY <2>1, RowsUntouched
<1>7. CASE BeginSetup \/ FirstRefreshFails
  <2>1. UNCHANGED <<dial, entry, entities, devices, disk, torn>>
        /\ call'["refresh"] \in {"sent", "idle"} /\ setup' \notin {"adding", "loaded"}
    BY <1>1, <1>7 DEF BeginSetup, FirstRefreshFails, SetupFrame, Ask, Answered
  <2>2. (Migrating(Saved)' <=> Migrating(Saved)) /\ (Mendable(Saved)' <=> Mendable(Saved))
        /\ (Migrating(disk)' <=> Migrating(disk))
    BY <2>1 DEF Migrating, Mendable, Saved
  <2> QED BY <2>1, <2>2 DEF RowInv, MacKnown, OneRow, NoOrphans
<1>8. CASE UNCHANGED vars
  BY <1>8, RowsUntouched DEF vars, haVars, RowInv, MacKnown
<1>9. ASSUME NEW a \in Appliances, ServeLate(a) PROVE RowInv'
  <2>1. UNCHANGED <<entry, entities, devices, disk, setup, torn, call>>
        /\ dial'.identified = dial.identified
    BY <1>1, <1>9 DEF ServeLate, DialFrame, haVars
  <2>2. call["refresh"] = "identified" => dial.identified
    BY DEF RowInv, MacKnown
  <2> QED BY <2>1, <2>2, RowsUntouched
<1> QED BY <1>2, <1>3, <1>4, <1>5, <1>6, <1>7, <1>8, <1>9, MigrationMends, RowsAdded, RowsSaved,
        RowsRestored DEF Next, Setup

------------------------------------------------------------------------------
(* The theorems                                                             *)

HomeInv == HomeTypes /\ LinkInv /\ RowInv

LEMMA HomeInvInit == Init => HomeInv
<1> SUFFICES ASSUME Init PROVE HomeInv
  OBVIOUS
<1>1. PICK known \in BOOLEAN, t \in Tokens :
        /\ dial = [up |-> TRUE, token |-> t, appliance |-> None, identified |-> known]
        /\ entry = [id |-> IF known THEN "mac" ELSE "host", token |-> t, appliance |-> None]
        /\ entities = {} /\ devices = {} /\ disk = Saved
        /\ setup = "not_loaded" /\ reauth = "none" /\ merged = None
        /\ call = [c \in Calls |-> "idle"] /\ late = {}
        /\ torn = FALSE /\ unlinked = FALSE
  BY DEF Init
<1>2. \A c \in Calls : call[c] = "idle"
  BY <1>1
<1>3. HomeTypes
  <2>1. entry \in Entries
    BY <1>1 DEF Entries, Identities
  <2>2. disk \in Files
    BY <1>1, <2>1 DEF Saved, Files
  <2>3. call \in [Calls -> CallStates]
    BY <1>1, ReplyIsCallState
  <2> QED BY <1>1, <1>2, <2>1, <2>2, <2>3 DEF HomeTypes, Calls
<1>4. LinkInv
  BY <1>1, <1>2 DEF LinkInv, LinkFollowsDial, Calls, Good
<1>5. RowInv
  BY <1>1, <1>2 DEF RowInv, MacKnown, OneRow, NoOrphans, Migrating, Mendable, Saved, Calls,
       Identities
<1> QED BY <1>3, <1>4, <1>5 DEF HomeInv

LEMMA HomeInvStep == HomeInv /\ [Next]_vars => HomeInv'
  BY HomeTypeStep, LinkStep, RowStep DEF HomeInv

\* The inductive invariant.
LEMMA HomeInvariant == Spec => []HomeInv
  BY HomeInvInit, HomeInvStep, PTL DEF Spec

\* Every variable has its type, and a token is being tried exactly while there is a
\* copy of the entry to write it to.  (async_step_reauth_confirm.)
THEOREM TypeCorrect == Spec => []TypeOK
<1>1. HomeInv => TypeOK
  BY DEF HomeInv, HomeTypes, TypeOK, Entries, EntryData, CallStates
<1> QED BY <1>1, HomeInvariant, PTL

\* An entry that is set up has all its rows under its identity, whenever the
\* firmware was updated, a step failed or Home Assistant crashed, unless the crash
\* left one of the two mixtures of files.  (_async_migrate_to_stable_unique_id.)
THEOREM OneIdentity == Spec => []NoOrphans
<1>1. HomeInv => NoOrphans
  BY DEF HomeInv, RowInv
<1> QED BY <1>1, HomeInvariant, PTL

\* From the end of a provisioning that was answered the entry names the appliance
\* the dial is provisioned for, until an answer is lost, a request served late, a
\* crash, or a reauthentication with an older copy.  (async_step_provision_token.)
THEOREM EntryFollowsDial == Spec => []LinkFollowsDial
<1>1. HomeInv => LinkFollowsDial
  BY DEF HomeInv, LinkInv
<1> QED BY <1>1, HomeInvariant, PTL
==============================================================================
