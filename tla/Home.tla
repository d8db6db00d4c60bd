-------------------------------- MODULE Home --------------------------------
(***************************************************************************)
(* The Home Assistant integration (homeassistant/custom_components/        *)
(* grohe_dial): the set-up of the dial's config entry with its migration   *)
(* to a stable identity, the coordinator's polling, the reauthentication   *)
(* flow and the options flow that provisions the dial, as coroutines that  *)
(* interleave wherever they await an answer of the dial.  Home Assistant   *)
(* keeps the entry, the device registry and the entity registry in three   *)
(* files that it saves at its leisure, and may crash between any two.      *)
(*                                                                         *)
(* One entry of one dial, all its entities together.  The entities' own    *)
(* copies of the configuration and the buttons are left out.               *)
(***************************************************************************)
EXTENDS Naturals, FiniteSets

CONSTANTS Tokens,       \* API tokens
          Appliances,   \* of the user's Grohe account
          None,
          MaxMishaps    \* bound on lost answers, crashes and changed tokens

ASSUME HomeAssumption ==
    /\ None \notin Appliances \cup [token : Tokens, appliance : Appliances \cup {None}]
    /\ Tokens # {} /\ MaxMishaps \in Nat

\* What a config entry's unique_id, and every row made from it, is derived from.
Identities == {"host", "mac"}

Calls   == {"refresh", "reauth", "options"}
Good    == {"anonymous", "identified"}      \* without and with a device_id
Replies == Good \cup {"unauthorized", "unreachable"}

VARIABLES
    dial,        \* up, its API token, the appliance provisioned, reports a device_id
    entry,       \* the config entry: id, token, appliance
    entities,    \* the identities its rows in the entity registry are under
    devices,     \* and those in the device registry
    disk,        \* the three as saved
    setup,       \* the entry's state, "refreshing" and "adding" being steps of the set-up
    client,      \* the token of the running client
    available,   \* last_update_success
    polling,     \* the next refresh is scheduled
    reload,      \* a reload is scheduled
    reauth,      \* the reauthentication flow
    merged,      \* its copy of the entry's data
    selected,    \* the appliance the options flow provisions
    call,        \* what every caller waits for, or the answer it got
    late,        \* provisionings nobody waits for any more that the dial may yet serve
    torn,        \* a crash left files that the set-up cannot mend
    unlinked,    \* the entry missed what the dial was provisioned with
    mishaps

haVars == <<entry, entities, devices, setup, client, available, polling, reload,
            reauth, merged, selected>>
vars == <<dial, haVars, disk, call, late, torn, unlinked, mishaps>>

Data(e) == [token |-> e.token, appliance |-> e.appliance]

Saved == [entry |-> entry, entities |-> entities, devices |-> devices]

\* A new entry, of firmware that reports a device_id or of older one.
Init == \E known \in BOOLEAN, t \in Tokens :
    /\ dial = [up |-> TRUE, token |-> t, appliance |-> None, identified |-> known]
    /\ entry = [id |-> IF known THEN "mac" ELSE "host", token |-> t, appliance |-> None]
    /\ entities = {} /\ devices = {} /\ disk = Saved
    /\ setup = "not_loaded" /\ client = t
    /\ available = FALSE /\ polling = FALSE /\ reload = FALSE
    /\ reauth = "none" /\ merged = None /\ selected = None
    /\ call = [c \in Calls |-> "idle"] /\ late = {}
    /\ torn = FALSE /\ unlinked = FALSE /\ mishaps = 0

Mishap == mishaps < MaxMishaps /\ mishaps' = mishaps + 1

Ask(c)         == call' = [call EXCEPT ![c] = "sent"]
Answered(c, r) == call[c] \in r /\ call' = [call EXCEPT ![c] = "idle"]

------------------------------------------------------------------------------
(* The dial.                                                               *)

DialFrame == UNCHANGED <<haVars, disk, torn>>

Status == IF dial.identified THEN "identified" ELSE "anonymous"

\* Its only worker serves requests one at a time.
Serve(c) ==
    /\ dial.up /\ call[c] = "sent"
    /\ \/ /\ c # "options"
          /\ call' = [call EXCEPT ![c] =
                IF dial.token = (IF c = "refresh" THEN client ELSE merged.token)
                THEN Status ELSE "unauthorized"]
          /\ UNCHANGED <<dial, unlinked>>
       \/ /\ c = "options"
          /\ \/ call' = [call EXCEPT ![c] = "unauthorized"] /\ UNCHANGED <<dial, unlinked>>
             \/ /\ call' = [call EXCEPT ![c] = Status]
                /\ dial' = [dial EXCEPT !.appliance = selected]
                /\ unlinked' = FALSE
    /\ UNCHANGED <<late, mishaps>> /\ DialFrame

\* A provisioning that is no longer waited for has not reached the dial, or waits
\* there to be served.
Abandoned ==
    {late} \cup (IF dial.up /\ call["options"] = "sent" THEN {late \cup {selected}} ELSE {})

ServeLate(a) ==
    /\ dial.up /\ a \in late
    /\ late' = late \ {a}
    /\ dial' = [dial EXCEPT !.appliance = a]
    /\ unlinked' = TRUE
    /\ UNCHANGED <<call, mishaps>> /\ DialFrame

\* A request or its answer is lost, or does not come in time.
Lose(c) ==
    /\ call[c] \in Good \cup {"sent"}
    /\ call' = [call EXCEPT ![c] = "unreachable"]
    /\ late' \in (IF c = "options" THEN Abandoned ELSE {late})
    /\ IF dial.up THEN Mishap ELSE UNCHANGED mishaps
    /\ unlinked' = (unlinked \/ (c = "options" /\ call[c] \in Good))
    /\ UNCHANGED dial /\ DialFrame

\* The dial restarts, gets newer firmware, or a new token.
DialChanges ==
    /\ \/ dial' = [dial EXCEPT !.up = ~@] /\ late' = {} /\ UNCHANGED mishaps
       \/ dial' = [dial EXCEPT !.identified = TRUE] /\ UNCHANGED <<late, mishaps>>
       \/ \E t \in Tokens : dial' = [dial EXCEPT !.token = t] /\ Mishap /\ UNCHANGED late
    /\ UNCHANGED <<call, unlinked>> /\ DialFrame

------------------------------------------------------------------------------
(* Setting the entry up.                                                   *)

SetupFrame == UNCHANGED <<dial, disk, merged, selected, late, torn, unlinked, mishaps>>

\* At Home Assistant's start, its retry timer's, or for a reload.
BeginSetup ==
    /\ \/ setup \in {"not_loaded", "retry"}
       \/ reload /\ setup \in {"loaded", "error"}
    /\ setup' = "refreshing" /\ reload' = FALSE
    /\ client' = entry.token /\ Ask("refresh")
    /\ available' = FALSE /\ polling' = FALSE
    /\ UNCHANGED <<entry, entities, devices, reauth>> /\ SetupFrame

StartReauth == reauth' = IF reauth = "none" THEN "form" ELSE reauth

FirstRefreshFails ==
    /\ setup = "refreshing"
    /\ \/ Answered("refresh", {"unreachable"}) /\ setup' = "retry" /\ UNCHANGED reauth
       \/ Answered("refresh", {"unauthorized"}) /\ setup' = "error" /\ StartReauth
    /\ UNCHANGED <<entry, entities, devices, client, available, polling, reload>>
    /\ SetupFrame

\* The device's row is found through one of the entry's entities.
RenameDevice ==
    devices' = IF entities # {} /\ "mac" \notin devices THEN {"mac"} ELSE devices

RenameEntities ==
    entities' = IF entry.id = "host" /\ entities # {} THEN {"mac"} ELSE entities

\* Seeded bug: the entry gets its new identity and the rows are forgotten.
MigrateToStableUniqueIdEntryOnly(reply) ==
    /\ entry' = IF reply = "identified" THEN [entry EXCEPT !.id = "mac"] ELSE entry
    /\ UNCHANGED <<entities, devices>>

MigrateToStableUniqueId(reply) ==
    IF reply = "identified"
    THEN /\ RenameDevice
         /\ RenameEntities
         /\ entry' = [entry EXCEPT !.id = "mac"]
    ELSE UNCHANGED <<entry, entities, devices>>

FirstRefreshSucceeds ==
    /\ setup = "refreshing" /\ setup' = "adding"
    /\ Answered("refresh", Good)
    /\ MigrateToStableUniqueId(call["refresh"])
    /\ UNCHANGED <<client, available, polling, reload, reauth>> /\ SetupFrame

\* The platforms add their entities, whose rows are found by unique_id or made.
AddEntities ==
    /\ setup = "adding" /\ setup' = "loaded"
    /\ entities' = entities \cup {entry.id}
    /\ devices' = devices \cup {entry.id}
    /\ available' = TRUE /\ polling' = TRUE
    /\ UNCHANGED <<entry, client, reload, reauth, call>> /\ SetupFrame

Setup == BeginSetup \/ FirstRefreshFails \/ FirstRefreshSucceeds \/ AddEntities

------------------------------------------------------------------------------
(* Polling.                                                                *)

PollFrame == UNCHANGED <<entry, entities, devices, setup, client, reload>> /\ SetupFrame

Refresh ==
    /\ setup = "loaded" /\ polling /\ call["refresh"] = "idle"
    /\ Ask("refresh")
    /\ UNCHANGED <<available, polling, reauth>> /\ PollFrame

\* A refused token ends the polling; any other failure only delays it.
UpdateData ==
    /\ setup = "loaded"
    /\ \/ Answered("refresh", Good) /\ available' = TRUE /\ UNCHANGED <<polling, reauth>>
       \/ /\ Answered("refresh", {"unreachable"})
          /\ available' = FALSE /\ UNCHANGED <<polling, reauth>>
       \/ /\ Answered("refresh", {"unauthorized"})
          /\ available' = FALSE /\ polling' = FALSE /\ StartReauth
    /\ PollFrame

------------------------------------------------------------------------------
(* The flows.                                                              *)

FlowFrame == UNCHANGED <<dial, entities, devices, disk, setup, client, available,
                         polling, late, torn, mishaps>>

\* async_step_reauth_confirm: the copy is made before the token is tried ...
SubmitToken(t) ==
    /\ reauth = "form" /\ reauth' = "validating"
    /\ merged' = [Data(entry) EXCEPT !.token = t]
    /\ Ask("reauth")
    /\ UNCHANGED <<entry, reload, selected, unlinked>> /\ FlowFrame

\* Seeded bug: the entry is updated and not reloaded.
ReauthSucceedsUnreloaded ==
    /\ Answered("reauth", Good)
    /\ entry' = [entry EXCEPT !.token = merged.token]
    /\ reauth' = "none" /\ merged' = None
    /\ UNCHANGED <<reload, selected, unlinked>> /\ FlowFrame

\* ... and written when it was accepted, over whatever the entry says by now.
ReauthSucceeds ==
    /\ Answered("reauth", Good)
    /\ entry' = [entry EXCEPT !.token = merged.token, !.appliance = merged.appliance]
    /\ unlinked' = (unlinked \/ (/\ merged.appliance # entry.appliance
                                /\ call["options"] \notin Good))
    /\ reload' = TRUE /\ reauth' = "none" /\ merged' = None
    /\ UNCHANGED selected /\ FlowFrame

ReauthFails ==
    /\ Answered("reauth", {"unauthorized", "unreachable"})
    /\ reauth' = "form" /\ merged' = None
    /\ UNCHANGED <<entry, reload, selected, unlinked>> /\ FlowFrame

\* Seeded bug: the entry is linked before the dial has answered.
ProvisionLinkingFirst(a) ==
    /\ call["options"] = "idle" /\ selected' = a
    /\ entry' = [entry EXCEPT !.appliance = a]
    /\ Ask("options")
    /\ UNCHANGED <<merged, reload, reauth, unlinked>> /\ FlowFrame

\* async_step_provision_token.
Provision(a) ==
    /\ call["options"] = "idle" /\ selected' = a
    /\ Ask("options")
    /\ UNCHANGED <<entry, merged, reload, reauth, unlinked>> /\ FlowFrame

ProvisionSucceeds ==
    /\ Answered("options", Good)
    /\ entry' = [entry EXCEPT !.appliance = selected]
    /\ selected' = None
    /\ UNCHANGED <<merged, reload, reauth, unlinked>> /\ FlowFrame

ProvisionFails ==
    /\ Answered("options", {"unauthorized", "unreachable"})
    /\ selected' = None
    /\ UNCHANGED <<entry, merged, reload, reauth, unlinked>> /\ FlowFrame

Flows == \/ \E t \in Tokens : SubmitToken(t)
         \/ ReauthSucceeds \/ ReauthFails
         \/ \E a \in Appliances : Provision(a)
         \/ ProvisionSucceeds \/ ProvisionFails

------------------------------------------------------------------------------
(* Home Assistant itself.                                                  *)

Save == /\ \E f \in DOMAIN disk : disk' = [disk EXCEPT ![f] = Saved[f]]
        /\ UNCHANGED <<dial, haVars, call, late, torn, unlinked, mishaps>>

\* The set-up repairs any mixture of old and new files, but two: an entry that
\* has its new identity already hides that the entities have not, and without
\* entities the device is not found.
Mendable(files) ==
    /\ files.entry.id = "mac" => "host" \notin files.entities
    /\ files.entities = {} => files.devices \subseteq {"mac"}

Crash ==
    /\ Mishap
    /\ entry' = disk.entry /\ entities' = disk.entities /\ devices' = disk.devices
    /\ setup' = "not_loaded" /\ available' = FALSE /\ polling' = FALSE
    /\ reload' = FALSE /\ reauth' = "none"
    /\ call' = [c \in Calls |-> "idle"] /\ late' \in Abandoned
    /\ torn' = (torn \/ ~Mendable(disk))
    /\ unlinked' = (disk.entry.appliance # dial.appliance)
    /\ merged' = None /\ selected' = None
    /\ UNCHANGED <<dial, disk, client>>

Next == \/ \E c \in Calls : Serve(c) \/ Lose(c)
        \/ DialChanges \/ \E a \in Appliances : ServeLate(a)
        \/ Setup \/ Refresh \/ UpdateData \/ Flows
        \/ Save \/ Crash

Spec == Init /\ [][Next]_vars

(***************************************************************************)
(* Home Assistant runs its coroutines and timers, requests are answered or *)
(* time out, and a user who is asked for the token types the right one     *)
(* some time.                                                              *)
(***************************************************************************)
Fairness ==
    /\ \A c \in Calls : WF_vars(Serve(c)) /\ WF_vars(~dial.up /\ Lose(c))
    /\ WF_vars(Setup) /\ WF_vars(Refresh) /\ WF_vars(UpdateData)
    /\ WF_vars(ReauthSucceeds) /\ WF_vars(ReauthFails)
    /\ SF_vars(SubmitToken(dial.token))

FairSpec == Spec /\ Fairness

------------------------------------------------------------------------------
(* Correctness.                                                            *)

TypeOK ==
    /\ dial \in [up : BOOLEAN, token : Tokens, appliance : Appliances \cup {None},
                identified : BOOLEAN]
    /\ entry \in [id : Identities, token : Tokens, appliance : Appliances \cup {None}]
    /\ entities \subseteq Identities /\ devices \subseteq Identities
    /\ setup \in {"not_loaded", "refreshing", "retry", "error", "adding", "loaded"}
    /\ reauth \in {"none", "form", "validating"}
    /\ merged \in {None} \cup [token : Tokens, appliance : Appliances \cup {None}]
    /\ reauth = "validating" <=> merged # None
    /\ call \in [Calls -> {"idle", "sent"} \cup Replies]
    /\ late \subseteq Appliances

(***************************************************************************)
(* __init__.py's migration "does NOT let the device/entity registry simply *)
(* create new rows under the new identity": once the entry is set up, all  *)
(* its rows are under its one identity, whichever of its steps a firmware  *)
(* update, a failure or a crash between two saves came after.  The two     *)
(* mixtures of files excluded as torn do leave orphans.                    *)
(***************************************************************************)
NoOrphans ==
    setup = "loaded" /\ ~torn => entities = {entry.id} /\ devices = {entry.id}

(***************************************************************************)
(* The entry names the appliance the dial was provisioned for last, which  *)
(* _resolve_via_device links it by, from the end of every provisioning     *)
(* that is answered on: however it overlaps polls, set-ups, restarts of    *)
(* the dial and reauthentications that read the entry before it.  Until    *)
(* the next one it need not after an answer that was lost, a request       *)
(* served after it was given up, a crash before the entry was saved, and a *)
(* reauthentication that writes back a copy older than the last one.       *)
(***************************************************************************)
LinkFollowsDial ==
    ~unlinked /\ call["options"] \notin Good => entry.appliance = dial.appliance

(***************************************************************************)
(* While the dial stays reachable the entry ends up loaded and its         *)
(* entities available, whatever failed before and whether or not the token *)
(* had to be entered again: neither the set-up's retries nor polling nor   *)
(* the reload after a reauthentication gets lost.                          *)
(***************************************************************************)
Recovers == <>[]dial.up => <>[]available
=============================================================================
