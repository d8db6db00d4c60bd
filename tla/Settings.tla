------------------------------- MODULE Settings -------------------------------
(***************************************************************************)
(* The persistent dial settings: DialSettingsStore with its one NVS blob,  *)
(* App::Config and App::SetConfig, and the two /api/config handlers that   *)
(* are their only users after the boot.  A request may set any of the      *)
(* fields; the handler takes the others from the values in memory and      *)
(* writes them all.  Everything of it runs on the HTTP worker.             *)
(***************************************************************************)
EXTENDS Integers

CONSTANTS
  Fields,          \* the settings: "amount", "step", "water"
  Values,          \* what IsValid lets a field be
  Default,         \* the compile-time default of every field
  TooLarge,        \* a step above kMaxAmountMl
  Unreadable,      \* no blob, or one that get_blob refuses
  MaxUpdates,      \* how often a configuration is posted
  MaxMishaps       \* how often power or flash fails

ASSUME SettingsAssumption ==
  /\ Default \in Values /\ TooLarge \notin Values
  /\ Unreadable \notin [Fields -> Values \cup {TooLarge}]
  /\ MaxUpdates \in Nat /\ MaxMishaps \in Nat

DialSettings == [Fields -> Values]
Defaults == [f \in Fields |-> Default]

VARIABLES
  stored,          \* the NVS blob
  values,          \* values_
  update,          \* the POST being served: how far, its fields, its new_values
  acknowledged,    \* history: each field as a client last had it confirmed
  doubtful,        \* history: fields whose write has failed or was cut since then
  unsure,          \* history: the flash failed since the last success or boot
  updates, mishaps

settingsVars ==
  <<stored, values, update, acknowledged, doubtful, unsure, updates, mishaps>>

NoUpdate == [step |-> "idle", fields |-> {}, new |-> Defaults]

\* Every variable has its type; values_ and a blob written by this firmware are in
\* range, whatever was posted (DialSettingsStore::Set).
SettingsTypeOK ==
  /\ stored \in [Fields -> Values \cup {TooLarge}] \cup {Unreadable}
  /\ values \in DialSettings /\ acknowledged \in DialSettings
  /\ update \in [step : {"idle", "set", "write", "commit", "publish"},
                 fields : SUBSET Fields, new : [Fields -> Values \cup {TooLarge}]]
  /\ update.step \notin {"idle", "set"} => update.new \in DialSettings
  /\ doubtful \subseteq Fields /\ unsure \in BOOLEAN
  /\ updates \in 0 .. MaxUpdates /\ mishaps \in 0 .. MaxMishaps

IsValid(settings) == settings \in DialSettings

\* DialSettingsStore::Init: anything but a readable, valid blob means the defaults.
Loaded(blob) == IF IsValid(blob) THEN blob ELSE Defaults

\* The blob may be an earlier firmware's, out of this one's range.
SettingsInit ==
  /\ stored \in [Fields -> Values \cup {TooLarge}] \cup {Unreadable}
  /\ values = Loaded(stored)
  /\ update = NoUpdate
  /\ acknowledged = values /\ doubtful = {} /\ unsure = FALSE
  /\ updates = 0 /\ mishaps = 0

FlashFails == mishaps < MaxMishaps /\ mishaps' = mishaps + 1

\* The flash fails in a request: what became of its fields is open.
Refuse ==
  /\ update' = NoUpdate
  /\ doubtful' = doubtful \cup update.fields

--------------------------------------------------------------------------------
(* POST /api/config                                                        *)

\* What the handler lets a field be: for a step it has no upper bound.
Parsed(f) == IF f = "step" THEN Values \cup {TooLarge} ELSE Values

\* Seeded bug: fields that are not in the request fall back to their defaults.
MergedWithDefaults(request) ==
  [f \in Fields |-> IF f \in DOMAIN request THEN request[f] ELSE Default]

\* new_values starts from dial_api_.Config().
Merged(request) ==
  [f \in Fields |-> IF f \in DOMAIN request THEN request[f] ELSE values[f]]

\* A request that has at least one field, each of them accepted.
PostConfig ==
  /\ update.step = "idle" /\ updates < MaxUpdates
  /\ updates' = updates + 1
  /\ \E present \in SUBSET Fields \ {{}} :
       \E request \in [present -> Values \cup {TooLarge}] :
         /\ \A f \in present : request[f] \in Parsed(f)
         /\ update' = [step |-> "set", fields |-> present, new |-> Merged(request)]
  /\ UNCHANGED <<stored, values, acknowledged, doubtful, unsure, mishaps>>

\* Set: IsValid first; a request out of range changes nothing.
Validate ==
  /\ update.step = "set"
  /\ update' = IF IsValid(update.new) THEN [update EXCEPT !.step = "write"] ELSE NoUpdate
  /\ UNCHANGED <<doubtful, stored, values, acknowledged, unsure, updates, mishaps>>

SetBlob ==
  /\ update.step = "write"
  /\ stored' = update.new
  /\ update' = [update EXCEPT !.step = "commit"]
  /\ UNCHANGED <<values, acknowledged, doubtful, unsure, updates, mishaps>>

\* NVS cannot be opened or written.
SetBlobFails ==
  /\ update.step = "write" /\ FlashFails /\ Refuse
  /\ UNCHANGED <<stored, values, acknowledged, unsure, updates>>

Commit ==
  /\ update.step = "commit"
  /\ update' = [update EXCEPT !.step = "publish"]
  /\ UNCHANGED <<stored, values, acknowledged, doubtful, unsure, updates, mishaps>>

\* Set returns false, and the blob is not taken back.
CommitFails ==
  /\ update.step = "commit" /\ FlashFails /\ Refuse
  /\ unsure' = TRUE
  /\ UNCHANGED <<stored, values, acknowledged, updates>>

\* Seeded bug: the handler replies without the copy in memory being renewed.
PublishUncached ==
  /\ update.step = "publish"
  /\ update' = NoUpdate
  /\ acknowledged' = [f \in Fields |-> IF f \in update.fields THEN update.new[f]
                                       ELSE acknowledged[f]]
  /\ doubtful' = doubtful \ update.fields /\ unsure' = FALSE
  /\ UNCHANGED <<values, stored, updates, mishaps>>

\* values_ = new_values, and 200 OK.
Publish ==
  /\ update.step = "publish"
  /\ values' = update.new
  /\ update' = NoUpdate
  /\ acknowledged' = [f \in Fields |-> IF f \in update.fields THEN update.new[f]
                                       ELSE acknowledged[f]]
  /\ doubtful' = doubtful \ update.fields /\ unsure' = FALSE
  /\ UNCHANGED <<stored, updates, mishaps>>

ServeConfig ==
  PostConfig \/ Validate \/ SetBlob \/ SetBlobFails \/ Commit \/ CommitFails \/ Publish

--------------------------------------------------------------------------------
(* Power is lost, or another task restarts the dial, and it boots again.   *)

\* What a write that is cut short leaves behind: all, nothing, or a torn blob.
Remains ==
  IF update.step = "write" THEN {stored, update.new, Unreadable} ELSE {stored}

\* DialSettingsStore::Init may find the flash unreadable for this boot only.
Boot ==
  /\ FlashFails
  /\ stored' \in Remains
  /\ \E readable \in BOOLEAN :
       /\ values' = IF readable THEN Loaded(stored') ELSE Defaults
       /\ unsure' = ~readable
       /\ doubtful' = IF readable /\ stored' # Unreadable
                      THEN doubtful \cup update.fields ELSE Fields
  /\ update' = NoUpdate
  /\ UNCHANGED <<acknowledged, updates>>

SettingsNext == ServeConfig \/ Boot

SettingsSpec == SettingsInit /\ [][SettingsNext]_settingsVars

--------------------------------------------------------------------------------
(* Properties                                                              *)

\* A setting that was confirmed, or that nobody asked to change, keeps its value
\* over requests that set other fields, failing requests and restarts; only a
\* field of a request that the flash failed or a restart cut, or all of them after
\* a boot that could not read the blob, may differ.  (HandleApiConfigPost's merge and Set.)
ConfirmedSettingsHold ==
  \A f \in Fields \ doubtful : values[f] = acknowledged[f]

\* Between requests a restart brings back just the settings clients are shown,
\* unless the flash failed in the last update or at boot.  (Set, Init.)
RestartKeepsSettings ==
  update.step = "idle" /\ ~unsure => values = Loaded(stored)
================================================================================
