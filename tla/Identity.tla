-------------------------------- MODULE Identity --------------------------------
(***************************************************************************)
(* Which appliance the dial belongs to.  Credentials arrive by HTTP and    *)
(* are stored by NvsCredentialsProvider::Set; the app task probes an       *)
(* appliance nobody verified yet and pins or rejects it; BleManager's host *)
(* task connects to the pinned address, or to anyone it has not rejected.  *)
(* The three tasks share the provider without a lock.  An appliance        *)
(* accepts its own key only, so a key is named by its appliance.           *)
(***************************************************************************)
EXTENDS Integers, FiniteSets, Sequences, Functions

CONSTANTS
  Appliances,        \* the appliances in range
  None,              \* no appliance, no pin, a key that nobody accepts
  RejectedCapacity,  \* kRejectedAddressCapacity
  MaxProvisions,     \* how often /provision is called
  MaxMishaps         \* how often power, flash or the link fails

ASSUME IdentityAssumption ==
  /\ IsFiniteSet(Appliances) /\ None \notin Appliances
  /\ RejectedCapacity \in Nat \ {0}
  /\ MaxProvisions \in Nat /\ MaxMishaps \in Nat

Keys == Appliances \cup {None}
Stores == [creds : Keys, pin : Keys]
SetSteps == {"idle", "erase", "copy", "copying", "forget"}
PinSteps == {"idle", "store", "cache", "filter"}

VARIABLES
  flash,       \* NVS: the credentials blob and the appliance address
  cache,       \* cached_ and pinned_appliance_address_
  http,        \* how far Set is, and with which credentials
  pinning,     \* how far the app task is after an accepted probe
  subscribed,  \* ready_for_protocol_ /\ subscribed_
  last_found,  \* last_found_address_
  probe,       \* the key the pending probe was signed with, or "none"
  answer,      \* the appliance's answer to it, not polled yet
  command,     \* filter_command_queue_: the slot, which is never emptied
  posted,      \* filter_command_event_ is queued
  filter,      \* address_filter_, None without one
  rejected,    \* rejected_addresses_
  link,        \* the connected appliance
  provisions, mishaps,
  fresh,       \* history: no Set has copied since the boot
  mixed        \* history: a Set was cut short, or overlapped a probe

storeVars == <<flash, cache, http>>
appVars == <<pinning, subscribed, last_found, probe, answer>>
hostVars == <<filter, rejected, link>>
slotVars == <<command, posted>>
history == <<fresh, mixed>>
bounds == <<provisions, mishaps>>
vars == <<storeVars, appVars, hostVars, slotVars, history, bounds>>

\* Every variable has its type; the reject list is bounded and holds nobody twice.
TypeOK ==
  /\ flash \in Stores /\ cache \in Stores
  /\ http \in [step : SetSteps, creds : Keys]
  /\ pinning \in PinSteps /\ subscribed \in BOOLEAN
  /\ last_found \in Keys /\ probe \in Keys \cup {"none"}
  /\ answer \in {"none", "accepted", "rejected"}
  /\ command \in [kind : {"set", "reject", "empty"}, address : Keys] /\ posted \in BOOLEAN
  /\ filter \in Keys /\ link \in Keys
  /\ rejected \in Seq(Appliances) /\ Len(rejected) <= RejectedCapacity /\ IsInjective(rejected)
  /\ provisions \in 0 .. MaxProvisions /\ mishaps \in 0 .. MaxMishaps
  /\ fresh \in BOOLEAN /\ mixed \in BOOLEAN

\* NvsCredentialsProvider::Init: the address counts only with credentials.
Loaded(nvs) == IF nvs.creds = None THEN [creds |-> None, pin |-> None] ELSE nvs

\* Seeded bug: the address filter is left for the first verified probe.
BootCommandNever(store) == [kind |-> "empty", address |-> None]

\* GroheClient::Init sets the filter of a stored pin.
BootCommand(store) ==
  IF store.pin = None THEN [kind |-> "empty", address |-> None]
                      ELSE [kind |-> "set", address |-> store.pin]

\* A device that is new, or that has been provisioned and maybe pinned before.
Init ==
  /\ flash \in {s \in Stores : s.pin \in {None, s.creds}}
  /\ cache = Loaded(flash)
  /\ http = [step |-> "idle", creds |-> None]
  /\ pinning = "idle" /\ subscribed = FALSE /\ last_found = None
  /\ probe = "none" /\ answer = "none"
  /\ command = BootCommand(cache) /\ posted = (command.kind = "set")
  /\ filter = None /\ rejected = <<>> /\ link = None
  /\ provisions = 0 /\ mishaps = 0
  /\ fresh = TRUE /\ mixed = FALSE

ProbeUnderWay == probe # "none" \/ pinning # "idle"
Mishap == mishaps < MaxMishaps /\ mishaps' = mishaps + 1

--------------------------------------------------------------------------------
(* HandleProvisionPost and NvsCredentialsProvider::Set, on the httpd task   *)

SetFrame == UNCHANGED <<appVars, hostVars, slotVars>>

\* A request that passed authentication and validation: set_blob.
SetCredentials ==
  /\ http.step = "idle" /\ provisions < MaxProvisions
  /\ provisions' = provisions + 1
  /\ \E k \in Appliances :
       /\ http' = [step |-> "erase", creds |-> k]
       /\ flash' = [flash EXCEPT !.creds = k]
  /\ mixed' = TRUE
  /\ SetFrame
  /\ UNCHANGED <<cache, fresh, mishaps>>

\* Seeded bug: the address outlives the credentials.
EraseAddressNever ==
  /\ http.step = "erase"
  /\ http' = [http EXCEPT !.step = "copy"]
  /\ mixed' = ProbeUnderWay
  /\ SetFrame
  /\ UNCHANGED <<flash, cache, fresh, bounds>>

EraseAddress ==
  /\ http.step = "erase"
  /\ flash' = [flash EXCEPT !.pin = None]
  /\ http' = [http EXCEPT !.step = "copy"]
  /\ mixed' = ProbeUnderWay
  /\ SetFrame
  /\ UNCHANGED <<cache, fresh, bounds>>

\* erase_item fails: Set returns false, and the blob is not taken back.
EraseFails ==
  /\ http.step = "erase" /\ Mishap
  /\ http' = [http EXCEPT !.step = "idle"]
  /\ SetFrame
  /\ UNCHANGED <<flash, cache, history, provisions>>

\* The two memcpy begin: until they end the key is a mixture.
BeginCopy ==
  /\ http.step = "copy"
  /\ cache' = [cache EXCEPT !.creds = None]
  /\ http' = [http EXCEPT !.step = "copying"]
  /\ fresh' = FALSE
  /\ SetFrame
  /\ UNCHANGED <<flash, mixed, bounds>>

EndCopy ==
  /\ http.step = "copying"
  /\ cache' = [cache EXCEPT !.creds = http.creds]
  /\ http' = [http EXCEPT !.step = "forget"]
  /\ SetFrame
  /\ UNCHANGED <<flash, history, bounds>>

\* pinned_appliance_address_ = {}, and the reply: active at once.
ForgetPin ==
  /\ http.step = "forget"
  /\ cache' = [cache EXCEPT !.pin = None]
  /\ http' = [http EXCEPT !.step = "idle"]
  /\ SetFrame
  /\ UNCHANGED <<flash, history, bounds>>

Httpd == SetCredentials \/ EraseAddress \/ EraseFails \/ BeginCopy \/ EndCopy \/ ForgetPin

--------------------------------------------------------------------------------
(* GroheClient, on the app task                                            *)

AppFrame == UNCHANGED <<http, hostVars, fresh, provisions>>

\* Poll: the link is found, ready and subscribed.
PollSubscribed ==
  /\ pinning = "idle" /\ ~subscribed /\ link # None
  /\ subscribed' = TRUE /\ last_found' = link
  /\ AppFrame
  /\ UNCHANGED <<flash, cache, pinning, probe, answer, slotVars, mixed, mishaps>>

\* Poll: kConnectionFailed.
PollConnectionFailed ==
  /\ pinning = "idle" /\ subscribed /\ link = None
  /\ subscribed' = FALSE /\ probe' = "none" /\ answer' = "none"
  /\ AppFrame
  /\ UNCHANGED <<flash, cache, pinning, last_found, slotVars, mixed, mishaps>>

\* A probe signed with whatever the credentials' buffers hold.
MaybeStartIdentityProbe ==
  /\ pinning = "idle" /\ subscribed /\ cache.pin = None /\ probe = "none"
  /\ probe' = cache.creds
  /\ mixed' = (mixed \/ http.step # "idle")
  /\ AppFrame
  /\ UNCHANGED <<flash, cache, pinning, subscribed, last_found, answer, slotVars, mishaps>>

\* INVALID_HMAC: the peer is to be rejected.
ProbeRejected ==
  /\ pinning = "idle" /\ answer = "rejected"
  /\ probe' = "none" /\ answer' = "none"
  /\ command' = [kind |-> "reject", address |-> None] /\ posted' = TRUE
  /\ AppFrame
  /\ UNCHANGED <<flash, cache, pinning, subscribed, last_found, mixed, mishaps>>

\* Any other answer: the peer knows the key.
ProbeAccepted ==
  /\ pinning = "idle" /\ answer = "accepted"
  /\ probe' = "none" /\ answer' = "none" /\ pinning' = "store"
  /\ AppFrame
  /\ UNCHANGED <<flash, cache, subscribed, last_found, slotVars, mixed, mishaps>>

\* SetPinnedApplianceAddress: set_blob, ...
StorePin ==
  /\ pinning = "store"
  /\ flash' = [flash EXCEPT !.pin = last_found]
  /\ pinning' = "cache"
  /\ AppFrame
  /\ UNCHANGED <<cache, subscribed, last_found, probe, answer, slotVars, mixed, mishaps>>

\* ... which may fail, so that the next Poll probes again, ...
StorePinFails ==
  /\ pinning = "store" /\ Mishap
  /\ pinning' = "idle"
  /\ AppFrame
  /\ UNCHANGED <<flash, cache, subscribed, last_found, probe, answer, slotVars, mixed>>

\* ... and the cached copy.
CachePin ==
  /\ pinning = "cache"
  /\ cache' = [cache EXCEPT !.pin = last_found]
  /\ pinning' = "filter"
  /\ AppFrame
  /\ UNCHANGED <<flash, subscribed, last_found, probe, answer, slotVars, mixed, mishaps>>

\* SetAddressFilter.
FilterPin ==
  /\ pinning = "filter"
  /\ command' = [kind |-> "set", address |-> last_found] /\ posted' = TRUE
  /\ pinning' = "idle"
  /\ AppFrame
  /\ UNCHANGED <<flash, cache, subscribed, last_found, probe, answer, mixed, mishaps>>

AppTask ==
  \/ PollSubscribed \/ PollConnectionFailed \/ MaybeStartIdentityProbe
  \/ ProbeRejected \/ ProbeAccepted
  \/ StorePin \/ StorePinFails \/ CachePin \/ FilterPin

--------------------------------------------------------------------------------
(* BleManager, on the host task                                            *)

HostFrame == UNCHANGED <<storeVars, appVars, command, history, provisions>>

\* HandleFilterCommandEvent, kSetFilter.
ApplyFilter ==
  /\ posted /\ command.kind = "set"
  /\ filter' = command.address /\ posted' = FALSE
  /\ HostFrame
  /\ UNCHANGED <<rejected, link, mishaps>>

\* RememberRejectedAddress: the oldest one is forgotten when the list is full.
Remembered(address) ==
  IF address \in Range(rejected) THEN rejected
  ELSE Append(IF Len(rejected) < RejectedCapacity THEN rejected ELSE Tail(rejected), address)

\* kReject: whoever is connected now is remembered and left.
RejectPeer ==
  /\ posted /\ command.kind = "reject"
  /\ posted' = FALSE
  /\ rejected' = IF link = None THEN rejected ELSE Remembered(link)
  /\ link' = None
  /\ HostFrame
  /\ UNCHANGED <<filter, mishaps>>

\* Seeded bug: rejected appliances are candidates again.
SelectableUnlessFiltered(address) == filter \in {None, address}

\* With a filter only its address is a candidate, without one anybody not rejected.
Selectable(address) ==
  IF filter = None THEN address \notin Range(rejected) ELSE filter = address

\* HandleDiscReport and all that follows.  The backoff before it gives the app
\* task time to see the last link fail and the host task to take the command.
ConnectPeer ==
  /\ link = None /\ ~subscribed /\ ~posted
  /\ \E a \in Appliances : Selectable(a) /\ link' = a
  /\ HostFrame
  /\ UNCHANGED <<filter, rejected, posted, mishaps>>

LinkLost ==
  /\ link # None /\ Mishap
  /\ link' = None
  /\ HostFrame
  /\ UNCHANGED <<filter, rejected, posted>>

\* The appliance answers the probe it reads, unless the link fails first.
Answer ==
  /\ probe # "none" /\ answer = "none" /\ link = last_found
  /\ answer' = IF probe = link THEN "accepted" ELSE "rejected"
  /\ UNCHANGED <<storeVars, pinning, subscribed, last_found, probe, hostVars, slotVars,
                 history, bounds>>

Host == ApplyFilter \/ RejectPeer \/ ConnectPeer \/ LinkLost

\* Power is lost and comes back.
Reboot ==
  /\ Mishap
  /\ cache' = Loaded(flash)
  /\ http' = [step |-> "idle", creds |-> None]
  /\ pinning' = "idle" /\ subscribed' = FALSE /\ last_found' = None
  /\ probe' = "none" /\ answer' = "none"
  /\ command' = BootCommand(cache') /\ posted' = (command'.kind = "set")
  /\ filter' = None /\ rejected' = <<>> /\ link' = None
  /\ fresh' = TRUE
  /\ UNCHANGED <<flash, provisions, mixed>>

Next == Httpd \/ AppTask \/ Host \/ Answer \/ Reboot

Spec == Init /\ [][Next]_vars

\* The tasks run; appliances in range advertise, and answer what is written.
Fairness ==
  /\ WF_vars(EraseAddress \/ BeginCopy \/ EndCopy \/ ForgetPin)
  /\ WF_vars(AppTask) /\ WF_vars(Answer)
  /\ WF_vars(ApplyFilter \/ RejectPeer \/ ConnectPeer)

FairSpec == Spec /\ Fairness

--------------------------------------------------------------------------------
(* Properties                                                              *)

\* Between two operations the dial uses what a reboot would load, and an appliance
\* is pinned only by the credentials in use - unless a Set was cut short by a
\* failure or overlapped a probe, and then from the end of the next Set that was
\* not.  (Set against ProcessIdentityProbeOutcome.)
PinMatchesCredentials ==
  ~mixed /\ http.step = "idle" /\ pinning = "idle" =>
    /\ cache = flash
    /\ cache.pin \in {None, cache.creds}

\* Once an appliance is pinned the dial connects to no other, not even after a
\* reboot or with a rejection in the command slot.  (SetAddressFilter's one slot.)
ConnectsOnlyToPinned ==
  [][link' # link /\ link' # None /\ pinning = "idle" => cache.pin \in {None, link'}]_vars

\* Appliances tried first and in vain do not keep the dial from the right one, as
\* long as the credentials are those it booted with.  (RememberRejectedAddress and
\* HandleDiscReport.)
GenuineIsFound ==
  \A a \in Appliances :
    (fresh /\ cache = [creds |-> a, pin |-> None])
      ~> (cache.pin = a \/ cache.creds # a \/ ~fresh)

\* The same of credentials provisioned since the boot: "each unpinned candidate is
\* individually probed and rejected until the genuine one is found"
\* (docs/m15_completion.md).  (Set never clears the filter or the reject list.)
ReprovisioningTakesEffect ==
  \A a \in Appliances :
    (http.step = "idle" /\ cache = [creds |-> a, pin |-> None])
      ~> (cache.pin = a \/ cache.creds # a)
================================================================================
