---------------------------- MODULE Identity_proofs ----------------------------
(***************************************************************************)
(* What holds of the dial's identity for any number of appliances, of      *)
(* provisionings and of mishaps, and any length of the reject list: that   *)
(* the dial is pinned by the credentials in use only, and that a pinned    *)
(* dial connects to its appliance only.                                    *)
(***************************************************************************)
EXTENDS Identity, TLAPS

--------------------------------------------------------------------------------
(* Types                                                                   *)

\* The types without the reject list.
PlainTypes ==
  /\ flash \in Stores /\ cache \in Stores
  /\ http \in [step : SetSteps, creds : Keys]
  /\ pinning \in PinSteps /\ subscribed \in BOOLEAN
  /\ last_found \in Keys /\ probe \in Keys \cup {"none"}
  /\ answer \in {"none", "accepted", "rejected"}
  /\ command \in [kind : {"set", "reject", "empty"}, address : Keys] /\ posted \in BOOLEAN
  /\ filter \in Keys /\ link \in Keys
  /\ provisions \in 0 .. MaxProvisions /\ mishaps \in 0 .. MaxMishaps
  /\ fresh \in BOOLEAN /\ mixed \in BOOLEAN

\* The reject list is bounded and holds nobody twice.
ListType ==
  rejected \in Seq(Appliances) /\ Len(rejected) <= RejectedCapacity /\ IsInjective(rejected)

\* A list without its oldest entry, or with a new one.
LEMMA TailInjective ==
  ASSUME NEW S, NEW list \in Seq(S), list # <<>>, IsInjective(list)
  PROVE  /\ Tail(list) \in Seq(S) /\ Len(Tail(list)) = Len(list) - 1 /\ IsInjective(Tail(list))
         /\ Range(Tail(list)) \subseteq Range(list)
<1>1. Tail(list) \in Seq(S) /\ Len(Tail(list)) = Len(list) - 1 /\ Len(list) \in Nat
  OBVIOUS
<1>2. \A i \in DOMAIN Tail(list) : i + 1 \in DOMAIN list /\ Tail(list)[i] = list[i + 1]
  OBVIOUS
<1>3. \A i, j \in DOMAIN Tail(list) : i \in Int /\ j \in Int /\ (i + 1 = j + 1 => i = j)
  OBVIOUS
<1>4. IsInjective(Tail(list))
  BY <1>2, <1>3 DEF IsInjective
<1>5. Range(Tail(list)) \subseteq Range(list)
  BY <1>2 DEF Range
<1> QED BY <1>1, <1>4, <1>5

LEMMA AppendInjective ==
  ASSUME NEW S, NEW list \in Seq(S), NEW x \in S, IsInjective(list), x \notin Range(list)
  PROVE  Append(list, x) \in Seq(S) /\ Len(Append(list, x)) = Len(list) + 1
         /\ IsInjective(Append(list, x))
<1>1. Append(list, x) \in Seq(S) /\ Len(Append(list, x)) = Len(list) + 1 /\ Len(list) \in Nat
  OBVIOUS
<1>2. /\ \A i \in DOMAIN list : Append(list, x)[i] = list[i] /\ list[i] # x
      /\ Append(list, x)[Len(list) + 1] = x
  BY DEF Range
<1>3. DOMAIN list = 1 .. Len(list) /\ DOMAIN Append(list, x) = 1 .. Len(list) + 1
  OBVIOUS
<1>4. DOMAIN Append(list, x) = DOMAIN list \cup {Len(list) + 1}
  BY <1>1, <1>3
<1>5. IsInjective(Append(list, x))
  BY <1>2, <1>4 DEF IsInjective
<1> QED BY <1>1, <1>5

\* Remembering an appliance keeps the list's bound, and nobody is in it twice.
LEMMA RememberedType ==
  ASSUME ListType, NEW address \in Appliances
  PROVE  LET list == Remembered(address) IN
           list \in Seq(Appliances) /\ Len(list) <= RejectedCapacity /\ IsInjective(list)
<1>1. CASE address \in Range(rejected)
  BY <1>1 DEF Remembered, ListType
<1>2. CASE address \notin Range(rejected) /\ Len(rejected) < RejectedCapacity
  <2>1. Remembered(address) = Append(rejected, address)
    BY <1>2 DEF Remembered
  <2>2. Len(rejected) \in Nat /\ Len(rejected) + 1 <= RejectedCapacity
    BY <1>2, IdentityAssumption DEF ListType
  <2>3. rejected \in Seq(Appliances) /\ IsInjective(rejected)
    BY DEF ListType
  <2>4. Append(rejected, address) \in Seq(Appliances)
        /\ Len(Append(rejected, address)) = Len(rejected) + 1
        /\ IsInjective(Append(rejected, address))
    BY <1>2, <2>3, AppendInjective
  <2> QED BY <2>1, <2>2, <2>4
<1>3. CASE address \notin Range(rejected) /\ ~(Len(rejected) < RejectedCapacity)
  <2>1. Remembered(address) = Append(Tail(rejected), address)
    BY <1>3 DEF Remembered
  <2>2. rejected \in Seq(Appliances) /\ Len(rejected) \in Nat /\ Len(rejected) = RejectedCapacity
        /\ RejectedCapacity \in Nat \ {0}
    BY <1>3, IdentityAssumption DEF ListType
  <2>3. rejected # <<>>
    BY <2>2
  <2>4. /\ Tail(rejected) \in Seq(Appliances) /\ Len(Tail(rejected)) = Len(rejected) - 1
        /\ IsInjective(Tail(rejected)) /\ Range(Tail(rejected)) \subseteq Range(rejected)
    BY <2>2, <2>3, TailInjective DEF ListType
  <2>5. address \notin Range(Tail(rejected))
    BY <1>3, <2>4
  <2>6. Append(Tail(rejected), address) \in Seq(Appliances)
        /\ Len(Append(Tail(rejected), address)) = Len(Tail(rejected)) + 1
        /\ IsInjective(Append(Tail(rejected), address))
    BY <2>4, <2>5, AppendInjective
  <2>7. Len(Tail(rejected)) + 1 <= RejectedCapacity
    BY <2>2, <2>4
  <2> QED BY <2>1, <2>6, <2>7
<1> QED BY <1>1, <1>2, <1>3

\* What a reboot loads, and the command it posts, have their types.
LEMMA LoadedType ==
  ASSUME NEW nvs \in Stores
  PROVE  Loaded(nvs) \in Stores
         /\ BootCommand(Loaded(nvs)) \in [kind : {"set", "reject", "empty"}, address : Keys]
<1>1. Loaded(nvs) \in Stores
  BY DEF Loaded, Stores, Keys
<1>2. ASSUME NEW s \in Stores
      PROVE  BootCommand(s) \in [kind : {"set", "reject", "empty"}, address : Keys]
  BY DEF BootCommand, Stores, Keys
<1> QED BY <1>1, <1>2

\* The counters stay within their bounds.
LEMMA MishapType ==
  ASSUME mishaps \in 0 .. MaxMishaps, Mishap PROVE mishaps' \in 0 .. MaxMishaps
  BY IdentityAssumption DEF Mishap

\* Every step keeps the types.
LEMMA PlainTypeStep == PlainTypes /\ [Next]_vars => PlainTypes'
<1> SUFFICES ASSUME PlainTypes, [Next]_vars PROVE PlainTypes'
  OBVIOUS
<1>1. None \in Keys /\ Appliances \subseteq Keys
  BY DEF Keys
<1>2. mishaps' \in 0 .. MaxMishaps
  <2>1. mishaps' = mishaps \/ Mishap
    BY DEF Next, Httpd, SetCredentials, EraseAddress, EraseFails, BeginCopy, EndCopy, ForgetPin,
         AppTask, PollSubscribed, PollConnectionFailed, MaybeStartIdentityProbe, ProbeRejected,
         ProbeAccepted, StorePin, StorePinFails, CachePin, FilterPin, Host, ApplyFilter,
         RejectPeer, ConnectPeer, LinkLost, Answer, Reboot, bounds, vars
  <2> QED BY <2>1, MishapType DEF PlainTypes
<1>3. provisions' \in 0 .. MaxProvisions
  <2>1. provisions' = provisions \/ SetCredentials
    BY DEF Next, Httpd, EraseAddress, EraseFails, BeginCopy, EndCopy, ForgetPin,
         AppTask, PollSubscribed, PollConnectionFailed, MaybeStartIdentityProbe, ProbeRejected,
         ProbeAccepted, StorePin, StorePinFails, CachePin, FilterPin, AppFrame, Host,
         ApplyFilter, RejectPeer, ConnectPeer, LinkLost, HostFrame, Answer, Reboot, bounds, vars
  <2>2. provisions \in 0 .. MaxProvisions
    BY DEF PlainTypes
  <2> QED BY <2>1, <2>2, IdentityAssumption DEF SetCredentials
<1>4. CASE Httpd
  <2>1. flash' \in Stores /\ cache' \in Stores /\ http' \in [step : SetSteps, creds : Keys]
    BY <1>1, <1>4 DEF Httpd, SetCredentials, EraseAddress, EraseFails, BeginCopy, EndCopy,
         ForgetPin, PlainTypes, Stores, SetSteps
  <2>2. UNCHANGED <<appVars, hostVars, slotVars>> /\ fresh' \in {fresh, FALSE}
        /\ mixed' \in BOOLEAN
    BY <1>4 DEF Httpd, SetCredentials, EraseAddress, EraseFails, BeginCopy, EndCopy, ForgetPin,
         SetFrame, ProbeUnderWay, history, PlainTypes
  <2> QED BY <1>2, <1>3, <2>1, <2>2 DEF PlainTypes, appVars, hostVars, slotVars
<1>5. CASE AppTask
  <2>1. flash' \in Stores /\ cache' \in Stores
    BY <1>5 DEF AppTask, PollSubscribed, PollConnectionFailed, MaybeStartIdentityProbe,
         ProbeRejected, ProbeAccepted, StorePin, StorePinFails, CachePin, FilterPin, PlainTypes,
         Stores
  <2>2. probe' \in Keys \cup {"none"} /\ answer' \in {"none", "accepted", "rejected"}
        /\ last_found' \in Keys
    BY <1>5 DEF AppTask, PollSubscribed, PollConnectionFailed, MaybeStartIdentityProbe,
         ProbeRejected, ProbeAccepted, StorePin, StorePinFails, CachePin, FilterPin, PlainTypes,
         Stores
  <2>3. pinning' \in PinSteps /\ subscribed' \in BOOLEAN
    BY <1>5 DEF AppTask, PollSubscribed, PollConnectionFailed, MaybeStartIdentityProbe,
         ProbeRejected, ProbeAccepted, StorePin, StorePinFails, CachePin, FilterPin, PlainTypes,
         PinSteps
  <2>4. command' \in [kind : {"set", "reject", "empty"}, address : Keys] /\ posted' \in BOOLEAN
    <3>1. \/ UNCHANGED <<command, posted>>
          \/ command' = [kind |-> "reject", address |-> None] /\ posted' = TRUE
          \/ command' = [kind |-> "set", address |-> last_found] /\ posted' = TRUE
      BY <1>5 DEF AppTask, PollSubscribed, PollConnectionFailed, MaybeStartIdentityProbe,
           ProbeRejected, ProbeAccepted, StorePin, StorePinFails, CachePin, FilterPin, slotVars
    <3>2. command \in [kind : {"set", "reject", "empty"}, address : Keys] /\ posted \in BOOLEAN
          /\ last_found \in Keys
      BY DEF PlainTypes
    <3>3. command' \in [kind : {"set", "reject", "empty"}, address : Keys]
      BY <1>1, <3>1, <3>2
    <3>4. posted' \in BOOLEAN
      BY <3>1, <3>2
    <3> QED BY <3>3, <3>4
  <2>5. mixed' \in BOOLEAN /\ UNCHANGED <<http, hostVars, fresh>>
    <3>1. AppFrame /\ (UNCHANGED mixed \/ mixed' = (mixed \/ http.step # "idle"))
      BY <1>5 DEF AppTask, PollSubscribed, PollConnectionFailed, MaybeStartIdentityProbe,
           ProbeRejected, ProbeAccepted, StorePin, StorePinFails, CachePin, FilterPin
    <3>2. mixed \in BOOLEAN
      BY DEF PlainTypes
    <3>3. mixed' \in BOOLEAN
      BY <3>1, <3>2, Zenon
    <3> QED BY <3>1, <3>3 DEF AppFrame
  <2> QED BY <1>2, <1>3, <2>1, <2>2, <2>3, <2>4, <2>5 DEF PlainTypes, hostVars
<1>6. CASE Host
  <2>1. filter' \in Keys /\ link' \in Keys /\ posted' \in BOOLEAN
    BY <1>1, <1>6 DEF Host, ApplyFilter, RejectPeer, ConnectPeer, LinkLost, PlainTypes
  <2>2. UNCHANGED <<storeVars, appVars, command, history>>
    BY <1>6 DEF Host, ApplyFilter, RejectPeer, ConnectPeer, LinkLost, HostFrame
  <2> QED BY <1>2, <1>3, <2>1, <2>2 DEF PlainTypes, storeVars, appVars, history
<1>7. CASE Answer
  BY <1>2, <1>3, <1>7 DEF Answer, PlainTypes, storeVars, hostVars, slotVars, history
<1>8. CASE Reboot
  <2>1. flash \in Stores
    BY DEF PlainTypes
  <2>2. cache' \in Stores /\ command' \in [kind : {"set", "reject", "empty"}, address : Keys]
    BY <1>8, <2>1, LoadedType DEF Reboot
  <2>3. http' \in [step : SetSteps, creds : Keys] /\ pinning' \in PinSteps /\ posted' \in BOOLEAN
    BY <1>1, <1>8 DEF Reboot, SetSteps, PinSteps
  <2> QED BY <1>1, <1>2, <1>3, <1>8, <2>2, <2>3 DEF Reboot, PlainTypes
<1>9. CASE UNCHANGED vars
  BY <1>9 DEF PlainTypes, vars, storeVars, appVars, hostVars, slotVars, history, bounds
<1> QED BY <1>4, <1>5, <1>6, <1>7, <1>8, <1>9 DEF Next

\* Every step keeps the reject list.
LEMMA ListStep == PlainTypes /\ ListType /\ [Next]_vars => ListType'
<1> SUFFICES ASSUME PlainTypes, ListType, [Next]_vars PROVE ListType'
  OBVIOUS
<1>1. CASE RejectPeer
  <2>1. link # None => link \in Appliances
    BY DEF PlainTypes, Keys
  <2> QED BY <1>1, <2>1, RememberedType DEF RejectPeer, ListType
<1>2. CASE Reboot
  <2>1. rejected' = <<>>
    BY <1>2 DEF Reboot
  <2>2. <<>> \in Seq(Appliances) /\ Len(<<>>) = 0 /\ IsInjective(<<>>)
    BY DEF IsInjective
  <2> QED BY <2>1, <2>2, IdentityAssumption DEF ListType
<1>3. CASE ~RejectPeer /\ ~Reboot
  <2>1. UNCHANGED rejected
    BY <1>3 DEF Next, Httpd, SetCredentials, EraseAddress, EraseFails, BeginCopy, EndCopy,
         ForgetPin, SetFrame, AppTask, PollSubscribed, PollConnectionFailed,
         MaybeStartIdentityProbe, ProbeRejected, ProbeAccepted, StorePin, StorePinFails,
         CachePin, FilterPin, AppFrame, Host, ApplyFilter, ConnectPeer, LinkLost, Answer,
         hostVars, vars
  <2> QED BY <2>1 DEF ListType
<1> QED BY <1>1, <1>2, <1>3

--------------------------------------------------------------------------------
(* The order of the app task's steps                                        *)

\* A probe is under way, and its result used, over one link and without a pin.
ProbeOrder ==
  /\ answer # "none" => probe # "none"
  /\ probe # "none" => subscribed /\ pinning = "idle" /\ cache.pin = None
  /\ pinning \in {"store", "cache"} => cache.pin = None
  /\ pinning = "filter" => cache.pin \in {None, last_found}

LEMMA ProbeOrderStep == PlainTypes /\ ProbeOrder /\ [Next]_vars => ProbeOrder'
<1> SUFFICES ASSUME PlainTypes, ProbeOrder, [Next]_vars PROVE ProbeOrder'
  OBVIOUS
<1>1. cache \in Stores
  BY DEF PlainTypes
<1>2. CASE Httpd
  <2>1. UNCHANGED appVars /\ cache'.pin \in {None, cache.pin}
    BY <1>1, <1>2 DEF Httpd, SetCredentials, EraseAddress, EraseFails, BeginCopy, EndCopy,
         ForgetPin, SetFrame, Stores
  <2> QED BY <2>1 DEF ProbeOrder, appVars
<1>3. CASE AppTask
  <2>1. CASE CachePin
    <3>1. cache'.pin = last_found /\ pinning' = "filter" /\ UNCHANGED <<last_found, probe, answer>>
          /\ probe = "none"
      BY <1>1, <2>1 DEF CachePin, Stores, ProbeOrder
    <3> QED BY <3>1 DEF ProbeOrder
  <2>2. CASE ~CachePin
    <3>1. UNCHANGED cache
      BY <1>3, <2>2 DEF AppTask, PollSubscribed, PollConnectionFailed, MaybeStartIdentityProbe,
           ProbeRejected, ProbeAccepted, StorePin, StorePinFails, FilterPin
    <3> QED BY <1>3, <2>2, <3>1 DEF AppTask, PollSubscribed, PollConnectionFailed,
               MaybeStartIdentityProbe, ProbeRejected, ProbeAccepted, StorePin, StorePinFails,
               FilterPin, ProbeOrder
  <2> QED BY <2>1, <2>2
<1>4. CASE Host
  BY <1>4 DEF Host, ApplyFilter, RejectPeer, ConnectPeer, LinkLost, HostFrame, storeVars,
       appVars, ProbeOrder
<1>5. CASE Answer
  BY <1>5 DEF Answer, storeVars, ProbeOrder
<1>6. CASE Reboot
  BY <1>6 DEF Reboot, ProbeOrder
<1>7. CASE UNCHANGED vars
  BY <1>7 DEF vars, storeVars, appVars, ProbeOrder
<1> QED BY <1>2, <1>3, <1>4, <1>5, <1>6, <1>7 DEF Next

--------------------------------------------------------------------------------
(* The address filter                                                       *)

\* A pin is in the filter, or in the slot on its way there and not overwritten.
FilterFollows ==
  pinning = "idle" /\ cache.pin # None =>
    IF posted THEN command.kind = "set" /\ command.address = cache.pin ELSE filter = cache.pin

LEMMA FilterStep ==
  PlainTypes /\ ProbeOrder /\ FilterFollows /\ [Next]_vars => FilterFollows'
<1> SUFFICES ASSUME PlainTypes, ProbeOrder, FilterFollows, [Next]_vars PROVE FilterFollows'
  OBVIOUS
<1>1. cache \in Stores
  BY DEF PlainTypes
<1>2. CASE Httpd
  <2>1. UNCHANGED <<appVars, hostVars, slotVars>> /\ cache'.pin \in {None, cache.pin}
    BY <1>1, <1>2 DEF Httpd, SetCredentials, EraseAddress, EraseFails, BeginCopy, EndCopy,
         ForgetPin, SetFrame, Stores
  <2> QED BY <2>1 DEF FilterFollows, appVars, hostVars, slotVars
<1>3. CASE AppTask
  <2>1. CASE CachePin \/ StorePin \/ ProbeAccepted
    BY <2>1 DEF CachePin, StorePin, ProbeAccepted, FilterFollows
  <2>2. CASE FilterPin
    <3>1. command'.kind = "set" /\ command'.address = last_found /\ posted' /\ UNCHANGED cache
          /\ cache.pin \in {None, last_found}
      BY <2>2 DEF FilterPin, ProbeOrder
    <3> QED BY <3>1 DEF FilterFollows
  <2>3. CASE ProbeRejected \/ StorePinFails
    <3>1. cache.pin = None /\ UNCHANGED cache
      BY <2>3 DEF ProbeRejected, StorePinFails, ProbeOrder
    <3> QED BY <3>1 DEF FilterFollows
  <2>4. CASE PollSubscribed \/ PollConnectionFailed \/ MaybeStartIdentityProbe
    BY <2>4 DEF PollSubscribed, PollConnectionFailed, MaybeStartIdentityProbe, AppFrame, hostVars,
         slotVars, FilterFollows
  <2> QED BY <1>3, <2>1, <2>2, <2>3, <2>4 DEF AppTask
<1>4. CASE Host
  BY <1>4 DEF Host, ApplyFilter, RejectPeer, ConnectPeer, LinkLost, HostFrame, storeVars,
       appVars, FilterFollows
<1>5. CASE Answer
  BY <1>5 DEF Answer, storeVars, hostVars, slotVars, FilterFollows
<1>6. CASE Reboot
  <2>1. cache'.pin # None => command'.kind = "set" /\ command'.address = cache'.pin
    BY <1>6 DEF Reboot, BootCommand
  <2> QED BY <1>6, <2>1 DEF Reboot, FilterFollows
<1>7. CASE UNCHANGED vars
  BY <1>7 DEF vars, storeVars, appVars, hostVars, slotVars, FilterFollows
<1> QED BY <1>2, <1>3, <1>4, <1>5, <1>6, <1>7 DEF Next

--------------------------------------------------------------------------------
(* The pin and the credentials                                              *)

\* Set has written what it has not copied yet.
SetOrder ==
  /\ http.step # "idle" => flash.creds = http.creds
  /\ http.step = "erase" => mixed

\* Between two operations, a pin about to be stored, or stored and not cached, is that of
\* the appliance that answered a probe signed with the credentials in use.
Settled ==
  /\ cache.creds = flash.creds
  /\ probe \in {"none", cache.creds}
  /\ answer = "accepted" => last_found = cache.creds
  /\ pinning # "idle" => last_found = cache.creds
  /\ pinning \in {"idle", "store"} => cache.pin = flash.pin
  /\ pinning \in {"cache", "filter"} => flash.pin = last_found
  /\ pinning = "filter" => cache.pin = last_found

\* A Set that overlaps no probe leaves nothing of the old credentials behind.
Clean ==
  ~mixed =>
    /\ flash.pin \in {None, flash.creds}
    /\ http.step = "idle" => Settled
    /\ http.step # "idle" => ~ProbeUnderWay /\ flash.pin = None
    /\ http.step = "forget" => cache.creds = flash.creds

PinInv == SetOrder /\ Clean

\* The HTTP worker.
LEMMA HttpdPin ==
  ASSUME PlainTypes, ProbeOrder, PinInv, Httpd PROVE PinInv'
<1>1. flash \in Stores /\ cache \in Stores /\ http \in [step : SetSteps, creds : Keys]
  BY DEF PlainTypes
<1>2. UNCHANGED <<pinning, subscribed, last_found, probe, answer>>
  BY DEF Httpd, SetCredentials, EraseAddress, EraseFails, BeginCopy, EndCopy, ForgetPin,
       SetFrame, appVars
<1>3. CASE SetCredentials
  BY <1>1, <1>3 DEF SetCredentials, Stores, PinInv, SetOrder, Clean
<1>4. CASE EraseAddress
  <2>1. flash'.pin = None /\ flash'.creds = flash.creds /\ http'.step = "copy"
        /\ http'.creds = http.creds /\ mixed' = ProbeUnderWay
    BY <1>1, <1>4 DEF EraseAddress, Stores
  <2>2. ProbeUnderWay' <=> ProbeUnderWay
    BY <1>2 DEF ProbeUnderWay
  <2> QED BY <1>4, <2>1, <2>2 DEF EraseAddress, PinInv, SetOrder, Clean
<1>5. CASE EraseFails
  <2>1. mixed' /\ http'.step = "idle"
    BY <1>1, <1>5 DEF EraseFails, history, PinInv, SetOrder
  <2> QED BY <2>1 DEF PinInv, SetOrder, Clean
<1>6. CASE BeginCopy \/ EndCopy
  <2>1. /\ UNCHANGED <<flash, mixed>> /\ http'.creds = http.creds
        /\ http.step # "idle" /\ http'.step \in {"copying", "forget"}
        /\ http'.step = "forget" => cache'.creds = http.creds
    BY <1>1, <1>6 DEF BeginCopy, EndCopy, history, Stores
  <2>2. ProbeUnderWay' <=> ProbeUnderWay
    BY <1>2 DEF ProbeUnderWay
  <2> QED BY <2>1, <2>2 DEF PinInv, SetOrder, Clean
<1>7. CASE ForgetPin
  <2>1. /\ UNCHANGED <<flash, mixed>> /\ http.step = "forget" /\ http'.step = "idle"
        /\ cache'.pin = None /\ cache'.creds = cache.creds
    BY <1>1, <1>7 DEF ForgetPin, history, Stores
  <2>2. ~mixed => /\ probe = "none" /\ pinning = "idle" /\ flash.pin = None
                  /\ cache.creds = flash.creds
    BY <2>1 DEF PinInv, Clean, ProbeUnderWay
  <2>3. ~mixed' => Settled'
    BY <1>2, <2>1, <2>2 DEF Settled, ProbeOrder
  <2> QED BY <2>1, <2>3 DEF PinInv, SetOrder, Clean
<1> QED BY <1>3, <1>4, <1>5, <1>6, <1>7 DEF Httpd

\* The app task.
LEMMA AppPin ==
  ASSUME PlainTypes, ProbeOrder, PinInv, AppTask PROVE PinInv'
<1>1. flash \in Stores /\ cache \in Stores
  BY DEF PlainTypes
<1>2. UNCHANGED http /\ (UNCHANGED mixed \/ mixed' = (mixed \/ http.step # "idle"))
  BY DEF AppTask, PollSubscribed, PollConnectionFailed, MaybeStartIdentityProbe, ProbeRejected,
       ProbeAccepted, StorePin, StorePinFails, CachePin, FilterPin, AppFrame
<1>3. flash'.creds = flash.creds /\ cache'.creds = cache.creds
  BY <1>1 DEF AppTask, PollSubscribed, PollConnectionFailed, MaybeStartIdentityProbe,
       ProbeRejected, ProbeAccepted, StorePin, StorePinFails, CachePin, FilterPin, Stores
<1>4. SetOrder'
  <2>1. http.step = "erase" => mixed /\ mixed'
    BY <1>2 DEF PinInv, SetOrder
  <2> QED BY <1>2, <1>3, <2>1 DEF PinInv, SetOrder
<1>5. ASSUME ~mixed' PROVE ~mixed
  BY <1>2, <1>5
<1>6. ASSUME ~mixed', http.step # "idle"
      PROVE  ~ProbeUnderWay' /\ UNCHANGED <<flash, cache>>
  <2>1. probe = "none" /\ pinning = "idle" /\ answer = "none"
    BY <1>5, <1>6 DEF PinInv, Clean, ProbeUnderWay, ProbeOrder
  <2>2. ~MaybeStartIdentityProbe
    BY <1>6 DEF MaybeStartIdentityProbe
  <2> QED BY <2>1, <2>2 DEF AppTask, PollSubscribed, PollConnectionFailed, ProbeRejected,
           ProbeAccepted, StorePin, StorePinFails, CachePin, FilterPin, ProbeUnderWay
<1>7. ASSUME ~mixed', http.step = "idle"
      PROVE  Settled' /\ flash'.pin \in {None, flash.creds}
  <2>1. Settled /\ flash.pin \in {None, flash.creds}
    BY <1>5, <1>7 DEF PinInv, Clean
  <2>2. CASE PollSubscribed
    <3>1. UNCHANGED <<flash, cache, pinning, probe, answer>> /\ pinning = "idle"
          /\ answer = "none"
      BY <2>2 DEF PollSubscribed, ProbeOrder, PlainTypes
    <3> QED BY <2>1, <3>1 DEF Settled
  <2>3. CASE PollConnectionFailed \/ MaybeStartIdentityProbe \/ ProbeRejected
    BY <2>1, <2>3 DEF PollConnectionFailed, MaybeStartIdentityProbe, ProbeRejected, Settled
  <2>4. CASE ProbeAccepted
    BY <2>1, <2>4 DEF ProbeAccepted, Settled
  <2>5. CASE StorePin
    <3>1. flash'.pin = last_found
      BY <1>1, <2>5 DEF StorePin, Stores
    <3> QED BY <1>3, <2>1, <2>5, <3>1 DEF StorePin, Settled
  <2>6. CASE StorePinFails
    BY <2>1, <2>6 DEF StorePinFails, Settled
  <2>7. CASE CachePin
    <3>1. cache'.pin = last_found
      BY <1>1, <2>7 DEF CachePin, Stores
    <3> QED BY <1>3, <2>1, <2>7, <3>1 DEF CachePin, Settled
  <2>8. CASE FilterPin
    BY <2>1, <2>8 DEF FilterPin, Settled
  <2> QED BY <2>2, <2>3, <2>4, <2>5, <2>6, <2>7, <2>8 DEF AppTask
<1>8. Clean'
  <2> SUFFICES ASSUME ~mixed' PROVE Clean'
    BY DEF Clean
  <2>1. ~mixed
    BY <1>5
  <2>2. CASE http.step = "idle"
    BY <1>2, <1>3, <1>7, <2>2 DEF Clean
  <2>3. CASE http.step # "idle"
    <3>1. ~ProbeUnderWay' /\ UNCHANGED <<flash, cache>>
      BY <1>6, <2>3
    <3> QED BY <1>2, <2>1, <2>3, <3>1 DEF PinInv, Clean
  <2> QED BY <2>2, <2>3
<1> QED BY <1>4, <1>8 DEF PinInv

\* A reboot loads what is in flash.
LEMMA RebootPin ==
  ASSUME PlainTypes, PinInv, Reboot PROVE PinInv'
<1>1. /\ UNCHANGED <<flash, mixed>> /\ cache' = Loaded(flash)
      /\ http'.step = "idle" /\ pinning' = "idle" /\ probe' = "none" /\ answer' = "none"
  BY DEF Reboot
<1>2. flash.pin \in {None, flash.creds} => Loaded(flash) = flash
  <2>1. flash = [creds |-> flash.creds, pin |-> flash.pin]
    BY DEF PlainTypes, Stores
  <2> QED BY <2>1 DEF Loaded
<1>3. ~mixed' => Settled'
  BY <1>1, <1>2 DEF PinInv, Clean, Settled
<1> QED BY <1>1, <1>3 DEF PinInv, SetOrder, Clean

\* Every step keeps the pin to the credentials.
LEMMA PinStep ==
  PlainTypes /\ ProbeOrder /\ PinInv /\ [Next]_vars => PinInv'
<1> SUFFICES ASSUME PlainTypes, ProbeOrder, PinInv, [Next]_vars PROVE PinInv'
  OBVIOUS
<1>1. CASE Httpd
  BY <1>1, HttpdPin
<1>2. CASE AppTask
  BY <1>2, AppPin
<1>3. CASE Host
  BY <1>3 DEF Host, ApplyFilter, RejectPeer, ConnectPeer, LinkLost, HostFrame, storeVars,
       appVars, history, PinInv, SetOrder, Clean, Settled, ProbeUnderWay
<1>4. CASE Answer
  <2>1. /\ UNCHANGED <<storeVars, pinning, last_found, probe, mixed>> /\ pinning = "idle"
        /\ answer' = "accepted" => probe = last_found /\ probe # "none"
    BY <1>4 DEF Answer, ProbeOrder, history
  <2>2. Settled => Settled'
    BY <2>1 DEF Settled, storeVars
  <2> QED BY <2>1, <2>2 DEF storeVars, PinInv, SetOrder, Clean, ProbeUnderWay
<1>5. CASE Reboot
  BY <1>5, RebootPin
<1>6. CASE UNCHANGED vars
  BY <1>6 DEF vars, storeVars, appVars, history, PinInv, SetOrder, Clean, Settled, ProbeUnderWay
<1> QED BY <1>1, <1>2, <1>3, <1>4, <1>5, <1>6 DEF Next

--------------------------------------------------------------------------------
(* The theorems                                                             *)

IdentityInv == PlainTypes /\ ListType /\ ProbeOrder /\ FilterFollows /\ PinInv

LEMMA IdentityInvInit == Init => IdentityInv
<1> SUFFICES ASSUME Init PROVE IdentityInv
  OBVIOUS
<1>1. flash \in Stores /\ flash.pin \in {None, flash.creds} /\ cache = Loaded(flash)
  BY DEF Init
<1>2. Loaded(flash) = flash
  <2>1. flash = [creds |-> flash.creds, pin |-> flash.pin]
    BY <1>1 DEF Stores
  <2> QED BY <1>1, <2>1 DEF Loaded
<1>3. PlainTypes
  <2>1. command \in [kind : {"set", "reject", "empty"}, address : Keys]
    BY <1>1, LoadedType DEF Init
  <2>2. provisions \in 0 .. MaxProvisions /\ mishaps \in 0 .. MaxMishaps
    BY IdentityAssumption DEF Init
  <2>3. http \in [step : SetSteps, creds : Keys] /\ pinning \in PinSteps /\ None \in Keys
    BY DEF Init, SetSteps, PinSteps, Keys
  <2> QED BY <1>1, <1>2, <2>1, <2>2, <2>3 DEF Init, PlainTypes
<1>4. ListType
  <2>1. <<>> \in Seq(Appliances) /\ Len(<<>>) = 0 /\ IsInjective(<<>>)
    BY DEF IsInjective
  <2> QED BY <2>1, IdentityAssumption DEF Init, ListType
<1>5. ProbeOrder
  BY DEF Init, ProbeOrder
<1>6. FilterFollows
  <2>1. cache.pin # None => command.kind = "set" /\ command.address = cache.pin
    BY DEF Init, BootCommand
  <2> QED BY <2>1 DEF Init, FilterFollows
<1>7. PinInv
  BY <1>1, <1>2 DEF Init, PinInv, SetOrder, Clean, Settled
<1> QED BY <1>3, <1>4, <1>5, <1>6, <1>7 DEF IdentityInv

LEMMA IdentityInvStep == IdentityInv /\ [Next]_vars => IdentityInv'
  BY PlainTypeStep, ListStep, ProbeOrderStep, FilterStep, PinStep DEF IdentityInv

\* The inductive invariant.
LEMMA IdentityInvariant == Spec => []IdentityInv
  BY IdentityInvInit, IdentityInvStep, PTL DEF Spec

\* Every variable has its type; the reject list never exceeds its capacity and
\* holds nobody twice, however many appliances are tried.  (RememberRejectedAddress.)
THEOREM TypeCorrect == Spec => []TypeOK
<1>1. IdentityInv => TypeOK
  BY DEF IdentityInv, PlainTypes, ListType, TypeOK
<1> QED BY <1>1, IdentityInvariant, PTL

\* Between two operations the dial uses what a reboot would load and is pinned by
\* the credentials in use, wherever power, flash or the link fails.  (Set against
\* ProcessIdentityProbeOutcome.)
THEOREM PinFollowsCredentials == Spec => []PinMatchesCredentials
<1>1. IdentityInv => PinMatchesCredentials
  <2> SUFFICES ASSUME IdentityInv, ~mixed, http.step = "idle", pinning = "idle"
               PROVE  cache = flash /\ cache.pin \in {None, cache.creds}
    BY DEF PinMatchesCredentials
  <2>1. cache.creds = flash.creds /\ cache.pin = flash.pin /\ flash.pin \in {None, flash.creds}
    BY DEF IdentityInv, PinInv, Clean, Settled
  <2>2. /\ flash = [creds |-> flash.creds, pin |-> flash.pin]
        /\ cache = [creds |-> cache.creds, pin |-> cache.pin]
    BY DEF IdentityInv, PlainTypes, Stores
  <2> QED BY <2>1, <2>2
<1> QED BY <1>1, IdentityInvariant, PTL

\* A pinned dial connects to its appliance only: the filter's command is never
\* overwritten in its slot by a rejection.  (SetAddressFilter.)
THEOREM PinnedConnectsToItsOwn == Spec => ConnectsOnlyToPinned
<1>1. IdentityInv /\ [Next]_vars
        => [link' # link /\ link' # None /\ pinning = "idle" => cache.pin \in {None, link'}]_vars
  <2> SUFFICES ASSUME IdentityInv, Next, link' # link, link' # None, pinning = "idle"
               PROVE  cache.pin \in {None, link'}
    OBVIOUS
  <2>1. ConnectPeer
    BY DEF Next, Httpd, SetCredentials, EraseAddress, EraseFails, BeginCopy, EndCopy, ForgetPin,
         SetFrame, AppTask, PollSubscribed, PollConnectionFailed, MaybeStartIdentityProbe,
         ProbeRejected, ProbeAccepted, StorePin, StorePinFails, CachePin, FilterPin, AppFrame,
         Host, ApplyFilter, RejectPeer, LinkLost, Answer, Reboot, hostVars
  <2>2. ~posted /\ Selectable(link')
    BY <2>1 DEF ConnectPeer
  <2> QED BY <2>2 DEF IdentityInv, FilterFollows, Selectable
<1> QED BY <1>1, IdentityInvariant, PTL DEF Spec, ConnectsOnlyToPinned
=============================================================================
