--------------------------- MODULE ApiServer_proofs ---------------------------
(***************************************************************************)
(* What holds of the HTTP worker.  Of the hand-off with the app task, for  *)
(* any number of requests: types, the order of the states told over HTTP,  *)
(* and, until somebody gives up waiting, that every answer is the answer   *)
(* to the request being served.  Of the settings, for any fields and       *)
(* values, any number of updates and any number of failures: types, that   *)
(* confirmed settings hold, and that a restart keeps them; and that the    *)
(* whole worker, with its commands and restarts, keeps to Settings.        *)
(***************************************************************************)
EXTENDS ApiServer, SequenceTheorems, TLAPS

-----------------------------------------------------------------------------
(* The hand-off                                                             *)

\* A request that is being served has a number.
Numbered == serving # "idle" => number \in Requests

TypeInv == TypeOK /\ Numbered

\* A queue of length one that was just filled.
LEMMA Singleton ==
  ASSUME NEW S, NEW x \in S
  PROVE  <<x>> \in Seq(S) /\ Len(<<x>>) = 1 /\ Head(<<x>>) = x /\ <<x>> # <<>>
  OBVIOUS

\* The empty queue.
LEMMA Empty == ASSUME NEW S PROVE <<>> \in Seq(S) /\ Len(<<>>) = 0
  OBVIOUS

\* The front of a queue that is not empty.
LEMMA Front ==
  ASSUME NEW S, NEW queue \in Seq(S), queue # <<>>
  PROVE  Head(queue) \in S
  BY HeadTailProperties

\* Every step preserves the types, and the number of the request being served.
LEMMA TypeStep == TypeInv /\ [Next]_vars => TypeInv'
<1> SUFFICES ASSUME TypeInv, [Next]_vars PROVE TypeInv'
  OBVIOUS
<1> USE HandoffAssumption DEF TypeInv, Numbered, TypeOK, Requests, States, Kinds
<1>1. CASE Accept
  BY <1>1 DEF Accept
<1>2. CASE SendCommand
  <2>1. [number |-> number, kind |-> kind] \in [number : Requests, kind : Kinds]
    BY <1>2 DEF SendCommand
  <2>2. commands' \in Seq([number : Requests, kind : Kinds]) /\ Len(commands') <= 1
    BY <1>2, <2>1, Singleton DEF SendCommand
  <2> QED BY <1>2, <2>2 DEF SendCommand
<1>3. CASE ReceiveResult
  <2>1. Head(results) \in Requests
    BY <1>3, Front DEF ReceiveResult
  <2> QED BY <1>3, <2>1, Empty DEF ReceiveResult
<1>4. CASE ReceiveStatus
  <2>1. Head(snapshots) \in [for : Requests, state : States]
    BY <1>4, Front DEF ReceiveStatus
  <2> QED BY <1>4, <2>1, Empty DEF ReceiveStatus
<1>5. CASE TimeOut
  BY <1>5 DEF TimeOut
<1>6. CASE DialChanges
  BY <1>6 DEF DialChanges, httpVars
<1>7. CASE DrainCommand
  <2>1. Head(commands) \in [number : Requests, kind : Kinds]
    BY <1>7, Front DEF DrainCommand
  <2>2. commands' = <<>> /\ UNCHANGED <<httpVars, dial>>
    BY <1>7 DEF DrainCommand
  <2>3. CASE AnswerStatus
    <3>1. snapshots' \in Seq([for : Requests, state : States]) /\ Len(snapshots') <= 1
      BY <2>1, <2>3, Singleton DEF AnswerStatus
    <3> QED BY <2>2, <2>3, <3>1, Empty DEF AnswerStatus, httpVars
  <2>4. CASE AnswerCommand
    <3>1. results' \in Seq(Requests) /\ Len(results') <= 1
      BY <2>1, <2>4, Singleton DEF AnswerCommand
    <3> QED BY <2>2, <2>4, <3>1, Empty DEF AnswerCommand, httpVars
  <2> QED BY <1>7, <2>3, <2>4 DEF DrainCommand
<1>8. CASE UNCHANGED vars
  BY <1>8 DEF vars, httpVars
<1> QED BY <1>1, <1>2, <1>3, <1>4, <1>5, <1>6, <1>7, <1>8 DEF Next, HttpWork

\* The initial state has the types.
LEMMA TypeInit == Init => TypeInv
<1> SUFFICES ASSUME Init PROVE TypeInv
  OBVIOUS
<1>1. number \in 0 .. MaxRequests /\ told \in States /\ last_known \in States /\ dial \in States
  BY HandoffAssumption DEF Init, States
<1>2. \A S : <<>> \in Seq(S) /\ Len(<<>>) <= 1
  BY Empty
<1>3. /\ commands \in Seq([number : Requests, kind : Kinds]) /\ Len(commands) <= 1
      /\ results \in Seq(Requests) /\ Len(results) <= 1
      /\ snapshots \in Seq([for : Requests, state : States]) /\ Len(snapshots) <= 1
  BY <1>2 DEF Init
<1> QED BY <1>1, <1>3 DEF Init, TypeInv, TypeOK, Numbered, Kinds

\* Every variable of the hand-off keeps its type, whoever gives up when.
THEOREM TypeCorrect == Spec => []TypeOK
<1>2. Spec => []TypeInv
  BY TypeInit, TypeStep, PTL DEF Spec
<1>3. TypeInv => TypeOK
  BY DEF TypeInv
<1> QED BY <1>2, <1>3, PTL

--------------------------------------------------------------------------------
(* States told over HTTP                                                   *)

\* What was told last is no newer than what is remembered (the same, but for a
\* restart); a snapshot still in the queue is at least as new as that, and none is
\* newer than the dial.
ToldInOrder ==
  /\ told <= last_known /\ last_known <= dial
  /\ snapshots # <<>> =>
       last_known <= Head(snapshots).state /\ Head(snapshots).state <= dial

\* Every step preserves that order, and no step tells an older state.
LEMMA OrderStep ==
  TypeInv /\ ToldInOrder /\ [Next]_vars => ToldInOrder' /\ told' >= told
<1> SUFFICES ASSUME TypeInv, ToldInOrder, [Next]_vars
             PROVE  ToldInOrder' /\ told' >= told
  OBVIOUS
<1>0. told \in Int /\ last_known \in Int /\ dial \in Int
  BY HandoffAssumption DEF TypeInv, TypeOK, States
<1>1. snapshots # <<>> => Head(snapshots).state \in Int
  <2>1. snapshots \in Seq([for : Requests, state : States])
    BY DEF TypeInv, TypeOK
  <2>2. snapshots # <<>> => Head(snapshots) \in [for : Requests, state : States]
    BY <2>1, Front
  <2> QED BY <2>2, HandoffAssumption DEF States
<1> USE <1>0, <1>1 DEF ToldInOrder
<1>2. CASE Accept \/ SendCommand \/ ReceiveResult
  BY <1>2 DEF Accept, SendCommand, ReceiveResult
<1>3. CASE ReceiveStatus
  BY <1>3 DEF ReceiveStatus
<1>4. CASE TimeOut
  BY <1>4 DEF TimeOut
<1>5. CASE DialChanges
  BY <1>5 DEF DialChanges, httpVars
<1>6. CASE DrainCommand
  <2>1. UNCHANGED <<told, last_known, dial>>
    BY <1>6 DEF DrainCommand, httpVars
  <2>2. CASE AnswerStatus
    <3> DEFINE new == [for |-> Head(commands).number, state |-> dial]
    <3>1. snapshots' = <<new>>
      BY <2>2 DEF AnswerStatus
    <3>2. Head(snapshots') = new
      BY <3>1, Singleton
    <3>3. Head(snapshots').state = dial
      BY <3>2
    <3> QED BY <2>1, <3>3
  <2>3. CASE AnswerCommand
    BY <2>1, <2>3 DEF AnswerCommand
  <2> QED BY <1>6, <2>2, <2>3 DEF DrainCommand
<1>7. CASE UNCHANGED vars
  BY <1>7 DEF vars, httpVars
<1> QED BY <1>2, <1>3, <1>4, <1>5, <1>6, <1>7 DEF Next, HttpWork

\* Successive status answers never go back in time, timeouts included.
THEOREM StatusInOrder == Spec => StatusNeverGoesBack
<1>1. Init => TypeInv /\ ToldInOrder
  BY HandoffAssumption, TypeInit DEF Init, ToldInOrder
<1>2. TypeInv /\ ToldInOrder /\ [Next]_vars => (TypeInv /\ ToldInOrder)'
  BY TypeStep, OrderStep
<1>3. TypeInv /\ ToldInOrder /\ [Next]_vars => [told' >= told]_vars
  BY OrderStep
<1> QED BY <1>1, <1>2, <1>3, PTL DEF Spec, StatusNeverGoesBack

--------------------------------------------------------------------------------
(* Answers when nobody gives up                                            *)

\* Until somebody gives up, where the one request being served is: nowhere yet, in
\* the command queue, or answered in the queue its sender listens to.
InTransit ==
  ~gave_up =>
    /\ serving # "receiving" => commands = <<>> /\ results = <<>> /\ snapshots = <<>>
    /\ serving = "receiving" =>
         \/ /\ Len(commands) = 1 /\ results = <<>> /\ snapshots = <<>>
            /\ Head(commands).number = number /\ Head(commands).kind = kind
         \/ /\ commands = <<>> /\ Len(results) = 1 /\ snapshots = <<>>
            /\ Head(results) = number /\ kind = "command"
         \/ /\ commands = <<>> /\ results = <<>> /\ Len(snapshots) = 1
            /\ Head(snapshots).for = number /\ kind = "status"
    /\ AnswersItsRequest

\* Every step keeps the request in exactly one place.
LEMMA TransitStep == TypeInv /\ InTransit /\ [Next]_vars => InTransit'
<1> SUFFICES ASSUME TypeInv, InTransit, [Next]_vars PROVE InTransit'
  OBVIOUS
<1> USE DEF InTransit, AnswersItsRequest
<1>1. CASE Accept
  BY <1>1 DEF Accept
<1>2. CASE SendCommand
  <2> DEFINE sent == [number |-> number, kind |-> kind]
  <2>1. commands' = <<sent>> /\ UNCHANGED <<number, kind, results, snapshots, answer, gave_up>>
        /\ serving' = "receiving" /\ serving = "sending"
    BY <1>2 DEF SendCommand
  <2>2. Len(commands') = 1 /\ Head(commands') = sent
    BY <2>1, Singleton
  <2>3. Head(commands').number = number /\ Head(commands').kind = kind
    BY <2>2
  <2> QED BY <2>1, <2>2, <2>3
<1>3. CASE ReceiveResult
  BY <1>3, Empty DEF ReceiveResult
<1>4. CASE ReceiveStatus
  BY <1>4, Empty DEF ReceiveStatus
<1>5. CASE TimeOut
  BY <1>5 DEF TimeOut
<1>6. CASE DialChanges
  BY <1>6 DEF DialChanges, httpVars
<1>7. CASE DrainCommand
  <2> SUFFICES ASSUME ~gave_up' PROVE InTransit'
    OBVIOUS
  <2>1. /\ commands # <<>> /\ commands' = <<>> /\ ~gave_up
        /\ UNCHANGED <<serving, kind, number, answer>>
    BY <1>7 DEF DrainCommand, httpVars
  <2>2. /\ serving = "receiving" /\ results = <<>> /\ snapshots = <<>>
        /\ Head(commands).number = number /\ Head(commands).kind = kind
    BY <2>1
  <2>3. CASE AnswerStatus
    <3> DEFINE new == [for |-> Head(commands).number, state |-> dial]
    <3>1. snapshots' = <<new>> /\ results' = results /\ kind = "status"
      BY <2>2, <2>3 DEF AnswerStatus
    <3>2. Len(snapshots') = 1 /\ Head(snapshots') = new
      BY <3>1, Singleton
    <3>3. Head(snapshots').for = number
      BY <2>2, <3>2
    <3> QED BY <2>1, <2>2, <3>1, <3>2, <3>3
  <2>4. CASE AnswerCommand
    <3>1. results' = <<number>> /\ snapshots' = snapshots /\ kind = "command"
      BY <2>2, <2>4 DEF AnswerCommand
    <3>2. Len(results') = 1 /\ Head(results') = number
      BY <3>1, Singleton
    <3> QED BY <2>1, <2>2, <3>1, <3>2
  <2> QED BY <1>7, <2>3, <2>4 DEF DrainCommand
<1>8. CASE UNCHANGED vars
  BY <1>8 DEF vars, httpVars
<1> QED BY <1>1, <1>2, <1>3, <1>4, <1>5, <1>6, <1>7, <1>8 DEF Next, HttpWork

\* One entry in one of three queues is one entry in all.
LEMMA OneOfThree ==
  ASSUME NEW a, NEW b, NEW c,
         \/ a = 1 /\ b = 0 /\ c = 0
         \/ a = 0 /\ b = 1 /\ c = 0
         \/ a = 0 /\ b = 0 /\ c = 1
  PROVE  a + b + c <= 1
  OBVIOUS

\* A request in exactly one place is answered by nobody else's answer.
LEMMA TransitTells == TypeInv /\ InTransit => PromptAnswers /\ OneInFlight
<1> SUFFICES ASSUME TypeInv, InTransit PROVE PromptAnswers /\ OneInFlight
  OBVIOUS
<1>1. PromptAnswers
  BY DEF InTransit, PromptAnswers
<1>2. CASE gave_up
  BY <1>1, <1>2 DEF OneInFlight
<1>3. CASE ~gave_up /\ serving # "receiving"
  BY <1>1, <1>3, Empty DEF InTransit, OneInFlight
<1>4. CASE ~gave_up /\ serving = "receiving"
  <2>1. Len(<<>>) = 0
    BY Empty
  <2>2. \/ Len(commands) = 1 /\ Len(results) = 0 /\ Len(snapshots) = 0
        \/ Len(commands) = 0 /\ Len(results) = 1 /\ Len(snapshots) = 0
        \/ Len(commands) = 0 /\ Len(results) = 0 /\ Len(snapshots) = 1
    BY <1>4, <2>1, Zenon DEF InTransit
  <2>3. Len(commands) + Len(results) + Len(snapshots) <= 1
    BY <2>2, OneOfThree
  <2> QED BY <1>1, <1>4, <2>3, Zenon DEF OneInFlight
<1> QED BY <1>2, <1>3, <1>4

\* Until somebody gives up waiting, an answer is the answer to the request
\* being served and no request leaves anything behind for the next one.
THEOREM AnswersMatch == Spec => [](PromptAnswers /\ OneInFlight)
<1>1. Init => TypeInv /\ InTransit
  BY TypeInit DEF Init, InTransit, AnswersItsRequest
<1>2. TypeInv /\ InTransit /\ [Next]_vars => (TypeInv /\ InTransit)'
  BY TypeStep, TransitStep
<1> QED BY <1>1, <1>2, TransitTells, PTL DEF Spec

--------------------------------------------------------------------------------
(* The hand-off of a dial that restarts                                    *)

\* A step of the worker is a step of the hand-off, a restart, or none of its business.
LEMMA ServerStep == [ServerNext]_serverVars => [Next]_vars \/ Restart
BY DEF ServerNext, AcceptCommand, ServeCommand, AppWork, ServeSettings, Next, serverVars

\* A restart leaves empty queues, no request and a dial newer than any it was.
LEMMA RestartStep ==
  TypeInv /\ Restart =>
    /\ TypeInv' /\ InTransit'
    /\ ToldInOrder => ToldInOrder' /\ told' = told
<1> SUFFICES ASSUME TypeInv, Restart
             PROVE  /\ TypeInv' /\ InTransit'
                    /\ ToldInOrder => ToldInOrder' /\ told' = told
  OBVIOUS
<1>1. /\ serving' = "idle" /\ kind' = "status" /\ answer' = None /\ gave_up' = FALSE
      /\ commands' = <<>> /\ results' = <<>> /\ snapshots' = <<>>
      /\ dial < MaxChanges /\ dial' = dial + 1 /\ last_known' = dial + 1
      /\ number' = number /\ told' = told
  BY DEF Restart
<1>2. dial' \in States /\ last_known' \in States /\ told' \in States
      /\ number' \in 0 .. MaxRequests
  BY <1>1, HandoffAssumption DEF TypeInv, TypeOK, States
<1>3. /\ commands' \in Seq([number : Requests, kind : Kinds]) /\ Len(commands') <= 1
      /\ results' \in Seq(Requests) /\ Len(results') <= 1
      /\ snapshots' \in Seq([for : Requests, state : States]) /\ Len(snapshots') <= 1
  <2>1. \A S : <<>> \in Seq(S) /\ Len(<<>>) <= 1
    BY Empty
  <2> QED BY <1>1, <2>1
<1>4. TypeInv'
  BY <1>1, <1>2, <1>3 DEF TypeInv, TypeOK, Numbered, Kinds
<1>5. InTransit'
  BY <1>1 DEF InTransit, AnswersItsRequest
<1>6. ToldInOrder => ToldInOrder'
  <2>1. dial \in Int /\ last_known \in Int /\ told \in Int
    BY HandoffAssumption DEF TypeInv, TypeOK, States
  <2> QED BY <1>1, <2>1 DEF ToldInOrder
<1> QED BY <1>1, <1>4, <1>5, <1>6

\* Every variable of the hand-off keeps its type across restarts.
THEOREM ServerTypes == ServerSpec => []TypeOK
<1>1. ServerInit => TypeInv
  BY TypeInit DEF ServerInit
<1>2. TypeInv /\ [ServerNext]_serverVars => TypeInv'
  BY ServerStep, TypeStep, RestartStep
<1>3. TypeInv => TypeOK
  BY DEF TypeInv
<1> QED BY <1>1, <1>2, <1>3, PTL DEF ServerSpec

\* Successive status answers never go back in time, timeouts and restarts included.
THEOREM ServerStatusInOrder == ServerSpec => StatusNeverGoesBack
<1>1. ServerInit => TypeInv /\ ToldInOrder
  BY HandoffAssumption, TypeInit DEF ServerInit, Init, ToldInOrder
<1>2. TypeInv /\ ToldInOrder /\ [ServerNext]_serverVars => (TypeInv /\ ToldInOrder)'
  BY ServerStep, TypeStep, OrderStep, RestartStep
<1>3. TypeInv /\ ToldInOrder /\ [ServerNext]_serverVars => [told' >= told]_vars
  <2> SUFFICES ASSUME TypeInv, ToldInOrder, [ServerNext]_serverVars PROVE told' >= told
    OBVIOUS
  <2>1. CASE [Next]_vars
    BY <2>1, OrderStep
  <2>2. CASE Restart
    <3>1. told \in Int
      BY HandoffAssumption DEF TypeInv, TypeOK, States
    <3> QED BY <2>2, <3>1, RestartStep
  <2> QED BY <2>1, <2>2, ServerStep
<1> QED BY <1>1, <1>2, <1>3, PTL DEF ServerSpec, StatusNeverGoesBack

\* Until somebody gives up waiting, an answer is the answer to the request being
\* served and no request leaves anything behind for the next one; a restart, which
\* empties the queues, starts afresh.
THEOREM ServerAnswersMatch == ServerSpec => [](PromptAnswers /\ OneInFlight)
<1>1. ServerInit => TypeInv /\ InTransit
  BY TypeInit DEF ServerInit, Init, InTransit, AnswersItsRequest
<1>2. TypeInv /\ InTransit /\ [ServerNext]_serverVars => (TypeInv /\ InTransit)'
  BY ServerStep, TypeStep, TransitStep, RestartStep
<1> QED BY <1>1, <1>2, TransitTells, PTL DEF ServerSpec

-----------------------------------------------------------------------------
(* The settings                                                             *)

\* While a request is served new_values differs from what is in memory in the
\* request's fields only; once written it is the blob.
UpdateInv ==
  /\ IF update.step = "idle" THEN update.fields = {}
     ELSE \A f \in Fields \ update.fields : update.new[f] = values[f]
  /\ update.step \in {"commit", "publish"} => stored = update.new

\* What a restart would load holds what is confirmed, except in the fields that are
\* doubtful or just being written.
StoredInv ==
  \A f \in Fields \ doubtful :
    update.step \notin {"commit", "publish"} \/ f \notin update.fields
      => Loaded(stored)[f] = acknowledged[f]

\* Until the blob is written memory and flash agree.
AgreeInv ==
  update.step \in {"idle", "set", "write"} /\ ~unsure => values = Loaded(stored)

SettingsInv ==
  /\ SettingsTypeOK /\ UpdateInv /\ StoredInv /\ AgreeInv
  /\ ConfirmedSettingsHold

\* Init's answer is always in range; a valid blob is its own answer.
LEMMA LoadedValid ==
  ASSUME NEW blob
  PROVE  Loaded(blob) \in DialSettings /\ (blob \in DialSettings => Loaded(blob) = blob)
  BY SettingsAssumption DEF Loaded, IsValid, Defaults, DialSettings

\* Between requests the update has its type.
LEMMA NoUpdateType ==
  NoUpdate \in [step : {"idle", "set", "write", "commit", "publish"},
                fields : SUBSET Fields, new : [Fields -> Values \cup {TooLarge}]]
  BY SettingsAssumption DEF NoUpdate, Defaults

\* Every step preserves the types.
LEMMA SettingsTypeStep == SettingsTypeOK /\ [SettingsNext]_settingsVars => SettingsTypeOK'
<1> SUFFICES ASSUME SettingsTypeOK, [SettingsNext]_settingsVars PROVE SettingsTypeOK'
  OBVIOUS
<1> USE SettingsAssumption DEF SettingsTypeOK, DialSettings
<1>1. CASE PostConfig
  <2>1. PICK present \in SUBSET Fields \ {{}} :
          \E request \in [present -> Values \cup {TooLarge}] :
            update' = [step |-> "set", fields |-> present, new |-> Merged(request)]
    BY <1>1 DEF PostConfig
  <2>2. PICK request \in [present -> Values \cup {TooLarge}] :
          update' = [step |-> "set", fields |-> present, new |-> Merged(request)]
    BY <2>1
  <2>3. Merged(request) \in [Fields -> Values \cup {TooLarge}]
    BY DEF Merged
  <2> QED BY <1>1, <2>2, <2>3 DEF PostConfig
<1>2. CASE Validate
  BY NoUpdateType, <1>2 DEF Validate, Refuse, IsValid, NoUpdate
<1>3. CASE SetBlob
  BY <1>3 DEF SetBlob
<1>4. CASE SetBlobFails
  BY NoUpdateType, <1>4 DEF SetBlobFails, FlashFails, Refuse, NoUpdate
<1>5. CASE Commit
  BY <1>5 DEF Commit
<1>6. CASE CommitFails
  BY NoUpdateType, <1>6 DEF CommitFails, FlashFails, Refuse, NoUpdate
<1>7. CASE Publish
  <2>1. update.new \in DialSettings
    BY <1>7 DEF Publish
  <2>2. acknowledged' \in DialSettings
    BY <1>7, <2>1 DEF Publish
  <2> QED BY NoUpdateType, <1>7, <2>1, <2>2 DEF Publish, NoUpdate
<1>8. CASE Boot
  <2>1. stored' \in [Fields -> Values \cup {TooLarge}] \cup {Unreadable}
    BY <1>8 DEF Boot, Remains
  <2>2. values' \in DialSettings
    BY <1>8, LoadedValid DEF Boot, Defaults
  <2> QED BY NoUpdateType, <1>8, <2>1, <2>2 DEF Boot, FlashFails, NoUpdate
<1>9. CASE UNCHANGED settingsVars
  BY <1>9 DEF settingsVars
<1> QED BY <1>1, <1>2, <1>3, <1>4, <1>5, <1>6, <1>7, <1>8, <1>9
        DEF SettingsNext, ServeConfig

\* A request that ends without its 200 leaves the blob and the memory as they are;
\* its fields are doubtful from then on.
LEMMA RefuseStep ==
  ASSUME SettingsInv, Refuse, UNCHANGED <<values, acknowledged>>, stored' = stored,
         unsure' = TRUE \/ (unsure' = unsure /\ update.step \in {"set", "write"})
  PROVE  UpdateInv' /\ StoredInv' /\ AgreeInv' /\ ConfirmedSettingsHold'
<1>1. update'.step = "idle" /\ update'.fields = {} /\ doubtful' = doubtful \cup update.fields
  BY DEF Refuse, NoUpdate
<1>2. UpdateInv'
  BY <1>1 DEF UpdateInv
<1>3. StoredInv'
  BY <1>1 DEF SettingsInv, StoredInv, Loaded, IsValid
<1>4. AgreeInv'
  BY <1>1 DEF SettingsInv, AgreeInv, Loaded, IsValid
<1>5. ConfirmedSettingsHold'
  BY <1>1 DEF SettingsInv, ConfirmedSettingsHold
<1> QED BY <1>2, <1>3, <1>4, <1>5

\* A boot loads what is confirmed, except where the blob is torn or unreadable.
LEMMA BootStep ==
  ASSUME SettingsInv, SettingsTypeOK', Boot
  PROVE  UpdateInv' /\ StoredInv' /\ AgreeInv' /\ ConfirmedSettingsHold'
<1>1. PICK readable \in BOOLEAN :
        /\ values' = IF readable THEN Loaded(stored') ELSE Defaults
        /\ unsure' = ~readable
        /\ doubtful' = IF readable /\ stored' # Unreadable
                       THEN doubtful \cup update.fields ELSE Fields
  BY DEF Boot
<1>2. update'.step = "idle" /\ update'.fields = {} /\ acknowledged' = acknowledged
  BY DEF Boot, NoUpdate
<1>3. UpdateInv' /\ AgreeInv'
  BY <1>1, <1>2 DEF UpdateInv, AgreeInv, Loaded, IsValid
<1>4. ASSUME NEW f \in Fields \ doubtful'
      PROVE  Loaded(stored')[f] = acknowledged[f] /\ values'[f] = Loaded(stored')[f]
  <2>1. readable /\ f \notin doubtful \cup update.fields /\ stored' # Unreadable
    BY <1>1, <1>4
  <2>2. CASE stored' = stored
    BY <1>1, <2>1, <2>2 DEF SettingsInv, StoredInv
  <2>3. CASE update.step = "write" /\ stored' = update.new
    <3>1. update.new \in DialSettings /\ update.new[f] = values[f] /\ values[f] = acknowledged[f]
      BY <2>1, <2>3 DEF SettingsInv, SettingsTypeOK, UpdateInv, ConfirmedSettingsHold
    <3>2. Loaded(stored') = update.new
      BY <2>3, <3>1 DEF Loaded, IsValid
    <3> QED BY <1>1, <2>1, <3>1, <3>2
  <2> QED BY <2>1, <2>2, <2>3 DEF Boot, Remains
<1>5. StoredInv' /\ ConfirmedSettingsHold'
  BY <1>2, <1>4 DEF StoredInv, ConfirmedSettingsHold, Loaded, IsValid
<1> QED BY <1>3, <1>5

\* The invariant is inductive.
LEMMA SettingsStep == SettingsInv /\ [SettingsNext]_settingsVars => SettingsInv'
<1> SUFFICES ASSUME SettingsInv, [SettingsNext]_settingsVars PROVE SettingsInv'
  OBVIOUS
<1>t. SettingsTypeOK'
  BY SettingsTypeStep DEF SettingsInv
<1> SUFFICES UpdateInv' /\ StoredInv' /\ AgreeInv' /\ ConfirmedSettingsHold'
  BY <1>t DEF SettingsInv
<1>1. CASE PostConfig
  <2>1. PICK present \in SUBSET Fields \ {{}} :
          \E request \in [present -> Values \cup {TooLarge}] :
            update' = [step |-> "set", fields |-> present, new |-> Merged(request)]
    BY <1>1 DEF PostConfig
  <2>2. PICK request \in [present -> Values \cup {TooLarge}] :
          update' = [step |-> "set", fields |-> present, new |-> Merged(request)]
    BY <2>1
  <2>3. /\ update.step = "idle" /\ update'.step = "set" /\ update'.fields = present
        /\ UNCHANGED <<stored, values, acknowledged, doubtful, unsure>>
    BY <1>1, <2>2 DEF PostConfig
  <2>4. \A f \in Fields \ present : update'.new[f] = values[f]
    BY <2>2 DEF Merged
  <2>5. StoredInv'
    BY <2>3 DEF SettingsInv, UpdateInv, StoredInv, Loaded, IsValid
  <2>6. UpdateInv' /\ AgreeInv' /\ ConfirmedSettingsHold'
    BY <2>3, <2>4 DEF SettingsInv, UpdateInv, AgreeInv, ConfirmedSettingsHold, Loaded, IsValid
  <2> QED BY <2>5, <2>6
<1>2. CASE Validate
  <2>1. CASE IsValid(update.new)
    <3>1. /\ update'.step = "write" /\ update'.fields = update.fields
          /\ update'.new = update.new /\ update.step = "set"
          /\ UNCHANGED <<stored, values, acknowledged, doubtful, unsure>>
      BY <1>2, <2>1 DEF Validate, SettingsInv, SettingsTypeOK
    <3> QED BY <3>1 DEF SettingsInv, UpdateInv, StoredInv, AgreeInv, ConfirmedSettingsHold,
                        Loaded, IsValid
  <2>2. CASE ~IsValid(update.new)
    <3>1. /\ update.step = "set" /\ update'.step = "idle" /\ update'.fields = {}
          /\ UNCHANGED <<stored, values, acknowledged, doubtful, unsure>>
      BY <1>2, <2>2 DEF Validate, NoUpdate
    <3> QED BY <3>1 DEF SettingsInv, UpdateInv, StoredInv, AgreeInv, ConfirmedSettingsHold,
                        Loaded, IsValid
  <2> QED BY <2>1, <2>2
<1>3. CASE SetBlob
  <2>1. /\ update.step = "write" /\ update'.step = "commit" /\ stored' = update.new
        /\ update'.fields = update.fields /\ update'.new = update.new
        /\ UNCHANGED <<values, acknowledged, doubtful, unsure>>
    BY <1>3 DEF SetBlob, SettingsInv, SettingsTypeOK
  <2>2. update.new \in DialSettings
    BY <2>1 DEF SettingsInv, SettingsTypeOK
  <2>3. StoredInv'
    BY <2>1, <2>2 DEF SettingsInv, UpdateInv, StoredInv, ConfirmedSettingsHold, Loaded, IsValid
  <2> QED BY <2>1, <2>3 DEF SettingsInv, UpdateInv, AgreeInv, ConfirmedSettingsHold
<1>4. CASE SetBlobFails
  BY <1>4, RefuseStep DEF SetBlobFails
<1>5. CASE Commit
  <2>1. /\ update.step = "commit" /\ update'.step = "publish"
        /\ update'.fields = update.fields /\ update'.new = update.new
        /\ UNCHANGED <<stored, values, acknowledged, doubtful, unsure>>
    BY <1>5 DEF Commit, SettingsInv, SettingsTypeOK
  <2> QED BY <2>1 DEF SettingsInv, UpdateInv, StoredInv, AgreeInv, ConfirmedSettingsHold,
                      Loaded, IsValid
<1>6. CASE CommitFails
  BY <1>6, RefuseStep DEF CommitFails
<1>7. CASE Publish
  <2>1. /\ update.step = "publish" /\ update'.step = "idle" /\ update'.fields = {}
        /\ values' = update.new /\ stored' = stored /\ stored = update.new
        /\ doubtful' = doubtful \ update.fields
    BY <1>7 DEF Publish, NoUpdate, SettingsInv, UpdateInv
  <2>2. Loaded(stored') = values'
    BY <2>1 DEF SettingsInv, SettingsTypeOK, Loaded, IsValid
  <2>3. ASSUME NEW f \in Fields \ doubtful' PROVE values'[f] = acknowledged'[f]
    <3>1. CASE f \in update.fields
      BY <1>7, <3>1 DEF Publish
    <3>2. CASE f \notin update.fields
      <4>1. acknowledged'[f] = acknowledged[f]
        BY <1>7, <3>2 DEF Publish
      <4>2. update.new[f] = values[f] /\ values[f] = acknowledged[f]
        BY <2>1, <2>3, <3>2 DEF SettingsInv, UpdateInv, ConfirmedSettingsHold
      <4> QED BY <2>1, <4>1, <4>2
    <3> QED BY <3>1, <3>2
  <2> QED BY <2>1, <2>2, <2>3 DEF UpdateInv, StoredInv, AgreeInv, ConfirmedSettingsHold,
                                  Loaded, IsValid
<1>8. CASE Boot
  BY <1>t, <1>8, BootStep
<1>9. CASE UNCHANGED settingsVars
  BY <1>9 DEF settingsVars, SettingsInv, UpdateInv, StoredInv, AgreeInv,
              ConfirmedSettingsHold, Loaded, IsValid
<1> QED BY <1>1, <1>2, <1>3, <1>4, <1>5, <1>6, <1>7, <1>8, <1>9
        DEF SettingsNext, ServeConfig

\* The first boot establishes it.
LEMMA SettingsStart == SettingsInit => SettingsInv
<1> SUFFICES ASSUME SettingsInit PROVE SettingsInv
  OBVIOUS
<1>1. values \in DialSettings
  BY LoadedValid DEF SettingsInit
<1>2. SettingsTypeOK
  <2>1. update.step = "idle" /\ updates = 0 /\ mishaps = 0
    BY DEF SettingsInit, NoUpdate
  <2>2. updates \in 0 .. MaxUpdates /\ mishaps \in 0 .. MaxMishaps
    BY <2>1, SettingsAssumption
  <2> QED BY <1>1, <2>1, <2>2, NoUpdateType DEF SettingsInit, SettingsTypeOK
<1>3. update.step = "idle" /\ update.fields = {}
  BY DEF SettingsInit, NoUpdate
<1> QED BY <1>2, <1>3 DEF SettingsInit, SettingsInv, UpdateInv, StoredInv, AgreeInv,
                          ConfirmedSettingsHold, Loaded, IsValid

\* Whatever is posted, and however the flash fails, memory and blob are in range,
\* confirmed settings hold and a restart keeps them.
THEOREM SettingsCorrect ==
  SettingsSpec => [](SettingsTypeOK /\ ConfirmedSettingsHold /\ RestartKeepsSettings)
<1>1. SettingsInv => SettingsTypeOK /\ ConfirmedSettingsHold /\ RestartKeepsSettings
  BY DEF SettingsInv, AgreeInv, RestartKeepsSettings
<1> QED BY SettingsStart, SettingsStep, <1>1, PTL DEF SettingsSpec

\* The HTTP worker's commands, its timeouts and the app task touch no setting, and a
\* restart is to the settings a boot: ApiServer implements Settings.
THEOREM ServerImplementsSettings == ServerSpec => SettingsSpec
<1>1. ServerInit => SettingsInit
  BY DEF ServerInit
<1>2. [ServerNext]_serverVars => [SettingsNext]_settingsVars
  BY DEF ServerNext, serverVars, AcceptCommand, ServeCommand, AppWork, ServeSettings,
         Restart, SettingsNext
<1> QED BY <1>1, <1>2, PTL DEF ServerSpec, SettingsSpec

\* Hence the same of the whole server.
THEOREM ServerKeepsSettings == ServerSpec => [](ConfirmedSettingsHold /\ RestartKeepsSettings)
BY ServerImplementsSettings, SettingsCorrect, PTL
=============================================================================
