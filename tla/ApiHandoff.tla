------------------------------ MODULE ApiHandoff ------------------------------
(***************************************************************************)
(* The hand-off between the HTTP task and the app task: App::Status,       *)
(* App::RequestDispense and App::RequestStop on one side, the API block of *)
(* App::Run on the other, and three queues of length one between them.     *)
(* Requests are numbered so that an answer can be told from another; the   *)
(* code's queue entries carry no number.  What a command's verdict says is *)
(* left to DialApp: here it is the number of the request it was given for. *)
(***************************************************************************)
EXTENDS Integers, Sequences

CONSTANTS
  None,
  MaxRequests,     \* how many requests the HTTP task serves
  MaxChanges       \* how often the dial's state changes

ASSUME HandoffAssumption ==
  /\ MaxRequests \in Nat \ {0} /\ MaxChanges \in Nat
  /\ None \notin Int

Requests == 1 .. MaxRequests
States == 0 .. MaxChanges
Kinds == {"command", "status"}

VARIABLES
  serving,        \* the HTTP task: "idle", "sending" or "receiving"
  kind,           \* what the request asks for
  number,         \* how many requests there have been: the current one's number
  answer,         \* the latest HTTP answer: for which request it was meant
  gave_up,        \* history: some request was answered with a timeout
  told,           \* the latest state told over HTTP
  last_known,     \* last_known_status_
  commands,       \* api_command_queue_
  results,        \* api_result_queue_
  snapshots,      \* api_status_queue_
  dial            \* DialController's state: how often it changed so far

httpVars == <<serving, kind, number, answer, gave_up, told, last_known>>
vars == <<httpVars, commands, results, snapshots, dial>>

\* Every variable has its type; no queue holds more than one entry.
TypeOK ==
  /\ serving \in {"idle", "sending", "receiving"}
  /\ kind \in Kinds
  /\ number \in 0 .. MaxRequests
  /\ answer \in Requests \cup {None} /\ gave_up \in BOOLEAN
  /\ told \in States /\ last_known \in States
  /\ commands \in Seq([number : Requests, kind : Kinds]) /\ Len(commands) <= 1
  /\ results \in Seq(Requests) /\ Len(results) <= 1
  /\ snapshots \in Seq([for : Requests, state : States]) /\ Len(snapshots) <= 1
  /\ dial \in States

Init ==
  /\ serving = "idle" /\ kind = "status" /\ number = 0
  /\ answer = None /\ gave_up = FALSE /\ told = 0 /\ last_known = 0
  /\ commands = <<>> /\ results = <<>> /\ snapshots = <<>>
  /\ dial = 0

--------------------------------------------------------------------------------
(* The HTTP task                                                           *)

\* One worker task: a request is answered before the next one is taken.
Accept ==
  /\ serving = "idle" /\ number < MaxRequests
  /\ serving' = "sending" /\ kind' \in Kinds /\ number' = number + 1
  /\ answer' = None
  /\ UNCHANGED <<gave_up, told, last_known, commands, results, snapshots, dial>>

\* xQueueSend, waiting for room in the queue.
SendCommand ==
  /\ serving = "sending" /\ commands = <<>>
  /\ serving' = "receiving"
  /\ commands' = <<[number |-> number, kind |-> kind]>>
  /\ UNCHANGED <<kind, number, answer, gave_up, told, last_known, results, snapshots,
                 dial>>

\* Seeded bug: the result is looked at but not taken from the queue.
ReceiveResultPeeked ==
  /\ serving = "receiving" /\ kind = "command" /\ results # <<>>
  /\ serving' = "idle" /\ answer' = Head(results)
  /\ UNCHANGED <<kind, number, gave_up, told, last_known, commands, results, snapshots,
                 dial>>

ReceiveResult ==
  /\ serving = "receiving" /\ kind = "command" /\ results # <<>>
  /\ serving' = "idle" /\ answer' = Head(results) /\ results' = <<>>
  /\ UNCHANGED <<kind, number, gave_up, told, last_known, commands, snapshots, dial>>

\* Seeded bug: the snapshot is not remembered for the next timeout.
ReceiveStatusForgotten ==
  /\ serving = "receiving" /\ kind = "status" /\ snapshots # <<>>
  /\ serving' = "idle" /\ snapshots' = <<>>
  /\ answer' = Head(snapshots).for /\ told' = Head(snapshots).state
  /\ UNCHANGED <<kind, number, gave_up, last_known, commands, results, dial>>

ReceiveStatus ==
  /\ serving = "receiving" /\ kind = "status" /\ snapshots # <<>>
  /\ serving' = "idle" /\ snapshots' = <<>>
  /\ answer' = Head(snapshots).for /\ told' = Head(snapshots).state
  /\ last_known' = Head(snapshots).state
  /\ UNCHANGED <<kind, number, gave_up, commands, results, dial>>

\* What the HTTP task waits for has not come.
Waiting ==
  \/ serving = "sending" /\ commands # <<>>
  \/ serving = "receiving" /\ kind = "command" /\ results = <<>>
  \/ serving = "receiving" /\ kind = "status" /\ snapshots = <<>>

\* Seeded bug: the wait for room in the queue is not bounded.
MayGiveUpReceiving == Waiting /\ serving = "receiving"

\* It has not come for longer than kApiQueueTimeout.
MayGiveUp == Waiting

\* kTimeout for a command, the last known snapshot for a status.
TimeOut ==
  /\ MayGiveUp
  /\ serving' = "idle" /\ answer' = None /\ gave_up' = TRUE
  /\ told' = IF kind = "status" THEN last_known ELSE told
  /\ UNCHANGED <<kind, number, last_known, commands, results, snapshots, dial>>

--------------------------------------------------------------------------------
(* The app task                                                            *)

\* Everything App::Run does to the dial, accepted commands included.
DialChanges ==
  /\ dial < MaxChanges /\ dial' = dial + 1
  /\ UNCHANGED <<httpVars, commands, results, snapshots>>

AnswerStatus ==
  /\ Head(commands).kind = "status"
  /\ snapshots' = <<[for |-> Head(commands).number, state |-> dial]>>
  /\ UNCHANGED results

\* Seeded bug: a result nobody fetched stays in front of the new one.
AnswerCommandQueued ==
  /\ Head(commands).kind = "command"
  /\ results' = Append(results, Head(commands).number)
  /\ UNCHANGED snapshots

\* xQueueOverwrite replaces a result nobody fetched.
AnswerCommand ==
  /\ Head(commands).kind = "command"
  /\ results' = <<Head(commands).number>>
  /\ UNCHANGED snapshots

\* At most one API command per pass of the loop.
DrainCommand ==
  /\ commands # <<>>
  /\ AnswerStatus \/ AnswerCommand
  /\ commands' = <<>>
  /\ UNCHANGED <<httpVars, dial>>

--------------------------------------------------------------------------------
HttpWork == SendCommand \/ ReceiveResult \/ ReceiveStatus \/ TimeOut

Next == Accept \/ HttpWork \/ DialChanges \/ DrainCommand

Spec == Init /\ [][Next]_vars

\* The HTTP task keeps running, the app task need not.
HttpFairSpec == Spec /\ WF_vars(HttpWork)

--------------------------------------------------------------------------------
\* The answer to an HTTP request is the answer to that request, not to an
\* earlier one (app.cpp: the caller "is always waiting by the time this runs").
\* After a time-out this fails: the late verdict answers the next request.
AnswersItsRequest == answer \in {number, None}

\* As long as nobody has given up waiting, that is so.
PromptAnswers == ~gave_up => AnswersItsRequest

\* As long as nobody has given up waiting, at most one of the request, its command
\* and its answer is in the three queues, and nothing at all between requests: one
\* request cannot disturb the next (app.hpp: "only one command can ever be in
\* flight through this path").
OneInFlight ==
  ~gave_up =>
    /\ Len(commands) + Len(results) + Len(snapshots) <= 1
    /\ serving # "receiving" => commands = <<>> /\ results = <<>> /\ snapshots = <<>>

\* Successive status answers never go back in time, not even when a timeout
\* makes Status fall back to the last known one (last_known_status_).
StatusNeverGoesBack == [][told' >= told]_vars

\* A request is answered even if the app task has stopped: both waits are
\* bounded (kApiQueueTimeout).
EveryRequestAnswered == serving # "idle" ~> serving = "idle"
================================================================================
