------------------------------ MODULE Requests ------------------------------
(***************************************************************************)
(* The life of a call of the platform (src/src/callbacks.c and rex_notify  *)
(* in src/src/main.c).  A message makes the Paho thread build params, take *)
(* a sequence number, hand a command to the host with processCmd, and only *)
(* then enter the request in instance.requests, from where rex_notify, on  *)
(* a thread of the host, fetches the handler and params of an answer.      *)
(*                                                                         *)
(* Neither the map nor params has a lock.  An insertion is two steps, and a *)
(* look-up between them reads a tree that is being rebalanced: it may miss  *)
(* a request that is in the map.  What may come between two operations may  *)
(* come.                                                                    *)
(*                                                                         *)
(*   "common"  create and leave the Zigbee network (handle_common_service) *)
(*   "permit"  start_permit_join                                           *)
(*   "scene"   create, delete, trigger, enable and disable a scene         *)
(*   "ota"     ota_request, whose answers are reports of progress          *)
(***************************************************************************)
EXTENDS Integers, Sequences, FiniteSets

CONSTANTS
    Calls,             \* the messages that may arrive, each once
    NoCall,            \* no call
    FirstSequence,     \* instance.sequence before these calls
    Earlier,           \* requests of settled calls that the map still holds
    Errors,            \* the codes by which the host reports a failure
    Steps,             \* the steps of an upgrade a host reports
    MaxReports,        \* bound on the reports of one upgrade
    Topics             \* the kinds of call whose answer has an enabled topic

Kinds == {"common", "permit", "scene", "ota"}
Services == {"common", "permit", "scene"}

ERR_INVALID_ARGUMENT == 22

ASSUME RequestsAssumption ==
    /\ NoCall \notin Calls
    /\ FirstSequence \in Nat \ {0} /\ Earlier \in Nat
    /\ Errors \subseteq Int \ {0}
    /\ Steps \subseteq Int
    /\ MaxReports \in Nat \ {0}
    /\ Topics \subseteq Kinds

VARIABLES
    sequence,          \* instance.sequence
    requests,          \* instance.requests: sequence -> call
    kind,              \* of each call; "none" before its message arrived
    destroyed,         \* how often map_any_destroy_ex was called on its params
    at, call, number,  \* the Paho thread: where it is, with which call, and
                       \* the sequence of its command
    answering, code,   \* rex_notify: the request it found, and the answer
    commands,          \* the host: the commands it accepted and has not
                       \* answered for good, sequence -> call that made them
    refused,           \* history: calls whose command processCmd refused
    reported,          \* history: the answers the host gave to each call
    heard,             \* history: those of them that found a request
    told               \* history: the codes published for each call

thread == <<at, call, number>>
notify == <<answering, code>>
history == <<refused, reported, heard>>
vars == <<sequence, requests, kind, destroyed, thread, notify, commands,
          history, told>>

Codes == Errors \cup {0} \cup Steps

TypeOK ==
    /\ sequence \in Nat \ {0}
    /\ DOMAIN requests \subseteq Nat \ {0}
    /\ \A s \in DOMAIN requests : requests[s] \in Calls
    /\ kind \in [Calls -> Kinds \cup {"none"}]
    /\ destroyed \in [Calls -> Nat]
    /\ at \in {"idle", "send", "enter", "insert"}
    /\ call \in Calls \cup {NoCall}
    /\ number \in Nat
    /\ answering \in Calls \cup {NoCall}
    /\ code \in Codes
    /\ DOMAIN commands \subseteq Nat \ {0}
    /\ \A s \in DOMAIN commands : commands[s] \in Calls
    /\ refused \in SUBSET Calls
    /\ reported \in [Calls -> Seq(Codes)]
    /\ heard \in [Calls -> Seq(Codes)]
    /\ told \in [Calls -> Seq(Int)]

(* instance_init, or the state some settled calls have left. *)
Init ==
    /\ sequence = FirstSequence
    /\ requests = <<>>
    /\ kind = [c \in Calls |-> "none"]
    /\ destroyed = [c \in Calls |-> 0]
    /\ at = "idle" /\ call = NoCall /\ number = 0
    /\ answering = NoCall /\ code = 0
    /\ commands = <<>>
    /\ refused = {}
    /\ reported = [c \in Calls |-> <<>>]
    /\ heard = [c \in Calls |-> <<>>]
    /\ told = [c \in Calls |-> <<>>]

(* map_request_insert: a new entry, or another value for an old one. *)
With(map, s, c) ==
    [k \in DOMAIN map \cup {s} |-> IF k = s THEN c ELSE map[k]]

Without(map, s) == [k \in DOMAIN map \ {s} |-> map[k]]

(* handle_service_reply adds 3000 to the code of a failure. *)
ReplyCode(x) == IF x = 0 THEN 0 ELSE x + 3000

(* common_mqtt_publish, if the configuration of that kind asks for it. *)
Publish(c, k, x) ==
    told' = IF k \in Topics THEN [told EXCEPT ![c] = Append(@, x)] ELSE told

(* map_any_destroy_ex, n times. *)
Destroy(c, n) == destroyed' = [destroyed EXCEPT ![c] = @ + n]

-----------------------------------------------------------------------------
(* The Paho thread.                                                         *)

(* Mutant: get_sequence reads the counter and does not advance it. *)
get_sequence_stuck == sequence' = sequence /\ number' = sequence

(* get_sequence. *)
get_sequence == sequence' = sequence + 1 /\ number' = sequence

(* A message arrives and its handler gets as far as processCmd. *)
Arrive(c, k) ==
    /\ at = "idle"
    /\ kind[c] = "none"
    /\ kind' = [kind EXCEPT ![c] = k]
    /\ at' = "send"
    /\ call' = c
    /\ get_sequence
    /\ UNCHANGED <<requests, destroyed, notify, commands, history, told>>

(* A message about a scene that lacks an argument is answered at once.      *)
ArriveInvalid(c) ==
    /\ at = "idle"
    /\ kind[c] = "none"
    /\ kind' = [kind EXCEPT ![c] = "scene"]
    /\ Publish(c, "scene", ReplyCode(ERR_INVALID_ARGUMENT))
    /\ Destroy(c, 1)
    /\ UNCHANGED <<sequence, requests, thread, notify, commands, history>>

(* A request to upgrade without an address is dropped, with its params.     *)
ArriveWithoutURL(c) ==
    /\ at = "idle"
    /\ kind[c] = "none"
    /\ kind' = [kind EXCEPT ![c] = "ota"]
    /\ UNCHANGED <<sequence, requests, destroyed, thread, notify, commands,
                   history, told>>

(* processCmd takes the command; from now on the host may answer it.        *)
Accepted ==
    /\ at = "send"
    /\ commands' = With(commands, number, call)
    /\ at' = "enter"
    /\ UNCHANGED <<sequence, requests, kind, destroyed, call, number, notify,
                   history, told>>

(* processCmd refuses the command.  "common": handle_service_reply finds no *)
(* _CONFIG, publishes nothing and destroys params, which the caller of      *)
(* handle_common_service destroys again.  "permit": handle_service_reply    *)
(* gets NULL for params and does nothing.  "scene": the failure is          *)
(* published.  "ota": progress -1 is published.                             *)
Refused ==
    /\ at = "send"
    /\ refused' = refused \cup {call}
    /\ at' = "idle"
    /\ call' = NoCall
    /\ number' = 0
    /\ \/ kind[call] = "common" /\ Destroy(call, 2) /\ UNCHANGED told
       \/ kind[call] = "permit" /\ UNCHANGED <<destroyed, told>>
       \/ /\ kind[call] = "scene"
          /\ Publish(call, "scene", ReplyCode(ERR_INVALID_ARGUMENT))
          /\ Destroy(call, 1)
       \/ kind[call] = "ota" /\ Publish(call, "ota", -1) /\ Destroy(call, 1)
    /\ UNCHANGED <<sequence, requests, kind, notify, commands, reported,
                   heard>>

(* map_request_insert starts to link the request and to rebalance ... *)
Enter ==
    /\ at = "enter"
    /\ at' = "insert"
    /\ UNCHANGED <<sequence, requests, kind, destroyed, call, number, notify,
                   commands, history, told>>

(* Mutant: a handler that does not enter the request of an upgrade. *)
Entered_no_ota ==
    /\ at = "insert"
    /\ requests' = IF kind[call] = "ota" THEN requests
                   ELSE With(requests, number, call)
    /\ at' = "idle"
    /\ call' = NoCall
    /\ number' = 0
    /\ UNCHANGED <<sequence, kind, destroyed, notify, commands, history, told>>

(* ... and has ended, and the handler returns. *)
Entered ==
    /\ at = "insert"
    /\ requests' = With(requests, number, call)
    /\ at' = "idle"
    /\ call' = NoCall
    /\ number' = 0
    /\ UNCHANGED <<sequence, kind, destroyed, notify, commands, history, told>>

-----------------------------------------------------------------------------
(* The thread of the host that calls rex_notify, and the host (external),   *)
(* which answers a service once and reports an upgrade until it ends it.    *)

Terminal(x) == x < 0 \/ x >= 100

Answers(c) == IF kind[c] = "ota" THEN Steps ELSE Errors \cup {0}

(* Has the host done with a command whose call was answered x? *)
Closes(c, x) == kind[c] # "ota" \/ Terminal(x)

(* The host answers the command s with x. *)
HostAnswer(s, x) ==
    /\ answering = NoCall
    /\ s \in DOMAIN commands
    /\ x \in Answers(commands[s])
    /\ Closes(commands[s], x) \/ Len(reported[commands[s]]) + 1 < MaxReports
    /\ reported' = [reported EXCEPT ![commands[s]] = Append(@, x)]
    /\ commands' = IF Closes(commands[s], x) THEN Without(commands, s)
                   ELSE commands

(* An insertion rotates nodes, and hides them from a look-up, once there    *)
(* are two others.                                                          *)
Rebalancing == at = "insert" /\ Cardinality(DOMAIN requests) + Earlier > 1

(* What map_request_find may return for s: the request in the map, that     *)
(* which is being linked, or none.                                          *)
Finds(s, c) ==
    \/ s \in DOMAIN requests /\ c = requests[s]
    \/ at = "insert" /\ s = number /\ c = call

Misses(s) == s \in DOMAIN requests => Rebalancing

(* rex_notify looks the sequence up and has the handler called ... *)
rex_notify(s, x) ==
    /\ HostAnswer(s, x)
    /\ \E c \in Calls : Finds(s, c) /\ answering' = c
    /\ code' = x
    /\ heard' = [heard EXCEPT ![commands[s]] = Append(@, x)]
    /\ UNCHANGED <<sequence, requests, kind, destroyed, thread, refused, told>>

(* ... or finds nothing and only logs. *)
rex_notify_unknown(s, x) ==
    /\ HostAnswer(s, x)
    /\ Misses(s)
    /\ UNCHANGED <<sequence, requests, kind, destroyed, thread, notify,
                   refused, heard, told>>

AnswerDone ==
    /\ answering' = NoCall
    /\ code' = 0
    /\ UNCHANGED <<sequence, requests, kind, thread, commands, history>>

(* Mutant: handle_service_reply returns early for a failure. *)
handle_service_reply_early ==
    /\ answering # NoCall
    /\ kind[answering] \in Services
    /\ Publish(answering, kind[answering], ReplyCode(code))
    /\ IF code = 0 THEN Destroy(answering, 1) ELSE UNCHANGED destroyed
    /\ AnswerDone

(* handle_service_reply publishes and destroys params. *)
handle_service_reply ==
    /\ answering # NoCall
    /\ kind[answering] \in Services
    /\ Publish(answering, kind[answering], ReplyCode(code))
    /\ Destroy(answering, 1)
    /\ AnswerDone

(* Mutant: handle_ota_progress destroys params at every report. *)
handle_ota_progress_eager ==
    /\ answering # NoCall
    /\ kind[answering] = "ota"
    /\ Publish(answering, "ota", code)
    /\ Destroy(answering, 1)
    /\ AnswerDone

(* handle_ota_progress publishes, and destroys params when the upgrade has  *)
(* ended; if ota_progress is disabled it only destroys them.                *)
handle_ota_progress ==
    /\ answering # NoCall
    /\ kind[answering] = "ota"
    /\ Publish(answering, "ota", code)
    /\ IF Terminal(code) \/ "ota" \notin Topics THEN Destroy(answering, 1)
       ELSE UNCHANGED destroyed
    /\ AnswerDone

-----------------------------------------------------------------------------
Paho == Accepted \/ Refused \/ Enter \/ Entered
Notify == handle_service_reply \/ handle_ota_progress
HostAnswers ==
    \E s \in DOMAIN commands, x \in Codes :
        rex_notify(s, x) \/ rex_notify_unknown(s, x)

Next ==
    \/ \E c \in Calls, k \in Kinds : Arrive(c, k)
    \/ \E c \in Calls : ArriveInvalid(c) \/ ArriveWithoutURL(c)
    \/ Paho
    \/ HostAnswers
    \/ Notify

Spec == Init /\ [][Next]_vars

(* processCmd and rex_notify return, and the host answers what it accepted. *)
(* Nothing makes the platform call.                                         *)
Fairness == WF_vars(Paho) /\ WF_vars(Notify) /\ WF_vars(HostAnswers)

FairSpec == Spec /\ Fairness

-----------------------------------------------------------------------------
(* What the platform hears about a call is what the host said about it: the *)
(* published codes are those of the answers to the call's own command that  *)
(* found a request, each once and in order, but for the one rex_notify is   *)
(* handling.  Answers are told apart by their sequence alone, while calls   *)
(* overlap.                                                                 *)
Handled(c) == Len(heard[c]) - IF answering = c THEN 1 ELSE 0

AnswersReachTheirCall ==
    \A c \in Calls : kind[c] \in Topics /\ reported[c] # <<>> =>
        told[c] = [i \in 1..Handled(c) |->
                     IF kind[c] = "ota" THEN heard[c][i]
                     ELSE ReplyCode(heard[c][i])]

(* Calls whose params the code destroys twice: a "common" call that         *)
(* processCmd refused, and an upgrade whose progress is not published.      *)
DestroyedTwice(c) ==
    \/ kind[c] = "common" /\ c \in refused
    \/ kind[c] = "ota" /\ "ota" \notin Topics

(* But for these, params are destroyed once at most, and no answer is       *)
(* handled with params that are gone, though the map of requests keeps a    *)
(* pointer to them for ever.  It takes a host that answers a service once   *)
(* and reports nothing after the end of an upgrade.                         *)
ParamsDestroyedOnce ==
    \A c \in Calls : DestroyedTwice(c) \/
        (destroyed[c] <= 1 /\ (answering = c => destroyed[c] = 0))

(* An answer is lost in two cases only: the Paho thread is between the      *)
(* processCmd of that very command and the end of its map_request_insert,   *)
(* or in the map_request_insert of another call, which rebalances the map   *)
(* of requests while it is being read.                                      *)
InsertInProgress(c) ==
    \/ at \in {"enter", "insert"} /\ call = c
    \/ Rebalancing

AnswersLostInInserts ==
    [][\A c \in Calls :
          reported'[c] # reported[c] /\ heard'[c] = heard[c]
              => InsertInProgress(c)]_vars

(* Calls whose params nobody will ever destroy: processCmd refused a permit *)
(* to join, or an upgrade has no address, or the last answer was lost.      *)
Leaked(c) ==
    \/ kind[c] = "permit" /\ c \in refused
    \/ /\ \A s \in DOMAIN commands : commands[s] # c
       /\ IF reported[c] = <<>>
          THEN kind[c] = "ota" /\ call # c /\ c \notin refused
          ELSE \A i \in DOMAIN heard[c] : ~Closes(c, heard[c][i])

(* Every other call ends with its params destroyed, when the host answers.  *)
CallsSettle ==
    \A c \in Calls : kind[c] # "none" ~> (destroyed[c] > 0 \/ Leaked(c))

=============================================================================
