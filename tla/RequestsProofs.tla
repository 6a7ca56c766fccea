--------------------------- MODULE RequestsProofs ---------------------------
(***************************************************************************)
(* Proofs about Requests, for any number of calls: the variables keep      *)
(* their types, params are destroyed once at most and never used           *)
(* afterwards (but for the calls DestroyedTwice names), the platform hears *)
(* the answers of the host, and an answer is lost only while a request is  *)
(* being entered.                                                          *)
(***************************************************************************)
EXTENDS Requests, TLAPS

(* What TypeOK says of the sequences, and the rest of it. *)
Sequential ==
    /\ reported \in [Calls -> Seq(Codes)]
    /\ heard \in [Calls -> Seq(Codes)]
    /\ told \in [Calls -> Seq(Int)]

Types ==
    /\ sequence \in Nat \ {0}
    /\ DOMAIN requests \subseteq Nat \ {0}
    /\ \A s \in DOMAIN requests : requests[s] \in Calls
    /\ kind \in [Calls -> Kinds \cup {"none"}]
    /\ destroyed \in [Calls -> Nat]
    /\ at \in {"idle", "send", "enter", "insert"}
    /\ call \in Calls \cup {NoCall}
    /\ number \in Nat
    /\ answering \in Calls \cup {NoCall}
    /\ code \in Codes
    /\ DOMAIN commands \subseteq Nat \ {0}
    /\ \A s \in DOMAIN commands : commands[s] \in Calls
    /\ refused \in SUBSET Calls

(* The sequence of the call the Paho thread is working on is not in the map *)
(* yet; until the map is being changed nobody answers the call and its      *)
(* params exist.                                                            *)
Handling ==
    at # "idle" =>
        /\ call \in Calls
        /\ number \in Nat \ {0} /\ number < sequence
        /\ kind[call] # "none"
        /\ at # "insert" => destroyed[call] = 0 /\ answering # call
        /\ number \notin DOMAIN requests
        /\ at = "send" => number \notin DOMAIN commands

(* A command the host has not answered for good belongs to the request of   *)
(* the same sequence, or to the call that is about to enter its request.    *)
Matching ==
    \A s \in DOMAIN commands :
        IF s \in DOMAIN requests
        THEN requests[s] = commands[s] /\ (at # "idle" => commands[s] # call)
        ELSE at \in {"enter", "insert"} /\ s = number /\ commands[s] = call

(* Sequences in use are past ones, and no two commands are of one call.     *)
Numbering ==
    /\ \A s \in DOMAIN requests : s < sequence
    /\ \A s \in DOMAIN commands : s < sequence
    /\ \A s, u \in DOMAIN commands : commands[s] = commands[u] => s = u

(* Params of a call that may still be answered exist; when the last answer  *)
(* is being handled the host has no command of that call any more.          *)
Pending ==
    /\ \A s \in DOMAIN commands :
          /\ kind[commands[s]] # "none"
          /\ DestroyedTwice(commands[s]) \/ destroyed[commands[s]] = 0
          /\ commands[s] = answering => ~Closes(answering, code)
    /\ answering # NoCall =>
          /\ kind[answering] # "none"
          /\ DestroyedTwice(answering) \/ destroyed[answering] = 0

Once ==
    \A c \in Calls : /\ kind[c] = "none" => destroyed[c] = 0
                     /\ DestroyedTwice(c) \/ destroyed[c] <= 1

Inv == Types /\ Handling /\ Matching /\ Numbering /\ Pending /\ Once

-----------------------------------------------------------------------------
LEMMA InvInit == Init => Inv
<1> SUFFICES ASSUME Init PROVE Inv
  OBVIOUS
<1>1. DOMAIN requests = {} /\ DOMAIN commands = {}
  BY DEF Init
<1> QED
  BY <1>1, RequestsAssumption
  DEF Init, Inv, Types, Handling, Matching, Numbering, Pending, Once, Codes

(* rex_notify finds the call whose command is answered, which is not one    *)
(* the Paho thread has not begun to enter.                                  *)
LEMMA AnswerFound ==
    ASSUME Inv, NEW s \in DOMAIN commands, NEW x, rex_notify(s, x)
    PROVE  /\ answering' = commands[s] /\ code' = x
           /\ at \in {"send", "enter"} => commands[s] # call
BY DEF rex_notify, Finds, Inv, Handling, Matching

LEMMA InvStep == Inv /\ [Next]_vars => Inv'
<1> SUFFICES ASSUME Inv, [Next]_vars PROVE Inv'
  OBVIOUS
<1> USE DEF thread, notify, history
<1>1. ASSUME NEW c \in Calls, NEW k \in Kinds, Arrive(c, k) PROVE Inv'
  <2>1. Types'
    BY <1>1 DEF Arrive, get_sequence, Inv, Types
  <2>2. Handling'
    <3>1. answering # c
      BY <1>1, RequestsAssumption DEF Arrive, Inv, Pending
    <3>2. sequence \notin DOMAIN requests /\ sequence \notin DOMAIN commands
      BY DEF Inv, Types, Numbering
    <3>3. kind'[c] # "none" /\ destroyed[c] = 0
      BY <1>1 DEF Arrive, Inv, Types, Once, Kinds
    <3>4. sequence \in Nat \ {0} /\ sequence < sequence + 1
      BY DEF Inv, Types
    <3> QED
      BY <1>1, <3>1, <3>2, <3>3, <3>4 DEF Arrive, get_sequence, Handling
  <2>3. Matching'
    BY <1>1 DEF Arrive, Inv, Matching, Pending
  <2>4. Numbering'
    BY <1>1 DEF Arrive, get_sequence, Inv, Types, Numbering
  <2>5. Pending'
    BY <1>1 DEF Arrive, Inv, Pending, DestroyedTwice, Closes
  <2>6. Once'
    BY <1>1 DEF Arrive, Inv, Once, DestroyedTwice
  <2> QED
    BY <2>1, <2>2, <2>3, <2>4, <2>5, <2>6 DEF Inv
<1>2. ASSUME NEW c \in Calls, ArriveInvalid(c) PROVE Inv'
  <2>1. Types'
    BY <1>2 DEF ArriveInvalid, Destroy, Inv, Types, Kinds
  <2>2. Handling'
    BY <1>2 DEF ArriveInvalid, Handling
  <2>3. Matching'
    BY <1>2 DEF ArriveInvalid, Inv, Matching
  <2>4. Numbering'
    BY <1>2 DEF ArriveInvalid, Inv, Numbering
  <2>5. Pending'
    BY <1>2 DEF ArriveInvalid, Destroy, Inv, Pending, DestroyedTwice, Closes
  <2>6. Once'
    BY <1>2 DEF ArriveInvalid, Destroy, Inv, Types, Once, DestroyedTwice
  <2> QED
    BY <2>1, <2>2, <2>3, <2>4, <2>5, <2>6 DEF Inv
<1>3. ASSUME NEW c \in Calls, ArriveWithoutURL(c) PROVE Inv'
  <2>1. Types'
    BY <1>3 DEF ArriveWithoutURL, Inv, Types, Kinds
  <2>2. Handling'
    BY <1>3 DEF ArriveWithoutURL, Handling
  <2>3. Matching'
    BY <1>3 DEF ArriveWithoutURL, Inv, Matching
  <2>4. Numbering'
    BY <1>3 DEF ArriveWithoutURL, Inv, Numbering
  <2>5. Pending'
    BY <1>3 DEF ArriveWithoutURL, Inv, Pending, DestroyedTwice, Closes
  <2>6. Once'
    BY <1>3 DEF ArriveWithoutURL, Inv, Once, DestroyedTwice
  <2> QED
    BY <2>1, <2>2, <2>3, <2>4, <2>5, <2>6 DEF Inv
<1>4. ASSUME Accepted PROVE Inv'
  <2>1. Types'
    BY <1>4 DEF Accepted, With, Inv, Types, Handling
  <2>2. Handling'
    BY <1>4 DEF Accepted, Inv, Handling
  <2>3. Matching'
    BY <1>4 DEF Accepted, With, Inv, Handling, Matching
  <2>4. Numbering'
    BY <1>4 DEF Accepted, With, Inv, Handling, Matching, Numbering
  <2>5. Pending'
    BY <1>4 DEF Accepted, With, Inv, Handling, Pending, DestroyedTwice, Closes
  <2>6. Once'
    BY <1>4 DEF Accepted, Inv, Once, DestroyedTwice
  <2> QED
    BY <2>1, <2>2, <2>3, <2>4, <2>5, <2>6 DEF Inv
<1>5. ASSUME Refused PROVE Inv'
  <2>1. Types'
    BY <1>5 DEF Refused, Destroy, Inv, Types, Handling
  <2>2. Handling'
    BY <1>5 DEF Refused, Handling
  <2>3. Matching'
    BY <1>5 DEF Refused, Inv, Matching
  <2>4. Numbering'
    BY <1>5 DEF Refused, Inv, Numbering
  <2>5. Pending'
    BY <1>5
    DEF Refused, Destroy, Inv, Types, Handling, Matching, Pending,
        DestroyedTwice, Closes
  <2>6. Once'
    BY <1>5 DEF Refused, Destroy, Inv, Types, Handling, Once, DestroyedTwice
  <2> QED
    BY <2>1, <2>2, <2>3, <2>4, <2>5, <2>6 DEF Inv
<1>6. ASSUME Enter PROVE Inv'
  <2>1. Types' /\ Handling' /\ Numbering'
    BY <1>6 DEF Enter, Inv, Types, Handling, Numbering
  <2>2. Matching'
    BY <1>6 DEF Enter, Inv, Matching
  <2>3. Pending' /\ Once'
    BY <1>6 DEF Enter, Inv, Pending, Once, DestroyedTwice, Closes
  <2> QED
    BY <2>1, <2>2, <2>3 DEF Inv
<1>11. ASSUME Entered PROVE Inv'
  <2>1. Types'
    BY <1>11 DEF Entered, With, Inv, Types, Handling
  <2>2. Handling'
    BY <1>11 DEF Entered, Handling
  <2>3. Matching'
    BY <1>11 DEF Entered, With, Inv, Handling, Matching
  <2>4. Numbering'
    BY <1>11 DEF Entered, With, Inv, Handling, Numbering
  <2>5. Pending'
    BY <1>11 DEF Entered, Inv, Pending, DestroyedTwice, Closes
  <2>6. Once'
    BY <1>11 DEF Entered, Inv, Once, DestroyedTwice
  <2> QED
    BY <2>1, <2>2, <2>3, <2>4, <2>5, <2>6 DEF Inv
<1>7. ASSUME NEW s \in DOMAIN commands, NEW x \in Codes,
             rex_notify(s, x) \/ rex_notify_unknown(s, x)
      PROVE  Inv'
  <2>0. /\ answering = NoCall /\ commands[s] \in Calls
        /\ commands' = IF Closes(commands[s], x) THEN Without(commands, s)
                       ELSE commands
        /\ UNCHANGED <<sequence, requests, kind, destroyed, thread, refused>>
    BY <1>7 DEF rex_notify, rex_notify_unknown, HostAnswer, Inv, Types
  <2>1. \/ /\ answering' = commands[s] /\ code' = x
           /\ at \in {"send", "enter"} => commands[s] # call
        \/ UNCHANGED <<answering, code>>
    BY <1>7, AnswerFound DEF rex_notify_unknown
  <2>2. Types'
    BY <2>0, <2>1 DEF Without, Inv, Types
  <2>3. Handling'
    BY <2>0, <2>1 DEF Without, Inv, Types, Handling
  <2>4. Matching'
    BY <2>0 DEF Without, Inv, Matching
  <2>5. Numbering'
    BY <2>0 DEF Without, Inv, Numbering
  <2>6. Pending'
    <3>1. /\ \A u \in DOMAIN commands' : u \in DOMAIN commands
                                         /\ commands'[u] = commands[u]
          /\ Closes(commands[s], x) => s \notin DOMAIN commands'
      BY <2>0 DEF Without
    <3>2. \A c \in Calls : DestroyedTwice(c)' <=> DestroyedTwice(c)
      BY <2>0 DEF DestroyedTwice
    <3>3. CASE answering' = commands[s] /\ code' = x
      BY <2>0, <3>1, <3>2, <3>3 DEF Inv, Types, Numbering, Pending, Closes
    <3>4. CASE UNCHANGED <<answering, code>>
      BY <2>0, <3>1, <3>2, <3>4 DEF Inv, Types, Pending, Closes
    <3> QED
      BY <2>1, <3>3, <3>4
  <2>7. Once'
    BY <2>0 DEF Inv, Once, DestroyedTwice
  <2> QED
    BY <2>2, <2>3, <2>4, <2>5, <2>6, <2>7 DEF Inv
<1>8. ASSUME handle_service_reply PROVE Inv'
  <2>1. Types'
    BY <1>8 DEF handle_service_reply, Destroy, AnswerDone, Inv, Types, Codes
  <2>2. Handling'
    BY <1>8, RequestsAssumption
    DEF handle_service_reply, Destroy, AnswerDone, Inv, Handling
  <2>3. Matching'
    BY <1>8 DEF handle_service_reply, AnswerDone, Inv, Matching
  <2>4. Numbering'
    BY <1>8 DEF handle_service_reply, AnswerDone, Inv, Numbering
  <2>5. Pending'
    BY <1>8, RequestsAssumption
    DEF handle_service_reply, Destroy, AnswerDone, Services, Inv, Types,
        Pending, DestroyedTwice, Closes
  <2>6. Once'
    BY <1>8
    DEF handle_service_reply, Destroy, AnswerDone, Inv, Pending, Once,
        DestroyedTwice
  <2> QED
    BY <2>1, <2>2, <2>3, <2>4, <2>5, <2>6 DEF Inv
<1>9. ASSUME handle_ota_progress PROVE Inv'
  <2>1. Types'
    BY <1>9 DEF handle_ota_progress, Destroy, AnswerDone, Inv, Types, Codes
  <2>2. Handling'
    BY <1>9, RequestsAssumption
    DEF handle_ota_progress, Destroy, AnswerDone, Inv, Types, Handling
  <2>3. Matching'
    BY <1>9 DEF handle_ota_progress, AnswerDone, Inv, Matching
  <2>4. Numbering'
    BY <1>9 DEF handle_ota_progress, AnswerDone, Inv, Numbering
  <2>5. Pending'
    BY <1>9, RequestsAssumption
    DEF handle_ota_progress, Destroy, AnswerDone, Inv, Types, Pending,
        DestroyedTwice, Closes
  <2>6. Once'
    BY <1>9
    DEF handle_ota_progress, Destroy, AnswerDone, Inv, Types, Pending, Once,
        DestroyedTwice
  <2> QED
    BY <2>1, <2>2, <2>3, <2>4, <2>5, <2>6 DEF Inv
<1>10. CASE UNCHANGED vars
  <2>1. Types' /\ Handling' /\ Matching' /\ Numbering'
    BY <1>10 DEF vars, Inv, Types, Handling, Matching, Numbering
  <2>2. \A c \in Calls : DestroyedTwice(c)' <=> DestroyedTwice(c)
    BY <1>10 DEF vars, DestroyedTwice
  <2>3. Pending' /\ Once'
    BY <1>10, <2>2 DEF vars, Inv, Types, Pending, Once, Closes
  <2> QED
    BY <2>1, <2>3 DEF Inv
<1> QED
  BY <1>1, <1>2, <1>3, <1>4, <1>5, <1>6, <1>7, <1>8, <1>9, <1>10, <1>11
  DEF Next, Paho, Notify, HostAnswers

-----------------------------------------------------------------------------
(* A published code is an integer, whatever the host answers. *)
LEMMA PublishTyped ==
    ASSUME NEW c \in Calls, NEW k, NEW x \in Int,
           told \in [Calls -> Seq(Int)], Publish(c, k, x)
    PROVE  told' \in [Calls -> Seq(Int)]
<1>1. Append(told[c], x) \in Seq(Int)
  OBVIOUS
<1> QED
  BY <1>1 DEF Publish

LEMMA CodesAreIntegers == Codes \subseteq Int /\ \A x \in Codes : ReplyCode(x) \in Int
  BY RequestsAssumption DEF Codes, ReplyCode

LEMMA SequentialStep == Inv /\ Sequential /\ [Next]_vars => Sequential'
<1> SUFFICES ASSUME Inv, Sequential, [Next]_vars PROVE Sequential'
  OBVIOUS
<1> USE DEF Sequential, thread, notify, history
<1>1. ASSUME NEW c \in Calls, NEW k \in Kinds, Arrive(c, k) PROVE Sequential'
  BY <1>1 DEF Arrive
<1>2. ASSUME NEW c \in Calls, ArriveInvalid(c) PROVE Sequential'
  <2>1. ReplyCode(ERR_INVALID_ARGUMENT) \in Int
    BY DEF ReplyCode, ERR_INVALID_ARGUMENT
  <2> QED
    BY <1>2, <2>1, PublishTyped DEF ArriveInvalid
<1>3. ASSUME NEW c \in Calls, ArriveWithoutURL(c) PROVE Sequential'
  BY <1>3 DEF ArriveWithoutURL
<1>4. ASSUME Accepted PROVE Sequential'
  BY <1>4 DEF Accepted
<1>5. ASSUME Refused PROVE Sequential'
  <2>1. call \in Calls
    BY <1>5 DEF Refused, Inv, Handling
  <2>2. ReplyCode(ERR_INVALID_ARGUMENT) \in Int
    BY DEF ReplyCode, ERR_INVALID_ARGUMENT
  <2>3. told' \in [Calls -> Seq(Int)]
    <3>1. CASE UNCHANGED told
      BY <3>1
    <3>2. CASE Publish(call, "scene", ReplyCode(ERR_INVALID_ARGUMENT))
      BY <3>2, <2>1, <2>2, PublishTyped
    <3>3. CASE Publish(call, "ota", -1)
      BY <3>3, <2>1, PublishTyped
    <3> QED
      BY <1>5, <3>1, <3>2, <3>3 DEF Refused
  <2> QED
    BY <1>5, <2>3 DEF Refused
<1>6. ASSUME Enter \/ Entered PROVE Sequential'
  BY <1>6 DEF Enter, Entered
<1>7. ASSUME NEW s \in DOMAIN commands, NEW x \in Codes,
             rex_notify(s, x) \/ rex_notify_unknown(s, x)
      PROVE  Sequential'
  <2>1. /\ Append(reported[commands[s]], x) \in Seq(Codes)
        /\ Append(heard[commands[s]], x) \in Seq(Codes)
    BY DEF Inv, Types
  <2> QED
    BY <1>7, <2>1 DEF rex_notify, rex_notify_unknown, HostAnswer
<1>8. ASSUME handle_service_reply PROVE Sequential'
  <2>1. answering \in Calls /\ ReplyCode(code) \in Int
    BY <1>8, CodesAreIntegers DEF handle_service_reply, Inv, Types
  <2> QED
    BY <1>8, <2>1, PublishTyped DEF handle_service_reply, AnswerDone
<1>9. ASSUME handle_ota_progress PROVE Sequential'
  <2>1. answering \in Calls /\ code \in Int
    BY <1>9, CodesAreIntegers DEF handle_ota_progress, Inv, Types
  <2> QED
    BY <1>9, <2>1, PublishTyped DEF handle_ota_progress, AnswerDone
<1>10. CASE UNCHANGED vars
  BY <1>10 DEF vars
<1> QED
  BY <1>1, <1>2, <1>3, <1>4, <1>5, <1>6, <1>7, <1>8, <1>9, <1>10
  DEF Next, Paho, Notify, HostAnswers

LEMMA SpecInv == Spec => [](Inv /\ Sequential)
<1>1. Init => Sequential
  BY DEF Init, Sequential
<1> QED
  BY <1>1, InvInit, InvStep, SequentialStep, PTL DEF Spec

(* The variables of the calls keep their types. *)
THEOREM RequestsTypeCorrect == Spec => []TypeOK
<1>1. Inv /\ Sequential => TypeOK
  BY DEF Inv, Types, Sequential, TypeOK
<1> QED
  BY <1>1, SpecInv, PTL

(* Params are destroyed once at most, and no answer is handled with params  *)
(* that are gone, but for the calls that DestroyedTwice names.              *)
THEOREM ParamsOnce == Spec => []ParamsDestroyedOnce
<1>1. Inv => ParamsDestroyedOnce
  <2> SUFFICES ASSUME Inv, NEW c \in Calls, ~DestroyedTwice(c)
               PROVE  destroyed[c] <= 1 /\ (answering = c => destroyed[c] = 0)
    BY DEF ParamsDestroyedOnce
  <2>1. destroyed[c] <= 1
    BY DEF Inv, Once
  <2>2. answering = c => destroyed[c] = 0
    BY RequestsAssumption DEF Inv, Pending
  <2> QED
    BY <2>1, <2>2
<1> QED
  BY <1>1, SpecInv, PTL

(* An answer is lost only between the processCmd of its own command and the *)
(* end of its insertion, or in the insertion of another call.               *)
THEOREM AnswersLost == Spec => AnswersLostInInserts
<1> DEFINE Lost(c) == reported'[c] # reported[c] /\ heard'[c] = heard[c]
           Excused == \A c \in Calls : Lost(c) => InsertInProgress(c)
<1>1. Inv /\ Sequential /\ [Next]_vars => [Excused]_vars
  <2> SUFFICES ASSUME Inv, Sequential, Next, NEW c \in Calls, Lost(c)
               PROVE  InsertInProgress(c)
    OBVIOUS
  <2>1. PICK s \in DOMAIN commands, x \in Codes :
          rex_notify(s, x) \/ rex_notify_unknown(s, x)
    BY DEF Next, Paho, Notify, HostAnswers, Arrive, ArriveInvalid,
           ArriveWithoutURL, Accepted, Refused, Enter, Entered, AnswerDone,
           handle_service_reply, handle_ota_progress, history
  <2>2. commands[s] = c
    BY <2>1 DEF rex_notify, rex_notify_unknown, HostAnswer, Sequential
  <2>3. ~rex_notify(s, x)
    <3> SUFFICES ASSUME rex_notify(s, x) PROVE FALSE
      OBVIOUS
    <3>1. heard'[c] = Append(heard[c], x) /\ heard[c] \in Seq(Codes)
      BY <2>2 DEF rex_notify, Sequential
    <3>2. Len(heard'[c]) = Len(heard[c]) + 1 /\ Len(heard[c]) \in Nat
      BY <3>1
    <3> QED
      BY <3>2
  <2>4. Misses(s)
    BY <2>1, <2>3 DEF rex_notify_unknown
  <2>5. CASE s \in DOMAIN requests
    BY <2>4, <2>5 DEF Misses, InsertInProgress
  <2>6. CASE s \notin DOMAIN requests
    BY <2>2, <2>6 DEF InsertInProgress, Inv, Matching
  <2> QED
    BY <2>5, <2>6
<1> QED
  BY <1>1, SpecInv, PTL DEF Spec, AnswersLostInInserts

-----------------------------------------------------------------------------
(* AnswersReachTheirCall is a matter of counting: of the answers to a call  *)
(* that found a request the last may still be in the hands of rex_notify,   *)
(* and those before it are published, in order.                             *)
Said(c, x) == IF kind[c] = "ota" THEN x ELSE ReplyCode(x)

InHand(c) == IF answering = c THEN 1 ELSE 0

Tally(c) ==
    /\ InHand(c) <= Len(heard[c])
    /\ answering = c => code = heard[c][Len(heard[c])]
    /\ kind[c] \in Topics =>
          /\ Len(told[c]) = Len(heard[c]) - InHand(c)
          /\ \A i \in 1..Len(told[c]) : told[c][i] = Said(c, heard[c][i])

(* The calls that have been answered or may still be.                       *)
Answerable(c) ==
    \/ reported[c] # <<>>
    \/ answering = c
    \/ \E s \in DOMAIN commands : commands[s] = c
    \/ at # "idle" /\ call = c

(* Nothing was answered or published of a call that has not arrived, and    *)
(* nothing answered to the one the Paho thread is about to send.            *)
Early ==
    /\ \A c \in Calls : kind[c] = "none" =>
          reported[c] = <<>> /\ told[c] = <<>> /\ heard[c] = <<>>
    /\ at = "send" => reported[call] = <<>>

Counted == Early /\ \A c \in Calls : Answerable(c) => Tally(c)

LEMMA InitCounted == Init => Counted
<1> SUFFICES ASSUME Init PROVE Counted
  OBVIOUS
<1>1. DOMAIN commands = {}
  BY DEF Init
<1>2. Early
  BY DEF Init, Early
<1>3. ASSUME NEW c \in Calls PROVE ~Answerable(c)
  BY <1>1, RequestsAssumption DEF Init, Answerable
<1> QED
  BY <1>2, <1>3 DEF Counted

(* What is known of a call that no step has touched stays known.            *)
LEMMA TallyKept ==
    ASSUME NEW c \in Calls, Tally(c),
           kind'[c] = kind[c], heard'[c] = heard[c], told'[c] = told[c],
           answering = c <=> answering' = c, answering = c => code' = code
    PROVE  Tally(c)'
BY DEF Tally, InHand, Said

(* A published answer is the one that was in hand.                          *)
LEMMA TallyPublished ==
    ASSUME Inv, Sequential, NEW c \in Calls, answering = c, Tally(c),
           UNCHANGED <<kind, history>>, answering' = NoCall,
           Publish(c, kind[c], Said(c, code))
    PROVE  Tally(c)' /\ \A d \in Calls \ {c} : told'[d] = told[d]
<1>0. /\ told \in [Calls -> Seq(Int)] /\ heard[c] \in Seq(Codes)
      /\ NoCall \notin Calls /\ code \in Codes
      /\ heard' = heard /\ kind' = kind
  BY RequestsAssumption DEF Inv, Types, Sequential, history
<1>1. Said(c, code) \in Int
  BY <1>0, CodesAreIntegers DEF Said
<1>2. \A d \in Calls \ {c} : told'[d] = told[d]
  BY <1>0 DEF Publish
<1>3. /\ 1 <= Len(heard[c]) /\ code = heard[c][Len(heard[c])]
      /\ kind[c] \in Topics =>
            /\ Len(told[c]) = Len(heard[c]) - 1
            /\ \A i \in 1..Len(told[c]) : told[c][i] = Said(c, heard[c][i])
  BY DEF Tally, InHand
<1>4. InHand(c)' = 0 /\ answering' # c /\ Len(heard[c]) \in Nat
  BY <1>0 DEF InHand
<1>5. ASSUME kind[c] \in Topics
      PROVE  /\ Len(told'[c]) = Len(heard[c])
             /\ \A i \in 1..Len(told'[c]) : told'[c][i] = Said(c, heard[c][i])
  <2>1. told'[c] = Append(told[c], Said(c, code)) /\ told[c] \in Seq(Int)
    BY <1>0, <1>5 DEF Publish
  <2>2. /\ Len(told'[c]) = Len(told[c]) + 1 /\ Len(told[c]) \in Nat
        /\ told'[c][Len(told[c]) + 1] = Said(c, code)
        /\ \A i \in 1..Len(told[c]) : told'[c][i] = told[c][i]
    BY <1>1, <2>1
  <2>3. Len(told'[c]) = Len(heard[c])
    BY <1>3, <1>4, <1>5, <2>2
  <2>4. ASSUME NEW i \in 1..Len(told'[c])
        PROVE  told'[c][i] = Said(c, heard[c][i])
    <3>1. CASE i = Len(told[c]) + 1
      BY <1>3, <2>2, <2>3, <3>1
    <3>2. CASE i # Len(told[c]) + 1
      <4>1. i \in 1..Len(told[c])
        BY <2>2, <2>4, <3>2
      <4> QED
        BY <1>3, <1>5, <2>2, <4>1
    <3> QED
      BY <3>1, <3>2
  <2> QED
    BY <2>3, <2>4
<1>6. Tally(c)'
  BY <1>0, <1>3, <1>4, <1>5 DEF Tally, Said
<1> QED
  BY <1>2, <1>6

LEMMA StepCounted == Inv /\ Sequential /\ Counted /\ [Next]_vars => Counted'
<1> SUFFICES ASSUME Inv, Sequential, Counted, [Next]_vars PROVE Counted'
  OBVIOUS
<1> USE DEF thread, notify, history
<1>0. /\ kind \in [Calls -> Kinds \cup {"none"}] /\ NoCall \notin Calls
      /\ reported \in [Calls -> Seq(Codes)] /\ heard \in [Calls -> Seq(Codes)]
      /\ told \in [Calls -> Seq(Int)]
      /\ Early /\ \A c \in Calls : Answerable(c) => Tally(c)
  BY RequestsAssumption DEF Inv, Types, Sequential, Counted
<1>1. ASSUME NEW c \in Calls, NEW k \in Kinds, Arrive(c, k) PROVE Counted'
  <2>1. /\ kind[c] = "none" /\ kind' = [kind EXCEPT ![c] = k] /\ k # "none"
        /\ at = "idle" /\ at' = "send" /\ call' = c
        /\ UNCHANGED <<reported, heard, told, answering, code, commands>>
    BY <1>1 DEF Arrive, Kinds
  <2>2. reported[c] = <<>> /\ told[c] = <<>> /\ heard[c] = <<>> /\ answering # c
    BY <1>0, <2>1 DEF Early, Inv, Pending
  <2>3. Early'
    BY <1>0, <2>1, <2>2 DEF Early
  <2>4. ASSUME NEW d \in Calls, Answerable(d)' PROVE Tally(d)'
    <3>1. CASE d = c
      BY <1>0, <2>1, <2>2, <3>1 DEF Tally, InHand
    <3>2. CASE d # c
      <4>1. Answerable(d)
        BY <2>1, <2>4, <3>2 DEF Answerable
      <4> QED
        BY <1>0, <2>1, <3>2, <4>1, TallyKept
    <3> QED
      BY <3>1, <3>2
  <2> QED
    BY <2>3, <2>4 DEF Counted
<1>2. ASSUME NEW c \in Calls, ArriveInvalid(c) \/ ArriveWithoutURL(c)
      PROVE  Counted'
  <2>1. /\ kind[c] = "none" /\ \E k \in Kinds : kind' = [kind EXCEPT ![c] = k]
        /\ \A d \in Calls \ {c} : told'[d] = told[d]
        /\ at = "idle" /\ at' = "idle"
        /\ UNCHANGED <<reported, heard, answering, code, commands, call>>
    BY <1>0, <1>2 DEF ArriveInvalid, ArriveWithoutURL, Publish, Kinds
  <2>2. reported[c] = <<>> /\ answering # c
    BY <1>0, <2>1 DEF Early, Inv, Pending
  <2>3. Early'
    BY <1>0, <2>1 DEF Early, Kinds
  <2>4. ~Answerable(c)'
    BY <1>0, <2>1, <2>2 DEF Answerable, Inv, Pending
  <2>5. ASSUME NEW d \in Calls, Answerable(d)' PROVE Tally(d)'
    <3>1. d # c
      BY <2>4, <2>5
    <3>2. Answerable(d)
      BY <2>1, <2>5 DEF Answerable
    <3> QED
      BY <1>0, <2>1, <3>1, <3>2, TallyKept
  <2> QED
    BY <2>3, <2>5 DEF Counted
<1>3. ASSUME Accepted PROVE Counted'
  <2>1. /\ at = "send" /\ at' = "enter" /\ call \in Calls
        /\ commands' = With(commands, number, call)
        /\ UNCHANGED <<kind, reported, heard, told, answering, code, call>>
    BY <1>3 DEF Accepted, Inv, Handling
  <2>2. Early'
    BY <1>0, <2>1 DEF Early
  <2>3. ASSUME NEW d \in Calls, Answerable(d)' PROVE Tally(d)'
    <3>1. Answerable(d)
      BY <2>1, <2>3 DEF Answerable, With
    <3> QED
      BY <1>0, <2>1, <3>1, TallyKept
  <2> QED
    BY <2>2, <2>3 DEF Counted
<1>4. ASSUME Refused PROVE Counted'
  <2>1. /\ at = "send" /\ at' = "idle" /\ call \in Calls
        /\ \A d \in Calls \ {call} : told'[d] = told[d]
        /\ kind[call] # "none"
        /\ UNCHANGED <<kind, reported, heard, answering, code, commands>>
    BY <1>0, <1>4 DEF Refused, Publish, Inv, Handling
  <2>2. Early'
    BY <1>0, <2>1 DEF Early
  <2>3. ~(\E s \in DOMAIN commands : commands[s] = call) /\ answering # call
    BY <2>1 DEF Inv, Matching, Handling
  <2>4. ASSUME NEW d \in Calls, Answerable(d)' PROVE Tally(d)'
    <3>1. d # call
      BY <1>0, <2>1, <2>3, <2>4 DEF Answerable, Early
    <3>2. Answerable(d)
      BY <2>1, <2>4 DEF Answerable
    <3> QED
      BY <1>0, <2>1, <3>1, <3>2, TallyKept
  <2> QED
    BY <2>2, <2>4 DEF Counted
<1>5. ASSUME Enter \/ Entered PROVE Counted'
  <2>1. /\ at' \in {"insert", "idle"} /\ at # "idle"
        /\ at' = "insert" => call' = call
        /\ UNCHANGED <<kind, reported, heard, told, answering, code, commands>>
    BY <1>5 DEF Enter, Entered
  <2>2. Early'
    BY <1>0, <2>1 DEF Early
  <2>3. ASSUME NEW d \in Calls, Answerable(d)' PROVE Tally(d)'
    <3>1. Answerable(d)
      BY <2>1, <2>3 DEF Answerable
    <3> QED
      BY <1>0, <2>1, <3>1, TallyKept
  <2> QED
    BY <2>2, <2>3 DEF Counted
<1>6. ASSUME NEW s \in DOMAIN commands, NEW x \in Codes,
             rex_notify(s, x) \/ rex_notify_unknown(s, x)
      PROVE  Counted'
  <2>c. PICK c \in Calls : c = commands[s]
    BY <1>6 DEF Inv, Types
  <2>0. kind[c] # "none" /\ answering = NoCall /\ Answerable(c)
    BY <1>6, <2>c
    DEF rex_notify, rex_notify_unknown, HostAnswer, Inv, Pending, Answerable
  <2>1. /\ reported' = [reported EXCEPT ![c] = Append(@, x)]
        /\ \A u \in DOMAIN commands' : u \in DOMAIN commands /\ commands'[u] = commands[u]
        /\ UNCHANGED <<kind, told, at, call>>
    BY <1>6, <2>c DEF rex_notify, rex_notify_unknown, HostAnswer, Without
  <2>2. \A d \in Calls \ {c} : reported'[d] = reported[d]
    BY <1>0, <2>1
  <2>3. at = "send" => call # c
    BY <2>c DEF Inv, Handling, Matching
  <2>4. ASSUME NEW d \in Calls \ {c}, Answerable(d)', heard'[d] = heard[d],
               answering' # d
        PROVE  Tally(d)'
    <3>1. Answerable(d)
      BY <1>0, <2>0, <2>1, <2>2, <2>4 DEF Answerable
    <3> QED
      BY <1>0, <2>0, <2>1, <2>4, <3>1, TallyKept
  <2>5. CASE rex_notify(s, x)
    <3>1. /\ answering' = c /\ code' = x
          /\ heard' = [heard EXCEPT ![c] = Append(@, x)]
      BY <2>c, <2>5, AnswerFound DEF rex_notify
    <3>2. Early'
      BY <1>0, <2>0, <2>1, <2>2, <2>3, <3>1 DEF Early, Inv, Handling
    <3>3. Tally(c)'
      <4>1. InHand(c) = 0 /\ InHand(c)' = 1
        BY <1>0, <2>0, <3>1 DEF InHand
      <4>2. heard[c] \in Seq(Codes) /\ told[c] \in Seq(Int) /\ Tally(c)
        BY <1>0, <2>0
      <4>3. /\ Len(heard'[c]) = Len(heard[c]) + 1 /\ Len(heard[c]) \in Nat
            /\ heard'[c][Len(heard[c]) + 1] = x
            /\ \A i \in 1..Len(heard[c]) : heard'[c][i] = heard[c][i]
        BY <1>0, <3>1, <4>2
      <4>4. kind[c] \in Topics => \A i \in 1..Len(told[c]) :
               told[c][i] = Said(c, heard'[c][i])
        BY <4>1, <4>2, <4>3 DEF Tally
      <4>5. /\ InHand(c)' <= Len(heard'[c])
            /\ code' = heard'[c][Len(heard'[c])]
        BY <3>1, <4>1, <4>3
      <4>6. kind[c] \in Topics => Len(told'[c]) = Len(heard'[c]) - InHand(c)'
        <5>1. kind[c] \in Topics => Len(told[c]) = Len(heard[c]) - 0
          BY <4>1, <4>2 DEF Tally
        <5> QED
          BY <2>1, <4>1, <4>3, <5>1
      <4> QED
        BY <2>1, <4>4, <4>5, <4>6 DEF Tally, Said
    <3> QED
      BY <1>0, <2>4, <3>1, <3>2, <3>3 DEF Counted
  <2>6. CASE rex_notify_unknown(s, x)
    <3>1. UNCHANGED <<answering, code, heard>>
      BY <2>6 DEF rex_notify_unknown
    <3>2. Early'
      BY <1>0, <2>0, <2>1, <2>2, <2>3, <3>1 DEF Early, Inv, Handling
    <3>3. Tally(c)'
      BY <1>0, <2>0, <2>1, <3>1, TallyKept
    <3> QED
      BY <1>0, <2>0, <2>4, <3>1, <3>2, <3>3 DEF Counted
  <2> QED
    BY <1>6, <2>5, <2>6
<1>7. ASSUME handle_service_reply \/ handle_ota_progress PROVE Counted'
  <2>1. /\ answering \in Calls /\ answering' = NoCall
        /\ Publish(answering, kind[answering], Said(answering, code))
        /\ UNCHANGED <<kind, at, call, commands, history>>
    BY <1>7
    DEF handle_service_reply, handle_ota_progress, AnswerDone, Said, Services,
        Inv, Types
  <2>2. PICK c \in Calls : c = answering
    BY <2>1
  <2>3. Answerable(c)
    BY <2>2 DEF Answerable
  <2>4. Tally(c)' /\ \A d \in Calls \ {c} : told'[d] = told[d]
    BY <1>0, <2>1, <2>2, <2>3, TallyPublished
  <2>5. Early'
    BY <1>0, <2>1, <2>2, <2>4 DEF Early, Inv, Pending
  <2>6. ASSUME NEW d \in Calls, Answerable(d)' PROVE Tally(d)'
    <3>1. CASE d = c
      BY <2>4, <3>1
    <3>2. CASE d # c
      <4>1. Answerable(d)
        BY <1>0, <2>1, <2>6 DEF Answerable
      <4> QED
        BY <1>0, <2>1, <2>2, <2>4, <3>2, <4>1, TallyKept
    <3> QED
      BY <3>1, <3>2
  <2> QED
    BY <2>5, <2>6 DEF Counted
<1>8. CASE UNCHANGED vars
  BY <1>0, <1>8, TallyKept DEF vars, Counted, Early, Answerable
<1> QED
  BY <1>1, <1>2, <1>3, <1>4, <1>5, <1>6, <1>7, <1>8
  DEF Next, Paho, Notify, HostAnswers

LEMMA CountedAnswers == Inv /\ Sequential /\ Counted => AnswersReachTheirCall
<1> SUFFICES ASSUME Inv, Sequential, Counted,
                    NEW c \in Calls, kind[c] \in Topics, reported[c] # <<>>
             PROVE  told[c] = [i \in 1..Handled(c) |->
                                 IF kind[c] = "ota" THEN heard[c][i]
                                 ELSE ReplyCode(heard[c][i])]
  BY DEF AnswersReachTheirCall
<1>1. Tally(c) /\ told[c] \in Seq(Int)
  BY DEF Counted, Answerable, Sequential
<1>2. Handled(c) = Len(told[c])
  BY <1>1 DEF Tally, Handled, InHand
<1>3. told[c] = [i \in 1..Len(told[c]) |-> told[c][i]]
  BY <1>1
<1>4. \A i \in 1..Len(told[c]) :
         told[c][i] = IF kind[c] = "ota" THEN heard[c][i]
                      ELSE ReplyCode(heard[c][i])
  BY <1>1 DEF Tally, Said
<1> QED
  BY <1>2, <1>3, <1>4

(* For any number of overlapping calls, what the platform hears about a     *)
(* call is what the host said about it, each answer that found the request  *)
(* once and in order.                                                       *)
THEOREM AnswersReach == Spec => []AnswersReachTheirCall
<1>1. Spec => []Counted
  BY InitCounted, StepCounted, SpecInv, PTL DEF Spec
<1> QED
  BY <1>1, CountedAnswers, SpecInv, PTL

=============================================================================
