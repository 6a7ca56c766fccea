-------------------------------- MODULE Startup --------------------------------
(***************************************************************************)
(* The life of the plugin between rex_init and rex_deinit: the settings    *)
(* that init reads (global.c), what instance_init makes (instance.c) and   *)
(* what the host's calls do with it (main.c).  The calls of the host       *)
(* follow each other; init reads a setting in a step.                      *)
(*                                                                         *)
(* init has no caller in src/: the host may call it, before rex_init or    *)
(* never.  A text is known by where it comes from and whether it still has *)
(* dots; lengths are left out, and so is what a topic ends in.             *)
(***************************************************************************)
EXTENDS Naturals, Sequences, Functions

CONSTANTS
    NULL,
    Hosts,           \* what callbacks a host may give
    MaxInits         \* bound on the calls of rex_init

(* The order in which init reads the settings, and where it puts them.      *)
Order == <<"pk", "ps", "vendor", "model", "clientId", "broker">>
Settings == {"url", "pk", "ps", "vendor", "model", "clientId", "broker"}
Target == [pk |-> "productKey", ps |-> "productSecret", vendor |-> "vendorCode",
           model |-> "modelCode", clientId |-> "vendorCode", broker |-> "mqttBroker"]

Fields == {"productKey", "productSecret", "vendorCode", "modelCode", "hexModelId",
           "clientId", "mqttBroker", "deviceName", "deviceSecret", "versionCOO"}

Callbacks == <<"processCmd", "getDevList", "readConf", "writeConf", "log",
               "getZbNetInfo", "setDevAlias", "getVerInfo", "setDevList">>

VARIABLES
    file,            \* the settings in the file: absent, a group, a scalar
    root,            \* g_config_root: has the file been parsed?
    pc,              \* where the call that is under way is
    at,              \* which setting init reads next
    instance,        \* the texts of the instance
    inForce,         \* the host's callbacks that the instance calls
    topics,          \* what the topics of the instance begin with
    server,          \* and those of g_server_topics
    mqtt,            \* instance.mqtt
    inits

vars == <<file, root, pc, at, instance, inForce, topics, server, mqtt, inits>>

Text == [from : Settings \cup {"nothing", "platform", "gateway"}, dots : BOOLEAN]
Empty == [from |-> "nothing", dots |-> FALSE]
Setting(s) == [from |-> s, dots |-> s = "model"]

Prefix == {NULL} \cup (Text \X Text \X Text)

TypeOK ==
    /\ file \in [Settings -> {"absent", "group", "scalar"}]
    /\ root \in BOOLEAN
    /\ pc \in {"idle", "init", "register", "topics", "undefined"}
    /\ at \in 1 .. Len(Order) + 1
    /\ instance \in [Fields -> Text]
    /\ inForce \subseteq Range(Callbacks)
    /\ topics \in Prefix /\ server \in Prefix
    /\ mqtt \in {"NULL", "alive", "freed"} /\ inits \in 0 .. MaxInits

(* plugin_init. *)
Init ==
    /\ file \in [Settings -> {"absent", "group", "scalar"}]
    /\ root = FALSE /\ pc = "idle" /\ at = 1 /\ inits = 0
    /\ instance = [f \in Fields |-> Empty] /\ inForce = {}
    /\ topics = NULL /\ server = NULL /\ mqtt = "NULL"

Plugin == <<inForce, topics, mqtt, inits>>

-----------------------------------------------------------------------------
(* init and destroy.                                                        *)

conf_parse_file ==
    /\ pc = "idle" /\ ~root
    /\ root' = TRUE /\ pc' = "init" /\ at' = 1
    /\ UNCHANGED <<file, instance, server, Plugin>>

(* replace_char works in place, so modelCode changes as well. *)
replace_char(t) == [t EXCEPT !.dots = FALSE]

Read(s) ==
    LET i == [instance EXCEPT ![Target[s]] = Setting(s)] IN
    IF s # "model" THEN i
    ELSE [i EXCEPT !.modelCode = replace_char(@), !.hexModelId = replace_char(i.modelCode)]

(* A setting that is absent ends the call: what follows it stays as it was. *)
(* A group has no value: strcpy reads NULL.                                 *)
ReadSetting ==
    /\ pc = "init" /\ at \in DOMAIN Order
    /\ LET s == Order[at] IN
       CASE file[s] = "absent" -> pc' = "idle" /\ UNCHANGED <<at, instance>>
         [] file[s] = "group"  -> pc' = "undefined" /\ UNCHANGED <<at, instance>>
         [] file[s] = "scalar" -> at' = at + 1 /\ instance' = Read(s) /\ UNCHANGED pc
    /\ UNCHANGED <<file, root, server, Plugin>>

TopicPrefix == <<instance.vendorCode, instance.hexModelId, instance.clientId>>

ServerTopics ==
    /\ pc = "init" /\ at > Len(Order)
    /\ server' = TopicPrefix /\ pc' = "idle"
    /\ UNCHANGED <<file, root, at, instance, Plugin>>

destroy ==
    /\ pc = "idle" /\ root
    /\ root' = FALSE
    /\ UNCHANGED <<file, pc, at, instance, server, Plugin>>

-----------------------------------------------------------------------------
(* rex_init: instance_init, with a parameter of the right version.          *)

(* A callback that is missing leaves those after it to the dummies, too. *)
instance_init(given) ==
    /\ pc = "idle" /\ inits < MaxInits /\ mqtt # "alive"
    /\ inForce' = {Callbacks[i] : i \in {i \in DOMAIN Callbacks :
                       \A j \in 1 .. i : Callbacks[j] \in given}}
    /\ pc' = "register" /\ inits' = inits + 1
    /\ UNCHANGED <<file, root, at, instance, topics, server, mqtt>>

(* register_gateway without the settings, or without the url. *)
RegisterUndefined ==
    /\ pc = "register" /\ (~root \/ file["url"] = "absent")
    /\ pc' = "undefined"
    /\ UNCHANGED <<file, root, at, instance, server, Plugin>>

(* It fails: there are no topics and no client, and rex_init succeeds. *)
RegisterFails ==
    /\ pc = "register" /\ root /\ file["url"] # "absent"
    /\ pc' = "idle"
    /\ UNCHANGED <<file, root, at, instance, server, Plugin>>

register_gateway ==
    /\ pc = "register" /\ root /\ file["url"] = "scalar"
    /\ instance' = [instance EXCEPT !.deviceName = [from |-> "platform", dots |-> FALSE],
                                    !.deviceSecret = [from |-> "platform", dots |-> FALSE]]
    /\ pc' = "topics"
    /\ UNCHANGED <<file, root, at, server, Plugin>>

mqtt_new ==
    /\ pc = "topics"
    /\ topics' = TopicPrefix
    /\ mqtt' = "alive" /\ pc' = "idle"
    /\ UNCHANGED <<file, root, at, instance, inForce, server, inits>>

-----------------------------------------------------------------------------
(* The other calls of the host.  mqtt_start, mqtt_stop and mqtt_delete do   *)
(* nothing with NULL, but instance.mqtt is not reset when it is freed.      *)

Called == pc' = IF mqtt = "freed" THEN "undefined" ELSE "idle"

(* getDevList has a gateway to show. *)
rex_start ==
    /\ pc = "idle" /\ inits > 0 /\ "getDevList" \in inForce
    /\ instance' = [f \in Fields |->
                      IF f \in {"productKey", "deviceName", "versionCOO"}
                      THEN [from |-> "gateway", dots |-> FALSE] ELSE instance[f]]
    /\ Called
    /\ UNCHANGED <<file, root, at, server, Plugin>>

rex_stop ==
    /\ pc = "idle" /\ inits > 0 /\ Called
    /\ UNCHANGED <<file, root, at, instance, server, Plugin>>

(* instance_deinit. *)
rex_deinit ==
    /\ pc = "idle" /\ inits > 0 /\ Called
    /\ mqtt' = IF mqtt = "alive" THEN "freed" ELSE mqtt
    /\ UNCHANGED <<file, root, at, instance, inForce, topics, server, inits>>

Next ==
    \/ conf_parse_file \/ ReadSetting \/ ServerTopics \/ destroy
    \/ \E given \in Hosts : instance_init(given)
    \/ RegisterUndefined \/ RegisterFails \/ register_gateway \/ mqtt_new
    \/ rex_start \/ rex_stop \/ rex_deinit

Spec == Init /\ [][Next]_vars

-----------------------------------------------------------------------------
(* The topics a gateway subscribes and publishes are the ones global.h and *)
(* the comments before each sprintf name,                                  *)
(* {vendor_code}/{hex_mode_id}/{clientId}/..., with the settings of these   *)
(* names.                                                                  *)
TopicsNameTheGateway ==
    server # NULL => server = <<Setting("vendor"), replace_char(Setting("model")),
                                Setting("clientId")>>

=============================================================================
