---------------------------- MODULE MCTopicRouter ----------------------------
(* An instance of TopicRouter for TLC: a host that subscribes a topic of    *)
(* the connect callback.                                                     *)
EXTENDS TopicRouter
MCInitTopics == <<<<"g", "+", "#">>, <<"d", "b">>>>
MCHostTopics == {<<"d", "b">>}
MCNames == {<<"g", "a">>, <<"g", "a", "b">>, <<"d", "b">>}
=============================================================================
