--------------------------- MODULE MCMqttClient ---------------------------
(***************************************************************************)
(* MqttClient with two topics, one of them with the [mac] placeholder, two *)
(* publish topics of qos 1 and 0, a queue of two packets and timeouts of   *)
(* one second.                                                             *)
(***************************************************************************)
EXTENDS MqttClient

MCTopics == {"a", "b"}
MCMacTopics == {"b"}
MCSlotChoices == {<<"a", "b">>, <<"a">>}
MCPublishQos == <<1, 0>>
=============================================================================
