---------------------------- MODULE MCMqttQueue ----------------------------
(* MqttQueue on a ring of a few bytes: packets without and with bytes to    *)
(* escape, the empty packet (refused by MQTT_Publish, queued by             *)
(* MQTT_Subscribe) and packets too long for the ring.                       *)
EXTENDS MqttQueue

MCMessages == {<<>>, <<1>>, <<126, 93>>, <<127, 125, 1>>, <<1, 1, 1, 1, 1>>}
=============================================================================
