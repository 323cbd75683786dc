--------------------------- MODULE MCMqttClient ----------------------------
(* MqttClient with short timeouts and a bounded number of faults.           *)
EXTENDS MqttClient

AllFaults == {"close", "reset", "refuse", "wifi"}
NoWifiFault == {"close", "reset", "refuse"}
ResetAndWifi == {"reset", "wifi"}
=============================================================================
