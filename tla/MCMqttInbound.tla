--------------------------- MODULE MCMqttInbound ----------------------------
(* MqttInbound with digits of two bits: a remaining length takes two from 4. *)
EXTENDS MqttInbound

MCIds == {1, 2}
MCPayloads == {<<>>, <<5, 6>>, <<1, 1, 1, 1, 1, 1, 1, 1, 1, 1>>}
MCTopic == <<7>>
=============================================================================
