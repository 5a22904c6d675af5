--------------------------- MODULE MCChatDelivery ---------------------------
(* Instances of ChatDelivery for TLC. *)
EXTENDS ChatDelivery, TLC

CONSTANTS a, b, r, m1, m2, m3

(* One conversation seen from both ends; only a writes in OneWay. *)
Pair == {<<a, r>>, <<r, a>>}
BothWays == Pair \X MsgId
OneWay == {<<a, r>>} \X MsgId
(* Two peers that write to the same recipient. *)
FanIn == {<<a, r>>, <<b, r>>, <<r, a>>, <<r, b>>}
ToRecipient == {<<a, r>>, <<b, r>>} \X MsgId
(* The same without the mirror images: only a writes m1. *)
ToRecipientOnce == ToRecipient \ {<<<<b, r>>, m1>>}

(* Every client runs the terminal program. *)
Everyone == Client

(* Without m3, which cannot be decrypted. *)
Unbroken == Permutations({m1, m2})
(* The two senders of FanIn can be exchanged as well. *)
FanUnbroken == Unbroken \cup Permutations({a, b})
=============================================================================
