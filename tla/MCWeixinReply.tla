--------------------------- MODULE MCWeixinReply ---------------------------
(* Two messages, of two users, on one Weixin binding. *)
EXTENDS WeixinBinding

MCWxFrom == <<1, 2>>
=============================================================================
