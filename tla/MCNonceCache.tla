---------------------------- MODULE MCNonceCache ----------------------------
(* Instances of NonceCache.  The nonces 3 and 4 both saturate at LongMax.  *)
EXTENDS NonceCache

Msg(n, f, u) == [nonce |-> n, from |-> f, until |-> u]

(* Windows of one length, as clients with one clock send them; the first   *)
(* and the last share a (saturated) nonce.                                 *)
MCInOrderMessages ==
    {Msg(3, 0, 2), Msg(1, 0, 2), Msg(2, 1, 3), Msg(4, 2, 4)}
=============================================================================
