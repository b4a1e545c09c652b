----------------------------- MODULE MCNonceList -----------------------------
(* An instance of NonceList: windows in any order, one of them ending at   *)
(* the largest int, and one cell for each acceptance of the bound.         *)
EXTENDS NonceList

Msg(n, f, u) == [nonce |-> n, from |-> f, until |-> u]

MCMessages == {Msg(1, 0, 4), Msg(2, 0, 1), Msg(3, 0, 2), Msg(4, 1, 9)}

MCCells == 1 .. 8
=============================================================================
