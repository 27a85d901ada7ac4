-------------------------- MODULE MCMerchantAccess --------------------------
(* An instance of MerchantAccess for TLC: two browsers, and the server of a  *)
(* second merchant.                                                          *)
EXTENDS MerchantAccess, TLC

CONSTANTS b1, b2, server, default, other

MCCodeOf == [c \in Clients |-> IF c = server THEN other ELSE default]
=============================================================================
