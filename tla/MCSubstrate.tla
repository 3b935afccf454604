---------------------------- MODULE MCSubstrate -----------------------------
(* The cascade both sides compute when nobody forces a tier.               *)
EXTENDS Substrate

MCCascade == <<"wireguard", "quic">>
=============================================================================
