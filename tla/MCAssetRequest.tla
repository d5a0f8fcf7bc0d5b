--------------------------- MODULE MCAssetRequest ----------------------------
(* AssetRequest on small instances: call q1 is made by requestAssetBlob. *)
EXTENDS AssetRequest

CONSTANTS q1, q2, q3, u1, u2, d1, d2

MCUrlOf == [c \in Calls |-> IF c = q3 THEN u2 ELSE u1]
==============================================================================
