---------------------------- MODULE MCAssetChain ----------------------------
(* The instance of AssetChain that TLC checks: one qualified person signs,  *)
(* and the caller may expect that one, another one or nobody.               *)
EXTENDS AssetChain

CONSTANTS k1, k2

MCKey == {k1}
MCExpected == {NoKey, k1, k2}
=============================================================================
