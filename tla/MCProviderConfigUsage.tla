----------------------- MODULE MCProviderConfigUsage -----------------------
(* A small instance of ProviderConfigUsage.                                *)
EXTENDS ProviderConfigUsage, TLC

CONSTANTS m1, m2

============================================================================
