---------------------------- MODULE MCLlmClient -----------------------------
\* tier0 may fall back to the cloud, tier1 is kept to the LAN.
EXTENDS LlmClient

MCConfigured == [t \in Tiers |-> IF t = "tier0" THEN <<"local", "cloud">>
                                 ELSE <<"local", "cloud", "spare">>]
MCAllow == [t \in Tiers |-> t = "tier0"]
=============================================================================
