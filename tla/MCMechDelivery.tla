-------------------------- MODULE MCMechDelivery --------------------------
EXTENDS MechDelivery

LiveEnv == RequiredEnv \cup {"MECH_ADAPTER_OBSERVE_ONLY=false"}

\* Base, live; Base, observing; Gnosis with Base's RPC; Gnosis without an identity.
EnvsValue ==
    {LiveEnv,
     RequiredEnv,
     LiveEnv \cup {"MECH_ADAPTER_CHAIN_ID=100", "BASE_RPC_URL", "MECH_ADDRESS", "MECH_MULTISIG_ADDRESS"},
     LiveEnv \cup {"MECH_ADAPTER_CHAIN_ID=100"}}
===========================================================================
