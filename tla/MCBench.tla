------------------------------- MODULE MCBench -------------------------------
EXTENDS Bench

MCDevices == {"a", "b"}
=============================================================================
