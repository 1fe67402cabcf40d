-------------------------- MODULE MCRegisterDrivers --------------------------
EXTENDS RegisterDrivers

AllDrivers == Classes
OneBit == {"a"}
=============================================================================
