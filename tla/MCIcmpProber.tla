----------------------------- MODULE MCIcmpProber -----------------------------
EXTENDS IcmpProber
=============================================================================
