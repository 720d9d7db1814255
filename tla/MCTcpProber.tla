------------------------------ MODULE MCTcpProber ------------------------------
EXTENDS TcpProber

MCAnyStart == {"dialing", "refused"}
MCNetworkDown == {"unreachable"}
=============================================================================
