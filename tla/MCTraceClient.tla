---------------------------- MODULE MCTraceClient ----------------------------
EXTENDS TraceClient

\* The ICMP prober alone; the TCP prober's goroutines are the same.
OneProber == {"icmp"}
=============================================================================
