----------------------------- MODULE MCRspMux -----------------------------
EXTENDS RspMux

\* Broadcasts for port 0 beside a stream to either port from port 1.
Contended == {[port |-> 0, dest |-> {0, 1}],
              [port |-> 1, dest |-> {0}], [port |-> 1, dest |-> {1}]}
=============================================================================
