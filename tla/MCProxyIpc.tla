----------------------------- MODULE MCProxyIpc -----------------------------
(* A finite instance of ProxyIpc: three clients with a buffer each contend *)
(* for two descriptors.                                                    *)
EXTENDS ProxyIpc

CONSTANTS c1, c2, c3, b1, d1, d2, w1

ThreeClients == {c1, c2, c3}
OneBuffer == {b1}
TwoDescriptors == {d1, d2}
OneWorker == {w1}
=============================================================================
