---------------------------- MODULE MCCodecChain ----------------------------
(* Instances of CodecChain: chains of two and of three components; the     *)
(* first has a worker of its own.                                          *)
EXTENDS CodecChain

CONSTANTS ca, cb, cc, w1, w2, x1, x2

TwoCodecs == {ca, cb}
ThreeCodecs == {ca, cb, cc}
TwoEdges == {<<ca, cb>>}
ThreeEdges == {<<ca, cb>>, <<cb, cc>>}
OwnWorkers == [k \in Codecs |-> IF k = ca THEN w1 ELSE w2]
=============================================================================
