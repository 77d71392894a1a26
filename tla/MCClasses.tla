----------------------------- MODULE MCClasses -----------------------------
(* Instances of Classes. *)
EXTENDS Classes

CONSTANTS x1, x2

Alone(c) == [comp |-> c, routes |-> {}, drained |-> {}, near |-> {}, cut |-> {},
                mortal |-> {}, pausable |-> {}, fed |-> {}, calm |-> TRUE]
MixerTracks == [Alone(MixerConfigured({x1}, {1, 2}, FALSE)) EXCEPT
                  !.routes = {3}, !.near = {3}, !.cut = {1}]
MixerPaused == [Alone(MixerConfigured({x1}, {1}, FALSE)) EXCEPT
                  !.routes = {3}, !.near = {3}, !.cut = {1}, !.mortal = {3}, !.pausable = {1, 3}]
MixerProbed == [Alone(MixerConfigured({x1}, {1}, TRUE)) EXCEPT
                  !.drained = {3, 5}, !.cut = {1}, !.pausable = {5}]
MixerWatched == [Alone(MixerConfigured({x1}, {1}, TRUE)) EXCEPT
                  !.routes = {3}, !.drained = {5}, !.pausable = {3, 5}]
Mimo == [Alone(MimoConfigured({x1}, {1, 2}, {3}, FALSE)) EXCEPT
                  !.routes = {3}, !.fed = {3}, !.cut = {1}]
MimoPaused == [Alone(MimoConfigured({x1}, {1}, {3}, FALSE)) EXCEPT
                  !.routes = {3}, !.fed = {3}, !.pausable = {1, 3}]
Split == [Alone(MimoConfigured({x1}, {1}, {3, 4}, TRUE)) EXCEPT
                  !.routes = {3}, !.drained = {4}, !.cut = {1}, !.mortal = {3}]
RendererPlays == [Alone(RendererConfigured({x1})) EXCEPT
                  !.routes = {3}, !.cut = {1}, !.mortal = {3}]
CapturerReads == [Alone(CapturerConfigured({x1, x2}, 3)) EXCEPT
                  !.routes = {3}, !.mortal = {3}]
Calm == {MixerTracks, MixerPaused, MixerProbed, MixerWatched, Mimo, MimoPaused, Split, RendererPlays, CapturerReads}
Busy == {[MixerPaused EXCEPT !.calm = FALSE, !.cut = {}, !.mortal = {}, !.pausable = {}]}
=============================================================================
