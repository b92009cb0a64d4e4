-------------------------- MODULE MCCaptureSession --------------------------
(* Small instances of CaptureSession for TLC.                              *)
EXTENDS CaptureSession

CONSTANTS s1, s2, d1, d2, lin, tiled

Offer(s, d, xr, ar) == [size |-> s, device |-> d,
                        fmts |-> [f \in Fourccs |-> IF f = "XR24" THEN xr ELSE ar]]

MCSizes == {s1, s2}
MCDevices == {d1, d2}
MCModifiers == {lin, tiled}
MCAllowed == <<tiled, lin>>

\* A linear, a tiled and a two-modifier XR24, a resize, a move to another GPU
\* that only offers AR24, and constraints the encoder cannot meet at all.
MCOffers == {Offer(s1, d1, {lin}, {}),
             Offer(s1, d1, {tiled}, {lin}),
             Offer(s1, d1, {lin, tiled}, {}),
             Offer(s2, d1, {lin}, {}),
             Offer(s1, d2, {}, {tiled}),
             Offer(s1, d1, {}, {})}

\* Two layouts of one format: every change is one the encoder could follow.
MCLayouts == {Offer(s1, d1, {lin}, {}), Offer(s1, d1, {tiled}, {})}
=============================================================================
