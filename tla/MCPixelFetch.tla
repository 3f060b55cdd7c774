---------------------------- MODULE MCPixelFetch ----------------------------
(***************************************************************************)
(* A small instance of PixelFetch: one image, one board with two CCDs and  *)
(* one with a single CCD.                                                  *)
(***************************************************************************)
EXTENDS PixelFetch

CONSTANTS img, guider, wavefront

MCSensors == [l \in Location |-> IF l = guider THEN 2 ELSE 1]
MCPrefixed == [i \in Image |-> {i}]

(* The board with two CCDs may be listed twice, the other one once; threads *)
(* that can run do.                                                        *)
MCPixelFetchInit == PixelFetchInit /\ task[<< wavefront, 2 >>] = "off"

MCPixelFetchSpec == MCPixelFetchInit /\ [][FetchStep]_fetching /\ WF_fetching(FetchStep)
=============================================================================
