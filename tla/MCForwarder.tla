---------------------------- MODULE MCForwarder -----------------------------
(***************************************************************************)
(* Small instances of Forwarder: two image ids, one board with two CCDs    *)
(* (guider), one with one CCD (wavefront) and a name that no configuration *)
(* lists (stray).  The runs differ in mode, bounds and failures.           *)
(***************************************************************************)
EXTENDS Forwarder

CONSTANTS img1, img10, guider, wavefront, stray

MCSensors == [l \in Location |-> IF l = guider THEN 2 ELSE 1]

(* Two boards of one CCD each, for the run with the most failures.         *)
MCSingle == [l \in Location |-> 1]

(* Ids of the same length: no id is the beginning of another.              *)
MCApart == [i \in Image |-> {i}]

(* "img1" is the beginning of "img10".                                     *)
MCNested == [i \in Image |-> IF i = img1 THEN Image ELSE {i}]

List(S) == [l \in Location |-> IF l \in S THEN 1 ELSE 0]

MCWhole == {List(Location \ {stray})}

(* One board at a time, no board at all, a board nobody knows.             *)
MCPart == {List({}), List({guider}), List({wavefront}), List({wavefront, stray})}
=============================================================================
