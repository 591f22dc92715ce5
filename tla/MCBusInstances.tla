--------------------------- MODULE MCBusInstances ---------------------------
(****************************************************************************)
(* Instances are numbered; two of them share an EID.                        *)
(****************************************************************************)
EXTENDS BusInstances

SharedEid == [b \in Instance |-> IF b = 4 THEN 2 ELSE b]
=============================================================================
