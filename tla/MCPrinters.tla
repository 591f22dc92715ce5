---------------------------- MODULE MCPrinters ----------------------------
(****************************************************************************)
(* Sizes on both sides of every length that a printer asks for, whether in  *)
(* bytes or in double-words, and sizes that end within a register.          *)
(****************************************************************************)
EXTENDS Printers

SomeSizes == {0, 1, 3, 4, 9, 10, 16, 17, 29, 30, 36, 37, 256, 257}

SomeSlots == {0, 1, 2, 16, 17}

(* All but eight of the nine data rates, which are printed alike.           *)
SomeSlices == Slice \ ({"port"} \X (5 .. 12))
=============================================================================
