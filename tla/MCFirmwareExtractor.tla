------------------------- MODULE MCFirmwareExtractor -------------------------
(***************************************************************************)
(* Drivers with a section of six bytes at file offset 8: every arrangement *)
(* of three records of two bytes, and symbols in the section or in the     *)
(* file, in either order, missing, outside the section, unaligned, or      *)
(* defined twice.                                                          *)
(***************************************************************************)
EXTENDS FirmwareExtractor

Symbol(name, value) == [name |-> name, value |-> value]

MCSymbols == {
    <<Symbol("firmware", 0), Symbol("loader", 2)>>,
    <<Symbol("loader", 12), Symbol("other", 0), Symbol("firmware", 8)>>,
    <<Symbol("firmware", 2), Symbol("loader", 0)>>,
    <<Symbol("firmware", 0), Symbol("loader", 3)>>,
    <<Symbol("firmware", 0), Symbol("loader", 4), Symbol("loader", 7)>>,
    <<Symbol("firmware", 2), Symbol("loader", 4), Symbol("firmware", 0)>>,
    <<Symbol("firmware", 0)>> }

MCDrivers ==
    {[symbols |-> s, filepos |-> 8, size |-> 6,
      record |-> [i \in 0 .. 5 |-> IF i % 2 = 0 THEN r[i \div 2] ELSE "data"]] :
        s \in MCSymbols, r \in [0 .. 2 -> Kinds]}
=============================================================================
