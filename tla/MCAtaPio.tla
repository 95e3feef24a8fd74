------------------------------ MODULE MCAtaPio ------------------------------
(* Two drives of 13 sectors, in registers of two values, so that the first *)
(* of a call needs the lower two digits (3) or the upper two (12).         *)
EXTENDS AtaPio

MCFirsts == {3, 12}
MCWrites == {<<1>>, <<1, 2>>}
MCKinds  == {"ata", "atapi", "broken", "none"}
=============================================================================
