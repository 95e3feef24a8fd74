----------------------------- MODULE MCConsole -----------------------------
(* A screen of three rows of two cells, a greeting of a letter and a line   *)
(* end, and a prompt of one letter.                                        *)
EXTENDS Console

MCStarts   == {0, 3}
MCGreeting == <<"H", Newline>>
MCPrompts  == <<<<>>, <<"p", "q">>>>
MCCodes    == {31, 42, 14, 28}    \* s, left shift, backspace, enter
MCUnhandled == {14}
=============================================================================
