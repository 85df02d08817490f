------------------------------ MODULE MCSerial ------------------------------
(***************************************************************************)
(* Short lines that differ, one of a level that is not enabled, one with   *)
(* two line ends, as the banner and the reports of exceptions have.        *)
(***************************************************************************)
EXTENDS Serial

Line(level, text) == [level |-> level, text |-> text]

mcEarly   == << Line(3, <<"a", "LF">>), Line(4, <<"b", "LF">>) >>
mcLate    == << Line(4, <<"c", "LF">>), Line(5, <<"d", "LF">>),
                Line(0, <<"e", "LF", "f", "LF">>) >>
mcHandler == << Line(4, <<"g", "LF">>) >>
mcInput   == << "x", "y" >>
mcByte    == {"CR", "LF", "a", "b", "c", "d", "e", "f", "g", "x", "y"}
=============================================================================
