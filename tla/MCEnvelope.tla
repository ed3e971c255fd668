----------------------------- MODULE MCEnvelope -----------------------------
(***************************************************************************)
(* Model checking of Envelope: bytes of five values, domains of at most    *)
(* two, dates of two or three bytes and signatures of one unit.            *)
(***************************************************************************)
EXTENDS Envelope

\* Blank, holding the terminator, of the longest length, and one too long.
DomainsConsidered == {<<2>>, <<1, 0>>, <<1>>, <<3, 1>>, <<1, 1, 1>>}

PayloadsConsidered == {<< >>, <<0, 4>>}

\* In the minute before the base date, inside a minute, and the last minute.
ClocksConsidered == {-2, -1, 3, 249, 250}
=============================================================================
