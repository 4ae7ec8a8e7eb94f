------------------------------ MODULE MCTermApi ------------------------------
(* A screen of three columns and two rows.                                  *)
EXTENDS TermApi

MCGlyphs == {" ", "a", "b"}
MCTexts == {<<>>, <<"a", "b">>, <<"b", "a", "b">>}
MCBlits == {<< <<"a", "b">>, << <<1, 0>>, <<0, 1>> >> >>}
MCPlaces == {<<-2, 0>>, <<-1, 1>>, <<1, 0>>, <<2, 1>>, <<3, 1>>, <<0, -1>>, <<0, 2>>}
MCLines == {-3, -2, -1, 0, 1, 3}
\* 2^16 is no color: its logarithm has one bit too many.
MCColorArgs == {0, 2, 65536}
MCLevels == {0, 1, 4}
=============================================================================
