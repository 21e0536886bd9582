-------------------------------- MODULE MCGz --------------------------------
(* Files for TLC: members, empty members, text after the last one, a lone magic byte, *)
(* a method that is not known and a trailer that does not fit.                        *)
EXTENDS GzFile

Member(data) == Header \o data \o <<STREAM_END, TRAILER>>

SampleFiles == {Member(<<1, EOL, 2>>) \o Member(<<4>>),
                Member(<<1, 2>>) \o Member(<<>>) \o <<ID1, 5, EOL>>,
                Member(<<1>>) \o <<5>>, <<1, EOL, 2, 3, 4>>, <<ID1>>,
                <<ID1, ID2, 9, 1>>,
                Header \o <<1, 2, STREAM_END, BAD_TRAILER>>}
=============================================================================
