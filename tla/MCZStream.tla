----------------------------- MODULE MCZStream -----------------------------
(***************************************************************************)
(* Jobs for ZStream: inputs long enough that the window slides.             *)
(***************************************************************************)
EXTENDS ZStream

\* Two bytes, with matches of all lengths near and far; and long runs.
Mixed == <<0, 1, 1, 0, 1, 0, 0, 1, 1, 1, 0, 1, 0, 0, 0, 1, 1, 0, 0, 1, 0, 1, 1, 0, 1, 0, 0, 1, 1, 1>>
Runs == [k \in 1..30 |-> IF k \in {9, 20, 21} THEN 1 ELSE 0]

Job(data, preset, level, strategy) == [input |-> data, dict |-> preset, level |-> level, strategy |-> strategy]

SampleJobs == {Job(Mixed, <<>>, level, "default") : level \in {0, 1, 6}}
              \cup {Job(Runs, <<>>, 6, strategy) : strategy \in {"default", "rle", "huffman"}}
              \cup {Job(Mixed, <<1, 1, 0, 1, 0, 1>>, 6, "default")}

SampleSetups == {<<0, "default">>, <<1, "default">>, <<6, "default">>, <<6, "rle">>}
SampleReaders == {<<1, 40, Z_NO_FLUSH, 0>>, <<40, 2, Z_BLOCK, 0>>, <<8, 7, Z_NO_FLUSH, 1>>}
=============================================================================
