----------------------------- MODULE MCFindings -----------------------------
(* Sentences s1 to s8; s9 is an id no document has.  Chunks of two, waves of three calls, two runs: *)
(* the corpora are empty, of two, four and six calls, without an answer, with too many chunks, *)
(* with too many sentences. *)
EXTENDS Findings

MCIds == {"s1", "s2", "s3", "s4", "s5", "s6", "s7", "s8", "s9"}
Corpus(n) == SubSeq(<<"s1", "s2", "s3", "s4", "s5", "s6", "s7", "s8">>, 1, n)
MCCorpora == {Corpus(n) : n \in {0, 2, 3, 5, 7, 8}} \cup {<<"s4", "s5", "s6">>}
MCKeeps == {{"s1", "s3"}, {"s4"}}
MCAnswers == {{<<"s1", 1>>, <<"s3", 2>>}, {<<"s1", 3>>, <<"s3", 3>>, <<"s9", 3>>}}
=============================================================================
