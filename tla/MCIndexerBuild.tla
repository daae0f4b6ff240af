--------------------------- MODULE MCIndexerBuild ---------------------------
(* Three buckets of one path: a range that abuts on one listed before it and  *)
(* begins below zero, and one that is empty and lies in another.              *)
EXTENDS IndexerBuild

CONSTANTS refusal, malformed, path

MCPath == <<path, path, path>>
MCLow  == <<5, 3, -1>>
MCHigh == <<5, 7, 3>>

MCAnswers == {refusal, {malformed}, {2, malformed}, {2, 5}}
=============================================================================
