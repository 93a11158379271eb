----------------------------- MODULE MCAutoreload -----------------------------
(* Versions of two chunks and of one, in a chunk size of two: the first two    *)
(* versions have equal lengths, so that their chunks can be mistaken, and the  *)
(* third is as long as their first chunk.                                      *)
EXTENDS Autoreload
Bytes(lengths) == UNION {{n} \X (1 .. lengths[n]) : n \in DOMAIN lengths}
FourVersions == [v \in 0 .. 3 |-> Bytes(CASE v = 0 -> <<1>>
                                          [] v = 1 -> <<2, 1>>
                                          [] v = 2 -> <<2, 1>>
                                          [] v = 3 -> <<2>>)]
=============================================================================
