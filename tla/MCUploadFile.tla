---------------------------- MODULE MCUploadFile ----------------------------
(* Chunks of two bytes, and messages that hash two bytes. *)
EXTENDS UploadFile

\* A short last chunk, an empty one after two full ones, and nothing else but an empty one.
AnySizes == [a \in Attempts |-> CASE a = 1 -> 3 [] a = 2 -> 4 [] OTHER -> 0]

\* The last chunk of every file is not full.
UnevenSizes == [a \in Attempts |-> CASE a = 1 -> 3 [] a = 2 -> 5 [] OTHER -> 0]

\* A short last chunk, and none: the command sends an empty one after full chunks.
MixedSizes == [a \in Attempts |-> IF a = 1 THEN 3 ELSE 2]
=============================================================================
