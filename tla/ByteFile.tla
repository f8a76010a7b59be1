------------------------------- MODULE ByteFile --------------------------------
(***************************************************************************)
(* What a file is to the programs that use it: a sequence of bytes, written *)
(* anywhere up to its end and cut at any length.                           *)
(***************************************************************************)
EXTENDS Naturals, Sequences

CONSTANTS Bytes, Data

VARIABLE file

Init == file = <<>>

Write == \E offset \in 0 .. Len(file), data \in Data :
    file' = [n \in 1 .. IF offset + Len(data) > Len(file) THEN offset + Len(data) ELSE Len(file) |->
                IF n \in offset + 1 .. offset + Len(data) THEN data[n - offset] ELSE file[n]]

Cut == \E n \in 0 .. Len(file) : file' = SubSeq(file, 1, n)

Next == Write \/ Cut

Spec == Init /\ [][Next]_file
=============================================================================
