----------------------------- MODULE MCStreamLine -----------------------------
(* StreamLine for TLC: four bytes, a checksum for the CRC and three frames.  *)
EXTENDS StreamLine, Folds

ByteSum(s) == MapThenFoldSet(LAMBDA a, b : a + b, 0, LAMBDA i : s[i],
                             LAMBDA S : CHOOSE i \in S : TRUE, 1..Len(s)) % 4

MCByte == 0..3

\* The frames have no payload, the first magic byte as payload, and both magic
\* bytes as payload and CRC; the last one is not plain.
MCFrames == {<<3, 2, 1, 1, 0, 3>>, <<3, 2, 1, 2, 1, 3, 0>>, <<3, 2, 1, 0, 1, 3, 2>>}

=============================================================================
