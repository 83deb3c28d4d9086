---------------------------- MODULE MCHexDigest -----------------------------
(* An instance of HexDigest for TLC.                                        *)
EXTENDS HexDigest

\* Where the sign, the number of digits or a digit's carry changes.
EdgeBytes == {-128, -127, -16, -15, -1, 0, 1, 15, 16, 17, 127}
=============================================================================
