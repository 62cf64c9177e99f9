----------------------------- MODULE MC_BodyTee ------------------------------
(* Instance of BodyTee: every body of up to five bytes over two values.      *)
EXTENDS BodyTee

MCBodies == UNION {[1..n -> Byte] : n \in 0..5}
=============================================================================
