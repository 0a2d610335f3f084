-------------------------- MODULE MCProducerNative --------------------------
(* Instances of ProducerNative for TLC.                                    *)
EXTENDS ProducerNative, TLC

SendSymmetry == Permutations(Sends)
=============================================================================
