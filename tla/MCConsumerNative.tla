-------------------------- MODULE MCConsumerNative --------------------------
(* Instances of ConsumerNative for TLC.                                    *)
EXTENDS ConsumerNative, TLC

CallSymmetry == Permutations(Calls)
=============================================================================
