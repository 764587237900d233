------------------------------ MODULE MCDelivery ------------------------------
(***************************************************************************)
(* Instances of Delivery for TLC.                                          *)
(***************************************************************************)
EXTENDS DeliveryInvariant, DeliveryStreams

(***************************************************************************)
(* The histories the passing runs use meet the condition of the proofs.    *)
(***************************************************************************)
ASSUME SpacedHistories ==
  Stream \in {SerialStream, MixedStream, CompressionStream, MarkerStream, LongStream} => Spaced
===============================================================================
