----------------------------- MODULE MCDelivery ------------------------------
(* Delivery on small instances: the first life says two things, the second  *)
(* says the second of them again, twice.                                    *)
EXTENDS Delivery, TLC

MCSays == [m \in [life : 0..MaxRestarts, seq : 1..MaxSeq] |->
             IF m.life = 0 /\ m.seq = 1 THEN "begun" ELSE "done"]
=============================================================================
