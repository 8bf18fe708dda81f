------------------------------ MODULE Delivery ------------------------------
(***************************************************************************)
(* What a buffering layer promises the pipeline above it and the dataset   *)
(* below it, without windows, passes or segments: a record that was taken  *)
(* into custody leaves it only after the destination has it.  Delivery is  *)
(* at least once: a delivered record may stay in custody and be delivered  *)
(* again.                                                                  *)
(***************************************************************************)
CONSTANTS
    Records,
    Volatile   \* custody is in memory and dies with the process

VARIABLES
    custody,   \* records the layer answers for
    delivered  \* records the destination has

deliveryVars == <<custody, delivered>>

DeliveryInit ==
    /\ custody = {}
    /\ delivered = {}

(* New records are taken over, also those of an append that later fails.   *)
Accept ==
    /\ custody' \in SUBSET Records
    /\ custody \subseteq custody'
    /\ UNCHANGED delivered

(* The destination gets records that are in custody.                       *)
Deliver ==
    /\ delivered' \in SUBSET Records
    /\ delivered \subseteq delivered'
    /\ delivered' \ delivered \subseteq custody
    /\ UNCHANGED custody

(* Custody ends for delivered records only.                                *)
Release ==
    /\ custody' \subseteq custody
    /\ custody \ custody' \subseteq delivered
    /\ UNCHANGED delivered

Lose ==
    /\ Volatile
    /\ custody' = {}
    /\ UNCHANGED delivered

DeliveryNext == Accept \/ Deliver \/ Release \/ Lose

DeliverySpec == DeliveryInit /\ [][DeliveryNext]_deliveryVars
=============================================================================
