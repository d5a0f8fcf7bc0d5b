---------------------------- MODULE AssetDelivery ----------------------------
(***************************************************************************)
(* What the transfer layer of ShadowCast promises to the rest of the       *)
(* library, without chunks, links or hashes: peers offer blobs, and every  *)
(* call of onAssetComplete hands over a whole, unmixed copy of a blob that *)
(* some peer offered, under the asset the blob belongs to.  A delivery is  *)
(* never withdrawn.  The same asset may be delivered more than once.       *)
(***************************************************************************)
EXTENDS Naturals

CONSTANTS
  Blobs,          \* the contents peers hold
  Assets,         \* asset identifiers
  AssetOf,        \* the asset a blob is a version of
  TotalOf,        \* the number of chunks of a blob
  DeliveryIds     \* what tells two calls of onAssetComplete apart

VARIABLES
  offered,        \* the blobs peers have started to send
  delivered       \* the calls of onAssetComplete so far

dvars == <<offered, delivered>>

\* The chunks of a blob, in order.
Content(b) == [i \in 0..(TotalOf[b] - 1) |-> [blob |-> b, index |-> i]]

Init ==
  /\ offered = {}
  /\ delivered = {}

Offer(b) ==
  /\ offered' = offered \cup {b}
  /\ UNCHANGED delivered

Deliver(id, a) ==
  /\ \E b \in offered :
       /\ AssetOf[b] = a
       /\ delivered' = delivered \cup
            {[id |-> id, asset |-> a, parts |-> Content(b)]}
  /\ UNCHANGED offered

Next ==
  \/ \E b \in Blobs : Offer(b)
  \/ \E id \in DeliveryIds, a \in Assets : Deliver(id, a)

Spec == Init /\ [][Next]_dvars
==============================================================================
