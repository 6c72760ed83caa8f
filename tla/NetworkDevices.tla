---------------------------- MODULE NetworkDevices ----------------------------
(***************************************************************************)
(* What the two halves of FriishProduce's network window have in common,    *)
(* its discovery (Discovery) and its handlers (NetworkExtraction): the      *)
(* devices on the network, told by their addresses, and a bound.            *)
(***************************************************************************)
EXTENDS Integers

CONSTANTS Devices,
          MaxClicks     \* bound: what the user clicks on in either half

ASSUME ClicksAssumption == MaxClicks \in Nat
=============================================================================
