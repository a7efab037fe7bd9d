-------------------------- MODULE BackgroundClaims --------------------------
(***************************************************************************)
(* A comment in background.ts that its code does not live up to; the       *)
(* README tells the story of the counterexample.                           *)
(***************************************************************************)
EXTENDS Background

(* docs/ARCHITECTURE.md:12, the primary invariant: "Do not expose spoofed  *)
(* JavaScript values unless the network-layer persona is confirmed ready." *)
(* A teardown takes the header rule and the PAC script away first and      *)
(* tells the tabs last, so it does not hold all the time.                  *)
JsOnlyWithNetwork == told # NoPersona => pac /\ dnr = told

(* background.ts:237-239: "Re-sync immediately or roll back JS/DNR/PAC     *)
(* state. Never leave spoofed JS with unmodified network headers."  A      *)
(* deactivation that overlaps an activation leaves just that, and the      *)
(* re-sync, which only posts to the proxy, never repairs it.               *)
JsWithoutNetworkRepaired == []<>JsOnlyWithNetwork
=============================================================================
