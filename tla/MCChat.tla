------------------------------- MODULE MCChat -------------------------------
(***************************************************************************)
(* Instances of Communication for TLC: the buyer, the vendor and another   *)
(* employee of the store, two calls at a time.                             *)
(***************************************************************************)
EXTENDS ChatInvariants, TLC

CONSTANTS buyer, vendor, employee, system, h1, h2

MCStaff == {vendor, employee}
MCHandlers == {h1, h2}
Symmetry == Permutations(MCHandlers)

AllOps ==
  {"sendMessage", "markMessageAsRead", "markConversationRead", "setConversationStatus",
   "setTyping", "joinConversation", "leaveConversation", "closeConversationForOrder",
   "reopenConversationForOrder", "postRefundMessage", "resolveRefundMessage"}

=============================================================================
