---------------------------- MODULE MCLeadConversion ----------------------------
(* LeadConversion for TLC: messages, handlers and staff requests are          *)
(* interchangeable.                                                           *)
EXTENDS LeadConversion, TLC

Symmetry == Permutations(Message) \cup Permutations(Handler)
=============================================================================
