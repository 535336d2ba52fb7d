------------------------------ MODULE MCLeadPool ------------------------------
(* Few leads and owners, for TLC.                                          *)
EXTENDS LeadPool, TLC

CONSTANTS l1, o1, o2, w1, w2

OneLead == {l1}
OneOwner == {o1}
LeadOwners == {o1, o2}
OneRequest == {w1}
TwoRequests == {w1, w2}
OneColumn == {"assign", "edit", "reassign"}

=============================================================================
