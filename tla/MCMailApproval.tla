--------------------------- MODULE MCMailApproval ---------------------------
(* Instances of MailApproval for TLC. *)
EXTENDS MailApproval, TLC

\* Ids and texts are only compared for equality: permuting them is sound for
\* the runs that check no liveness property.
Symmetry ==
  Permutations(Approvals) \cup Permutations(Drafts) \cup
  Permutations(Contents) \cup Permutations(Calls)
=============================================================================
