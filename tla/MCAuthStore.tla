----------------------------- MODULE MCAuthStore -----------------------------
(* Instances of AuthStore for TLC. *)
EXTENDS AuthStore, TLC
LOCAL INSTANCE SequencesExt

AllOps == Operations
RenameOps == {"sign_up", "change_email"}

(* Ids are fresh, so that users may as well sign up in the order of their  *)
(* names: what a symmetry of users would say, at less cost.                *)
Signed == SetToSeq(Users)
SignedInOrder == \A i \in DOMAIN created : created[i] = Signed[i]

Symmetry == Permutations(Tokens) \cup Permutations(Emails) \cup Permutations(Requests)
=============================================================================
