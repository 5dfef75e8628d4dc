----------------------------- MODULE MCAccounts -----------------------------
(* Instances of Accounts for TLC. *)
EXTENDS Accounts, TLC

\* One user confirms the address or changes it, one request after the other; or
\* requests overlap; or other users come and take addresses.
MCOpSets == {{"verify", "sign_in"}, {"verify", "change", "overlap"}, {"change", "resend"},
             {"change", "resend", "overlap"}, {"change", "others"}, {"verify", "others"}}
Symmetric == Permutations(Requests) \cup Permutations(Emails)
=============================================================================
