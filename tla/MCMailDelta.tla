----------------------------- MODULE MCMailDelta -----------------------------
(* MailDelta on small instances: model values and the symmetry of messages.  *)
EXTENDS MailDelta, TLC

CONSTANTS m1, m2, inbox, archive, d1, c1

OneMessage == {m1}
TwoMessages == {m1, m2}
OneFolder == {inbox}
TwoFolders == {inbox, archive}
OneCli == {c1}
OneDaemon == {d1}
Nobody == {}
\* A message that matches by its headers and has attachments, and one that does
\* not match; one that takes no lookup.
Matching == [match |-> TRUE, asks |-> Lookups]
OnlyMatching == {Matching}
EitherMatch == {Matching, [match |-> FALSE, asks |-> {}]}
NoLookups == {[match |-> TRUE, asks |-> {}]}
OnlyExpiry == {"expire"}
NoFault == {}

MessageSymmetry == Permutations(Messages)
=============================================================================
