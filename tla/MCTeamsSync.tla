----------------------------- MODULE MCTeamsSync -----------------------------
(* TeamsSync on small instances: one thread of two messages and one of one, in *)
(* a channel or in two of them, or chats.                                      *)
EXTENDS TeamsSync, TLC

CONSTANTS a, b, c, t1, c1, c2, c3, s1, s2, f1

Nobody == {}
OneTeam == {t1}
NoTeam == {}
OneContainer == {c1}
TwoContainers == {c1, c2}
NoContainer == {}
OneSyncer == {s1}
TwoSyncers == {s1, s2}
OneFetcher == {f1}
ThreeMessages == {a, b, c}
TwoMessages == {a, b}
OneMessage == {a}

TeamT1 == [x \in Channels |-> t1]
InC1 == [m \in Messages |-> c1]
\* A container for each message.
Apart == [m \in Messages |-> IF m = a THEN c1 ELSE c2]
\* b is a reply to a.
OneReply == [m \in Messages |-> IF m = b THEN a ELSE m]
NoReply == [m \in Messages |-> m]

\* A thread in c1, a message of c2, nothing in c3.
ThreadAndOne == [m \in Messages |-> IF m = c THEN c2 ELSE c1]
TwoChats == {c2, c3}

Errors == {"error"}
ErrorsAndCrashes == {"error", "crash"}

SyncerSymmetry == Permutations(Syncers)
=============================================================================
