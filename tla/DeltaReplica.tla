---------------------------- MODULE DeltaReplica ----------------------------
(***************************************************************************)
(* What a delta synchroniser promises, whatever it does to keep it: a copy *)
(* of a source that is read through feeds, and for every feed a cursor, up *)
(* to which the copy has all the feed's changes, but for the versions that *)
(* an answer was lost for before the cursor reached them.  Pages, links    *)
(* that expire or that are resumed, failures and crashes are the business  *)
(* of the module that implements this one.                                 *)
(***************************************************************************)
EXTENDS Naturals

CONSTANTS
    Keys,      \* what is replicated
    Feeds,     \* through which the source is read
    Outside    \* the place of what no feed shows

VARIABLES
    clock,     \* number of the last change of the source
    source,    \* key -> its feed and the number of its last change
    copy,      \* key -> the same, as stored, and whether all of it is there
    spoilt,    \* key -> its version last read with an answer lost, or 0
    cursor     \* feed -> the change up to which it has been read

vars == <<clock, source, copy, spoilt, cursor>>

Places == Feeds \cup {Outside}

Init ==
    /\ clock = 1
    /\ source \in [Keys -> [feed : Places, ver : {1}, whole : {TRUE}]]
    /\ copy = [k \in Keys |-> [feed |-> Outside, ver |-> 0, whole |-> TRUE]]
    /\ spoilt = [k \in Keys |-> 0]
    /\ cursor = [f \in Feeds |-> 0]

\* The cursor of its feed is past the last change of k.
Passed(k) == source[k].feed \in Feeds /\ source[k].ver <= cursor[source[k].feed]

\* No answer was lost for the present version of k.
Intact(k) == spoilt[k] # source[k].ver

-----------------------------------------------------------------------------
\* A key appears in a feed, changes, moves to another feed or leaves all of them.
Change(k, g) ==
    /\ clock' = clock + 1
    /\ source' = [source EXCEPT ![k] =
                    [feed |-> g, ver |-> clock + 1, whole |-> TRUE]]
    /\ UNCHANGED <<copy, spoilt, cursor>>

\* Time passes at the source.
Pass ==
    /\ clock' = clock + 1
    /\ UNCHANGED <<source, copy, spoilt, cursor>>

\* A version that is not older is stored, and clears the record of a lost answer
\* only if all of it is.  What a cursor promises is not touched.
Store(k) ==
    /\ \E g \in Places, n \in copy[k].ver .. clock, whole \in BOOLEAN :
         LET stored == [feed |-> g, ver |-> n, whole |-> whole] IN
         /\ copy' = [copy EXCEPT ![k] = stored]
         /\ \/ /\ spoilt' = [spoilt EXCEPT ![k] = 0]
               /\ whole
               /\ Passed(k) => stored = source[k]
            \/ /\ UNCHANGED spoilt
               /\ Passed(k) /\ Intact(k) => stored = source[k]
    /\ UNCHANGED <<clock, source, cursor>>

\* A version that no cursor is past is read with an answer lost: the copy stays,
\* or gets the version without all of it.
Spoil(k) ==
    /\ ~Passed(k)
    /\ \E n \in copy[k].ver .. clock :
         /\ spoilt' = [spoilt EXCEPT ![k] = n]
         /\ \/ UNCHANGED copy
            \/ \E g \in Feeds :
                 copy' = [copy EXCEPT ![k] = [feed |-> g, ver |-> n, whole |-> FALSE]]
    /\ UNCHANGED <<clock, source, cursor>>

\* The cursor of f moves to n: all the changes up to n are stored, but for those
\* that were spoilt.
Commit(f, n) ==
    /\ \A k \in Keys :
         source[k].feed = f /\ source[k].ver <= n /\ Intact(k) => copy[k] = source[k]
    /\ cursor' = [cursor EXCEPT ![f] = n]
    /\ UNCHANGED <<clock, source, copy, spoilt>>

\* The feeds of F have to be read from the beginning.
Forget(F) ==
    /\ cursor' = [f \in Feeds |-> IF f \in F THEN 0 ELSE cursor[f]]
    /\ UNCHANGED <<clock, source, copy, spoilt>>

Next ==
    \/ \E k \in Keys, g \in Places : Change(k, g)
    \/ Pass
    \/ \E k \in Keys : Store(k) \/ Spoil(k)
    \/ \E f \in Feeds, n \in 0 .. clock : Commit(f, n)
    \/ \E F \in SUBSET Feeds : Forget(F)

Spec == Init /\ [][Next]_vars

=============================================================================
