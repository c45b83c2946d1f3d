----------------------------- MODULE MCHubViews -----------------------------
(* HubViews for TLC.                                                        *)
EXTENDS HubViews, TLC

\* Nothing is claimed of a stream that overflowed, and one that did changes
\* nothing for the others: runs go no further than the first overflow.
NoOverflowYet == \A s \in Subs : ~filled[s]

Interchangeable == Permutations(Codes) \cup Permutations(Peers) \cup Permutations(Subs)
=============================================================================
