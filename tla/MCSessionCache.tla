--------------------------- MODULE MCSessionCache ---------------------------
(* Bounded instances of SessionCache. *)
EXTENDS SessionCache, TLC

CONSTANTS t1, t2, o1, o2, o3, i1, i2, i3

TwoThreads == {t1, t2}
OneClient == {t1}
ThreeSessions == {o1, o2, o3}
ThreeIds == {i1, i2, i3}

\* One that evicts, in front of an external cache; one that evicts and to which the
\* application adds sessions; one that holds every session.
Small == [size |-> 1, external |-> FALSE, offers |-> FALSE]
SmallAndLarge == {[Small EXCEPT !.external = TRUE], [Small EXCEPT !.offers = TRUE],
                  [Small EXCEPT !.size = 3]}

\* Only the first.
OneSmall == {Small}

\* Objects and ids are only compared.
Interchangeable == Permutations(ThreeSessions) \cup Permutations(ThreeIds)
=============================================================================
