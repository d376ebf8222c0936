----------------------------- MODULE MCDataBuild -----------------------------
(***************************************************************************)
(* Two builds and two calls. A candle a day, which close at 1, 3 and 5;    *)
(* the fourth day is not published.                                        *)
(***************************************************************************)
EXTENDS DataBuild, TLC

CONSTANTS c1, c2, b1, b2

MCCall == {c1, c2}
MCBuild == {b1, b2}
MCSymmetry == Permutations(MCCall) \cup Permutations(MCBuild)

W(clock, limit) == [clock |-> clock, interval |-> 2, limit |-> limit]

\* All candles, which just fit into the cache; the newest of them, at the same clock;
\* one within what the first has loaded.
MCWindow == {W(6, 3), W(6, 1), W(4, 1)}

MCInterval == {2}
MCFirstFile == {None, <<1, 3, 5>>}
MCArchive == [i \in MCInterval |-> <<<<1>>, <<3>>, <<5>>>>]

Days(first, last) == [interval |-> 2, first |-> first, last |-> last]

\* Three days; two of them and one that is not published; none.
MCStretch == {Days(1, 3), Days(2, 4), Days(2, 1)}
=============================================================================
