------------------------------- MODULE MCRecall -------------------------------
(* Model-checking instances of Recall.                                      *)
EXTENDS Recall, TLC

CONSTANTS a, b, c, d, e

\* Two slices fill the character budget exactly; the third alone is over it.
MCLength == (1 :> 3000) @@ (2 :> 3000) @@ (3 :> 6500)
MCLineLength == [s \in SliceIds |-> MCLength[s] + 50]

\* A cycle of three nodes and a path from it, shared out among the slices.
\* Every answer names all nodes: which concepts there are does not matter here.
MCGraphs ==
  {[nodes |-> {a, b, c, d, e}, edges |-> E] :
     E \in {{<<a, b>>}, {<<c, b>>, <<a, c>>}, {<<c, d>>, <<d, e>>}}}

Prompt(prefix, window, ratio) ==
  [prefix |-> prefix, fixed |-> 40, window |-> window, ratio |-> ratio]

Near(x, y, z) == (1 :> x) @@ (2 :> y) @@ (3 :> z)

Turn(near, p) == [near |-> near, k |-> 2, hops |-> 2, prompt |-> p]
Search(near, k, hops) == [near |-> near, k |-> k, hops |-> hops, prompt |-> None]

\* Turns whose prompt fits, at times without some slices, or with one but not with
\* the text for none, or never, or for which nothing is left of the window; searches
\* with the least and the greatest k and hops.  Equal and different distances.
MCRequests ==
  {Turn(Near(40, 40, 70), Prompt(16000, 8192, 25)),
   Turn(Near(40, 40, 70), Prompt(17360, 8192, 25)),
   Turn(Near(20, 70, 20), Prompt(400, 2000, 100)),
   Turn(Near(20, 70, 20), Prompt(400, 8192, None)),
   Turn(Near(20, 70, 20), Prompt(24000, None, 0)),
   Search(Near(30, 10, 60), 1, 1),
   Search(Near(30, 10, 60), 9, 0),
   Search(Near(30, 10, 60), -1, 2)}

\* A turn with a ratio the design allows.
RatioRequests == {Turn(Near(70, 1, 1), Prompt(1200, 128000, 70))}
=============================================================================
