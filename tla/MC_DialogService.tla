-------------------------- MODULE MC_DialogService --------------------------
\* Two users write to each other, one lists that dialog or another.
EXTENDS DialogService
CONSTANTS m1, m2, l1, i1, i2, u, v, w
MCTalk == (m1 :> {<<u, v>>}) @@ (m2 :> {<<v, u>>}) @@ (l1 :> {<<v, u>>, <<u, w>>})
==============================================================================
