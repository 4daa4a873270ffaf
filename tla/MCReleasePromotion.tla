------------------------- MODULE MCReleasePromotion -------------------------
(* Two images of each service; "b" changes all of them, "c" only the backend,
   and "d" is another manifest with the images of "a". *)
EXTENDS ReleasePromotion

MCReleases == {"a", "b", "c", "d"}
MCManifest ==
  [m \in MCReleases |->
     [s \in Services |-> IF m = "b" \/ (m = "c" /\ s = "backend") THEN 2 ELSE 1]]
=============================================================================
