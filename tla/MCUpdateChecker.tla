-------------------------- MODULE MCUpdateChecker --------------------------
(* Lists of up to two releases around the game's version.                   *)
EXTENDS UpdateChecker

V(minor, tag) == [major |-> 1, minor |-> minor, patch |-> 0, tag |-> tag]

MCCurVersion == V(2, NoTag)

R(v, k, n, a) == [version |-> v, kind |-> k, noAuto |-> n, assets |-> a]

MCReleases ==
    { R(v, "candidate", FALSE, {"mine", "generic"}) :
          v \in {V(1, NoTag), V(2, 1), V(2, NoTag), V(3, NoTag)} } \cup
    { R(V(3, 1), "candidate", n, a) :
          n \in BOOLEAN, a \in {{}, {"generic", "other"}, {"generic", "malformed"},
                               {"mine", "other", "malformed"}} } \cup
    { R(V(4, NoTag), k, FALSE, {"mine"}) :
          k \in {"candidate", "draft", "badTag", "malformed"} }

MCPublished ==
    {<<>>} \cup {<<r>> : r \in MCReleases}
           \cup {<<r, s>> : r \in MCReleases, s \in MCReleases}
=============================================================================
