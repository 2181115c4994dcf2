---------------------------- MODULE GameVersion ----------------------------
(***************************************************************************)
(* The order of CGameVersion (shared/CGameVersion.cpp).  A prerelease tag  *)
(* stands for its place in the order of strcmp; build metadata takes no    *)
(* part in the comparison.                                                 *)
(***************************************************************************)
EXTENDS Integers

NoTag == -1

Version == [major : Nat, minor : Nat, patch : Nat, tag : Nat \cup {NoTag}]

binary_comparison(x, y) == IF x = y THEN 0 ELSE IF x > y THEN 1 ELSE -1

\* A version with a tag comes before the one without.
CompareTags(s, t) ==
    CASE s = NoTag /\ t # NoTag -> 1
      [] s # NoTag /\ t = NoTag -> -1
      [] OTHER -> binary_comparison(s, t)

Compare(v, w) ==
    IF v.major # w.major THEN binary_comparison(v.major, w.major)
    ELSE IF v.minor # w.minor THEN binary_comparison(v.minor, w.minor)
    ELSE IF v.patch # w.patch THEN binary_comparison(v.patch, w.patch)
    ELSE CompareTags(v.tag, w.tag)

\* The operators > and <= of the class.
Newer(v, w) == Compare(v, w) = 1

NotNewer(v, w) == Compare(v, w) # 1
=============================================================================
