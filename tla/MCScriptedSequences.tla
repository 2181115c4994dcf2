------------------------ MODULE MCScriptedSequences ------------------------
(* Small maps of scripts for TLC. *)
EXTENDS ScriptedSequences, TLC

CONSTANTS a, b, c1, c2, c3

\* One monster walks, another waits for it; then the first one is taken over by a script without an animation.
Meeting ==
  [name |-> c1 :> "g" @@ c2 :> "g" @@ c3 :> "h",
   entity |-> c1 :> {a} @@ c2 :> {b} @@ c3 :> {a},
   target |-> c1 :> "h" @@ c2 :> NoName @@ c3 :> NoName,
   flags |-> c1 :> {"walk"} @@ c2 :> {"repeatable"} @@ c3 :> {"empty"}]

\* A monster that plays its idle animation from the start, a script of the same name whose monster does not exist, and
\* one that takes any monster over in any state.
Guard ==
  [name |-> c1 :> "g" @@ c2 :> "g" @@ c3 :> "h",
   entity |-> c1 :> {a} @@ c2 :> {} @@ c3 :> {a, b},
   target |-> c1 :> NoName @@ c2 :> NoName @@ c3 :> "g",
   flags |-> c1 :> {"idle", "walk"} @@ c2 :> {} @@ c3 :> {"override", "walk"}]

\* Two walkers of a name, and a script without a name that begins with the map and uses them.
Parade ==
  [name |-> c1 :> "g" @@ c2 :> "g" @@ c3 :> NoName,
   entity |-> c1 :> {a} @@ c2 :> {b} @@ c3 :> {a},
   target |-> c1 :> NoName @@ c2 :> NoName @@ c3 :> "g",
   flags |-> c1 :> {"walk", "repeatable"} @@ c2 :> {"walk"} @@ c3 :> {}]

\* The first map, with a script that moves the monster it takes over to its place at once.
Ambush == [Meeting EXCEPT !.flags[c3] = {"empty", "teleport"}]

MCMaps == {Meeting, Guard, Parade, Ambush}

=============================================================================
