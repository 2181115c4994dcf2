--------------------------- MODULE MCMapEntities ---------------------------
(* Small maps for TLC, each with the wiring of a common contraption. *)
EXTENDS MapEntities, TLC

CONSTANTS b1, b2, d1, d2, s1, m1, c1, t1

All == {b1, b2, d1, d2, s1, m1, c1, t1}
Nothing == [e \in All |-> NoName]
NoFlags == [e \in All |-> {}]
NoFires == [m \in {m1} |-> <<>>]

\* The entities of a map, numbered in this order.
Edicts(es) == [e \in Range(es) |-> CHOOSE i \in DOMAIN es : es[i] = e]

\* Two buttons that have to be pushed together open a pair of doors, one of which starts open; the doors toggle.
\* A trigger uses the multisource once, after a delay.
Airlock ==
  [edict |-> Edicts(<<t1, b1, b2, s1, d1, d2>>),
   name |-> s1 :> "src" @@ d1 :> "door" @@ d2 :> "door" @@ Nothing,
   target |-> t1 :> "src" @@ b1 :> "src" @@ b2 :> "src" @@ s1 :> "door" @@ Nothing,
   kill |-> Nothing, close |-> Nothing, master |-> Nothing, fires |-> NoFires,
   flags |-> t1 :> {"delay"} @@ b2 :> {"stay", "touchOnly"} @@ d1 :> {"noReturn"} @@ d2 :> {"noReturn", "startOpen", "silent"} @@ NoFlags]

\* A trigger starts a manager, which opens a pair of doors twice; the doors that close count down to a removal.
Lift ==
  [edict |-> Edicts(<<t1, m1, d1, d2, c1>>),
   name |-> m1 :> "mm" @@ d1 :> "door" @@ d2 :> "door" @@ c1 :> "count" @@ Nothing,
   target |-> t1 :> "mm" @@ d1 :> "count" @@ Nothing,
   kill |-> c1 :> "door" @@ Nothing, close |-> d2 :> "mm" @@ Nothing, master |-> Nothing,
   fires |-> [m \in {m1} |-> <<"door", "door", "mm">>],
   flags |-> t1 :> {"wait"} @@ NoFlags]

\* A threaded manager and a button drive the same multisource, which counts and locks the counter; the
\* button may remove the manager and its clones.
Threads(removes) ==
  [edict |-> Edicts(<<t1, m1, b1, s1, c1>>),
   name |-> m1 :> "mm" @@ s1 :> "src" @@ c1 :> "count" @@ Nothing,
   target |-> t1 :> "mm" @@ b1 :> "src" @@ s1 :> "count" @@ Nothing,
   kill |-> b1 :> removes @@ Nothing, close |-> Nothing, master |-> c1 :> "src" @@ Nothing,
   fires |-> [m \in {m1} |-> <<"src">>],
   flags |-> m1 :> {"thread"} @@ t1 :> {"wait"} @@ b1 :> {"toggle", "touchOnly"} @@ NoFlags]

\* A button locked by a multisource, with a delay; the other one removes the multisource; a trigger fires once.
Lock ==
  [edict |-> Edicts(<<b1, b2, s1, t1, d1>>),
   name |-> s1 :> "src" @@ d1 :> "door" @@ Nothing,
   target |-> b1 :> "door" @@ b2 :> "src" @@ t1 :> "door" @@ Nothing,
   kill |-> t1 :> "src" @@ Nothing, close |-> Nothing, master |-> b1 :> "src" @@ Nothing, fires |-> NoFires,
   flags |-> b1 :> {"delay", "touchOnly", "health"} @@ d1 :> {"stay", "useOnly"} @@ NoFlags]

\* A door that opens when it is touched, and counts how often it hit its ends; it toggles, or closes by itself.
Hall(door) ==
  [edict |-> Edicts(<<d1, c1, s1>>),
   name |-> c1 :> "count" @@ s1 :> "src" @@ Nothing,
   target |-> d1 :> "count" @@ c1 :> "src" @@ Nothing,
   kill |-> Nothing, close |-> d1 :> "src" @@ Nothing, master |-> Nothing, fires |-> NoFires,
   flags |-> d1 :> door @@ NoFlags]

MCMaps == {Airlock, Lift, Threads(NoName), Threads("mm"), Lock, Hall({}), Hall({"noReturn"}), Hall({"useOnly"})}

=============================================================================
