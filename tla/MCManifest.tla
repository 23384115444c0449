----------------------------- MODULE MCManifest -----------------------------
(* Manifests for TLC: dependencies in a cycle, on groups and optional ones,   *)
(* groups listed twice, described nowhere or in no section, and entries for   *)
(* some boards, for devices, for every board and for none of them.            *)
EXTENDS Manifest

CONSTANTS a, b, c, d, g, k, m, orin, nano, agx, pc, arm, f1, f2, f3

On(x) == [on |-> x, kind |-> "required"]
May(x) == [on |-> x, kind |-> "optional"]

For(series, files) ==
  [hosts |-> {pc}, series |-> series, devices |-> FALSE, excluded |-> {}, files |-> files]
Everywhere(files) == [For({}, files) EXCEPT !.hosts = {pc, arm}]
Devices(files) == [For({}, files) EXCEPT !.devices = TRUE]
Except(x, files) == [For({}, files) EXCEPT !.excluded = {x}]

\* Sections, a group as a dependency, a cycle, and a component two groups list.
Cyclic ==
  [sections |-> {<<g, 1>>, <<k, 2>>},
   listed |-> g :> {a, b} @@ k :> {b, c} @@ m :> {d},
   deps |-> a :> {On(k), May(d)} @@ b :> {} @@ c :> {On(a)} @@ d :> {On(b)},
   entries |-> a :> <<For({orin}, {f1}), For({nano}, {f2}), Everywhere({f3})>>
            @@ b :> <<For({orin, nano}, {f1, f2})>>
            @@ c :> <<For({orin}, {f1}), For({nano}, {f2})>>
            @@ d :> <<>>,
   boards |-> {orin, nano}, twin |-> FALSE]
\* No sections; boards play no role, except for one entry.
Flat ==
  [sections |-> {},
   listed |-> g :> {a, d} @@ m :> {b},
   deps |-> a :> {On(d), On(b)} @@ b :> {May(m), On(a)},
   entries |-> a :> <<Everywhere({f1}), Everywhere({f2})>>
            @@ b :> <<Devices({f1}), For({orin}, {f2})>>,
   boards |-> {}, twin |-> FALSE]
\* Entries that overlap, exclude a board, or have no files.
Scoped ==
  [sections |-> {<<g, 1>>, <<m, 1>>},
   listed |-> g :> {a, b} @@ k :> {a, d} @@ m :> {c, d},
   deps |-> a :> {May(k)} @@ b :> {On(d)} @@ c :> {May(a), On(b)} @@ d :> {On(c)},
   entries |-> a :> <<For({orin, nano}, {f1}), Everywhere({f2}), For({orin}, {f3})>>
            @@ b :> <<Except(orin, {f1}), Devices({f2})>>
            @@ c :> <<For({agx}, {f1})>>
            @@ d :> <<Everywhere({f1}), For({orin}, {})>>,
   boards |-> {orin, nano}, twin |-> FALSE]
\* Another file has the key of this release.
Twin == [Flat EXCEPT !.twin = TRUE]

Captures == {Cyclic, Flat, Scoped, Twin}
=============================================================================
