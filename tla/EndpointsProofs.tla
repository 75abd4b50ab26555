--------------------------- MODULE EndpointsProofs --------------------------
(***************************************************************************)
(* Validation, mounting, exclusion and the pages agree on the endpoints,   *)
(* for every configuration, router and application.                        *)
(***************************************************************************)
EXTENDS Endpoints, TLAPS

-----------------------------------------------------------------------------
(* Sequences of anything *)

LEMMA AppendIsBelow ==
    ASSUME NEW S, NEW u \in Seq(S), NEW x \in S
    PROVE  /\ Append(u, x) \in Seq(S)
           /\ Len(Append(u, x)) = Len(u) + 1
           /\ Append(u, x)[Len(u) + 1] = x
           /\ Append(u, x) # u
  <1>1. /\ Append(u, x) \in Seq(S)
        /\ Len(Append(u, x)) = Len(u) + 1
        /\ Append(u, x)[Len(u) + 1] = x
    OBVIOUS
  <1> QED
    BY <1>1

LEMMA Concatenation ==
    ASSUME NEW S, NEW u \in Seq(S), NEW t \in Seq(S)
    PROVE  /\ u \o t \in Seq(S)
           /\ Len(u \o t) = Len(u) + Len(t)
           /\ \A i \in 1 .. Len(u) : (u \o t)[i] = u[i]
           /\ \A i \in 1 .. Len(t) : (u \o t)[i + Len(u)] = t[i]
  <1>1. u \o t \in Seq(S) /\ Len(u \o t) = Len(u) + Len(t)
    OBVIOUS
  <1>2. \A i \in 1 .. Len(u) : (u \o t)[i] = u[i]
    OBVIOUS
  <1>3. \A i \in 1 .. Len(t) : (u \o t)[i + Len(u)] = t[i]
    OBVIOUS
  <1> QED
    BY <1>1, <1>2, <1>3

LEMMA LongerIsBelow ==
    ASSUME NEW S, NEW u \in Seq(S), NEW t \in Seq(S), Len(t) > 1
    PROVE  IsStrictPrefix(Append(u, t[1]), u \o t)
  <1> DEFINE whole == u \o t
             first == Append(u, t[1])
  <1>0. t[1] \in S
    OBVIOUS
  <1>1. /\ whole \in Seq(S)
        /\ Len(whole) = Len(u) + Len(t)
        /\ \A i \in 1 .. Len(u) : whole[i] = u[i]
        /\ whole[Len(u) + 1] = t[1]
    <2>1. /\ u \o t \in Seq(S) /\ Len(u \o t) = Len(u) + Len(t)
          /\ \A i \in 1 .. Len(t) : (u \o t)[i + Len(u)] = t[i]
      BY Concatenation
    <2>2. \A i \in 1 .. Len(u) : (u \o t)[i] = u[i]
      BY Concatenation
    <2>3. (u \o t)[1 + Len(u)] = t[1] /\ 1 + Len(u) = Len(u) + 1
      BY <2>1
    <2> QED
      BY <2>1, <2>3, <2>2
  <1> HIDE DEF whole
  <1>2. /\ first \in Seq(S)
        /\ Len(first) = Len(u) + 1
        /\ \A i \in 1 .. Len(u) : first[i] = u[i]
        /\ first[Len(u) + 1] = t[1]
    BY <1>0
  <1> HIDE DEF first
  <1>3. \A i \in 1 .. Len(first) : first[i] = whole[i]
    <2>1. \A i \in 1 .. Len(first) : i \in 1 .. Len(u) \/ i = Len(u) + 1
      BY <1>2
    <2> QED
      BY <1>1, <1>2, <2>1
  <1>4. SubSeq(first, 1, Len(first)) = SubSeq(whole, 1, Len(first))
    <2>1. ASSUME NEW v \in Seq(S), Len(first) <= Len(v)
          PROVE  /\ SubSeq(v, 1, Len(first)) \in Seq(S)
                 /\ Len(SubSeq(v, 1, Len(first))) = Len(first)
                 /\ \A i \in 1 .. Len(first) : SubSeq(v, 1, Len(first))[i] = v[i]
      BY <1>2, <2>1
    <2> QED
      BY <1>1, <1>2, <1>3, <2>1
  <1>5. first # whole /\ Len(first) <= Len(whole)
    BY <1>1, <1>2
  <1> QED
    BY <1>4, <1>5 DEF IsStrictPrefix, IsPrefix, whole, first

LEMMA ThreeBelow ==
    ASSUME NEW S, NEW u \in Seq(S), NEW x \in S, NEW y \in S, NEW z \in S
    PROVE  /\ u \o <<x, y, z>> \in Seq(S)
           /\ Len(u \o <<x, y, z>>) = Len(u) + 3
           /\ (u \o <<x, y, z>>)[Len(u) + 3] = z
           /\ IsStrictPrefix(Append(u, x), u \o <<x, y, z>>)
  <1>1. ASSUME NEW t \in Seq(S), Len(t) = 3
        PROVE  /\ u \o t \in Seq(S)
               /\ Len(u \o t) = Len(u) + 3
               /\ (u \o t)[Len(u) + 3] = t[3]
               /\ IsStrictPrefix(Append(u, t[1]), u \o t)
    <2>1. /\ u \o t \in Seq(S) /\ Len(u \o t) = Len(u) + Len(t)
          /\ \A i \in 1 .. Len(t) : (u \o t)[i + Len(u)] = t[i]
      BY Concatenation
    <2>2. (u \o t)[3 + Len(u)] = t[3] /\ 3 + Len(u) = Len(u) + 3
      BY <1>1, <2>1
    <2>3. IsStrictPrefix(Append(u, t[1]), u \o t)
      <3>1. Len(t) > 1
        BY <1>1
      <3> QED
        BY <3>1, LongerIsBelow, Zenon
    <2> QED
      BY <1>1, <2>1, <2>2, <2>3
  <1>2. /\ <<x, y, z>> \in Seq(S) /\ Len(<<x, y, z>>) = 3
        /\ <<x, y, z>>[1] = x /\ <<x, y, z>>[3] = z
    OBVIOUS
  <1>3. IsStrictPrefix(Append(u, <<x, y, z>>[1]), u \o <<x, y, z>>)
    BY <1>1, <1>2, Zenon
  <1> QED
    BY <1>1, <1>2, <1>3

-----------------------------------------------------------------------------
(* Paths *)

LEMMA FileIsBelow ==
    ASSUME NEW ui \in Path, NEW x \in Segments
    PROVE  /\ Append(ui, x) \in Path
           /\ Len(Append(ui, x)) = Len(ui) + 1
           /\ Append(ui, x)[Len(ui) + 1] = x
           /\ Append(ui, x) # ui
  BY AppendIsBelow DEF Path

LEMMA LastIsThere ==
    ASSUME NEW ui \in Path, NEW x \in Segments
    PROVE  Len(ui) + 1 \in DOMAIN Append(ui, x)
  <1>1. ASSUME NEW u \in Path PROVE Len(u) \in Nat /\ DOMAIN u = 1 .. Len(u)
    BY <1>1 DEF Path
  <1> QED
    BY <1>1, FileIsBelow

LEMMA FilesDiffer ==
    ASSUME NEW ui \in Path, NEW x \in Segments, NEW y \in Segments, x # y
    PROVE  Append(ui, x) # Append(ui, y)
  BY FileIsBelow

LEMMA AssetIsBelow ==
    ASSUME NEW ui \in Path, NEW a \in Segments
    PROVE  /\ AssetPath(ui, a) \in Path
           /\ Len(AssetPath(ui, a)) = Len(ui) + 3
           /\ AssetPath(ui, a)[Len(ui) + 3] = a
           /\ Below(Append(ui, "assets"), AssetPath(ui, a))
  <1> "assets" \in Segments /\ "5.32.14" \in Segments
    BY EndpointsAssumption DEF Own
  <1> QED
    BY ThreeBelow DEF Path, AssetPath, Below

-----------------------------------------------------------------------------
(* The module's configuration is an accepted one, with its defaults. *)

\* What an enabled module has to be for its endpoints not to clash.
Resolved(c) ==
    /\ c \in Config
    /\ c.ui \in Path /\ c.spec \in Path
    /\ c.backURL
    /\ c.enabled =>
          /\ c.disableSpec => c.disableUI
          /\ "{$}" \notin {c.spec[i] : i \in DOMAIN c.spec}
          /\ ~c.disableUI /\ ~c.disableSpec =>
                /\ c.spec # c.ui
                /\ ~Below(Append(c.ui, "assets"), c.spec)
                /\ c.spec \notin {Append(c.ui, file) :
                                    file \in {"swagger-initializer.js", "theme.css", "theme.js"}}

LEMMA ValidIsResolved ==
    ASSUME NEW c \in Config, Valid(c)
    PROVE  Resolved(Effective(c))
  <1> DEFINE ui == IF c.ui = Unset THEN <<"docs">> ELSE c.ui
             spec == IF c.spec = Unset THEN Append(ui, "openapi.json") ELSE c.spec
  <1>0. "docs" \in Segments /\ "openapi.json" \in Segments
    BY EndpointsAssumption DEF Own, Files
  <1>1. ui \in Path
    BY <1>0 DEF Config, Path
  <1>2. spec \in Path
    BY <1>0, <1>1, FileIsBelow DEF Config
  <1>3. /\ Effective(c) \in Config
        /\ Effective(c).ui = ui /\ Effective(c).spec = spec /\ Effective(c).backURL
        /\ Effective(c).enabled = c.enabled
        /\ Effective(c).disableUI = c.disableUI /\ Effective(c).disableSpec = c.disableSpec
    BY <1>1, <1>2 DEF Config, Effective
  <1> HIDE DEF ui, spec
  <1>4. ASSUME c.enabled PROVE "{$}" \notin {spec[i] : i \in DOMAIN spec}
    BY <1>3, <1>4, EndpointsAssumption DEF Valid, Static
  <1>5. ASSUME c.enabled, ~c.disableUI, ~c.disableSpec
        PROVE  /\ spec # ui
               /\ ~Below(Append(ui, "assets"), spec)
               /\ spec \notin {Append(ui, file) :
                                 file \in {"swagger-initializer.js", "theme.css", "theme.js"}}
    BY <1>3, <1>5 DEF Valid, Collides
  <1>6. c.enabled => (c.disableSpec => c.disableUI)
    BY DEF Valid
  <1> QED
    BY <1>1, <1>2, <1>3, <1>4, <1>5, <1>6 DEF Resolved
-----------------------------------------------------------------------------
(* What Routes mounts *)

\* The files directly below the UI's path, and what each is mounted for.
FilePart == [file \in {"{$}", "swagger-initializer.js", "theme.css", "theme.js"} |->
               CASE file = "{$}" -> "redirect"
                 [] file = "swagger-initializer.js" -> "initializer"
                 [] file = "theme.css" -> "theme_css"
                 [] file = "theme.js" -> "theme_js"]

LEMMA FilePartIs ==
    /\ FilePart["{$}"] = "redirect"
    /\ FilePart["swagger-initializer.js"] = "initializer"
    /\ FilePart["theme.css"] = "theme_css"
    /\ FilePart["theme.js"] = "theme_js"
  BY DEF FilePart

IsPage(r, c) == r = Mount(c.ui, "ui")

IsFile(r, c) == \E file \in DOMAIN FilePart : r = Mount(Append(c.ui, file), FilePart[file])

IsAsset(r, c) == \E a \in Assets : r = Mount(AssetPath(c.ui, a), "asset")

IsSpec(r, c) == r = Mount(c.spec, "spec")

LEMMA MountedIs ==
    ASSUME NEW c, NEW r \in Mounted(c)
    PROVE  /\ c.enabled
           /\ \/ ~c.disableSpec /\ IsSpec(r, c)
              \/ ~c.disableUI /\ (IsPage(r, c) \/ IsFile(r, c) \/ IsAsset(r, c))
  <1>1. DOMAIN FilePart = {"{$}", "swagger-initializer.js", "theme.css", "theme.js"}
    BY DEF FilePart
  <1>2. c.enabled
    BY DEF Mounted
  <1>3. CASE ~c.disableSpec /\ r = Mount(c.spec, "spec")
    BY <1>2, <1>3 DEF IsSpec
  <1>4. CASE ~c.disableUI /\ r = Mount(c.ui, "ui")
    BY <1>2, <1>4 DEF IsPage
  <1>5. CASE ~c.disableUI /\ \E a \in Assets : r = Mount(AssetPath(c.ui, a), "asset")
    BY <1>2, <1>5 DEF IsAsset
  <1>6. CASE ~c.disableUI /\ \/ r = Mount(Append(c.ui, "{$}"), "redirect")
                             \/ r = Mount(Append(c.ui, "swagger-initializer.js"), "initializer")
                             \/ r = Mount(Append(c.ui, "theme.css"), "theme_css")
                             \/ r = Mount(Append(c.ui, "theme.js"), "theme_js")
    BY <1>1, <1>2, <1>6, FilePartIs DEF IsFile
  <1> QED
    BY <1>2, <1>3, <1>4, <1>5, <1>6 DEF Mounted

LEMMA MountHas ==
    ASSUME NEW p, NEW part
    PROVE  /\ Mount(p, part).method = "GET" /\ Mount(p, part).path = p
           /\ Mount(p, part).part = part /\ Mount(p, part).owner = "swagger"
  BY DEF Mount

LEMMA OwnSegments ==
    Assets \subseteq Segments /\ DOMAIN FilePart \subseteq Segments
  BY EndpointsAssumption DEF Own, Files, FilePart

LEMMA SameFile ==
    ASSUME NEW c, c.ui \in Path, NEW r, NEW s, IsFile(r, c), IsFile(s, c), r.path = s.path
    PROVE  r = s
  <1>1. PICK f \in DOMAIN FilePart : r = Mount(Append(c.ui, f), FilePart[f])
    BY DEF IsFile
  <1>2. PICK g \in DOMAIN FilePart : s = Mount(Append(c.ui, g), FilePart[g])
    BY DEF IsFile
  <1>3. Append(c.ui, f) = Append(c.ui, g)
    BY <1>1, <1>2 DEF Mount
  <1>4. f \in Segments /\ g \in Segments
    BY OwnSegments
  <1>5. f = g
    BY <1>3, <1>4, FilesDiffer
  <1> QED
    BY <1>1, <1>2, <1>5

LEMMA SameAsset ==
    ASSUME NEW c, c.ui \in Path, NEW r, NEW s, IsAsset(r, c), IsAsset(s, c), r.path = s.path
    PROVE  r = s
  <1>1. PICK a \in Assets : r = Mount(AssetPath(c.ui, a), "asset")
    BY DEF IsAsset
  <1>2. PICK b \in Assets : s = Mount(AssetPath(c.ui, b), "asset")
    BY DEF IsAsset
  <1>3. AssetPath(c.ui, a) = AssetPath(c.ui, b)
    BY <1>1, <1>2, MountHas
  <1>4. a \in Segments /\ b \in Segments
    BY OwnSegments
  <1>5. a = b
    BY <1>3, <1>4, AssetIsBelow
  <1> QED
    BY <1>1, <1>2, <1>5

\* The page, its files and its assets are told apart by the lengths of their paths.
LEMMA LengthTells ==
    ASSUME NEW c, c.ui \in Path, NEW r
    PROVE  /\ Len(c.ui) \in Nat
           /\ IsPage(r, c) => Len(r.path) = Len(c.ui)
           /\ IsFile(r, c) => Len(r.path) = Len(c.ui) + 1
           /\ IsAsset(r, c) => Len(r.path) = Len(c.ui) + 3
  <1>1. Len(c.ui) \in Nat
    BY DEF Path
  <1>2. ASSUME IsPage(r, c) PROVE Len(r.path) = Len(c.ui)
    <2>1. r.path = c.ui
      BY <1>2, MountHas DEF IsPage
    <2> QED
      BY <2>1
  <1>3. ASSUME IsFile(r, c) PROVE Len(r.path) = Len(c.ui) + 1
    <2>1. PICK f \in DOMAIN FilePart : r = Mount(Append(c.ui, f), FilePart[f])
      BY <1>3 DEF IsFile
    <2>2. r.path = Append(c.ui, f) /\ f \in Segments
      BY <2>1, MountHas, OwnSegments
    <2> QED
      BY <2>2, FileIsBelow
  <1>4. ASSUME IsAsset(r, c) PROVE Len(r.path) = Len(c.ui) + 3
    <2>1. PICK a \in Assets : r = Mount(AssetPath(c.ui, a), "asset")
      BY <1>4 DEF IsAsset
    <2>2. r.path = AssetPath(c.ui, a) /\ a \in Segments
      BY <2>1, MountHas, OwnSegments
    <2> QED
      BY <2>2, AssetIsBelow
  <1> QED
    BY <1>1, <1>2, <1>3, <1>4

LEMMA SpecIsApart ==
    ASSUME NEW c, Resolved(c), c.enabled, ~c.disableUI, ~c.disableSpec, NEW r,
           IsPage(r, c) \/ IsFile(r, c) \/ IsAsset(r, c)
    PROVE  r.path # c.spec
  <1>1. c.ui \in Path /\ c.spec \in Path
    BY DEF Resolved
  <1>2. CASE IsPage(r, c)
    <2>1. r.path = c.ui
      BY <1>2, MountHas DEF IsPage
    <2> QED
      BY <2>1 DEF Resolved
  <1>3. CASE IsFile(r, c)
    <2>1. PICK f \in DOMAIN FilePart : r = Mount(Append(c.ui, f), FilePart[f])
      BY <1>3 DEF IsFile
    <2>2. r.path = Append(c.ui, f) /\ f \in Segments
      <3>1. r.path = Append(c.ui, f)
        BY <2>1 DEF Mount
      <3> QED
        BY <3>1, OwnSegments
    <2>3. CASE f = "{$}"
      <3>1. /\ Append(c.ui, f) \in Path /\ Len(Append(c.ui, f)) = Len(c.ui) + 1
            /\ Append(c.ui, f)[Len(c.ui) + 1] = f
        BY <1>1, <2>2, FileIsBelow
      <3>2. Len(c.ui) + 1 \in DOMAIN Append(c.ui, f)
        BY <1>1, <2>2, LastIsThere
      <3>3. \E i \in DOMAIN r.path : r.path[i] = "{$}"
        BY <2>2, <2>3, <3>1, <3>2
      <3> QED
        BY <3>3 DEF Resolved
    <2>4. CASE f \in {"swagger-initializer.js", "theme.css", "theme.js"}
      BY <2>2, <2>4 DEF Resolved
    <2> QED
      BY <2>3, <2>4 DEF FilePart
  <1>4. CASE IsAsset(r, c)
    <2>1. PICK a \in Assets : r = Mount(AssetPath(c.ui, a), "asset")
      BY <1>4 DEF IsAsset
    <2>2. r.path = AssetPath(c.ui, a) /\ a \in Segments
      BY <2>1, MountHas, OwnSegments
    <2>3. Below(Append(c.ui, "assets"), r.path)
      BY <1>1, <2>2, AssetIsBelow
    <2> QED
      BY <2>3 DEF Resolved
  <1> QED
    BY <1>2, <1>3, <1>4

LEMMA MountedNeverClash ==
    ASSUME NEW c, Resolved(c), NEW r \in Mounted(c), NEW s \in Mounted(c), Clashes(r, s)
    PROVE  r = s
  <1>1. c.ui \in Path /\ r.path = s.path /\ c.enabled
    BY MountedIs DEF Resolved, Clashes
  <1>2. \A x \in {r, s} : \/ ~c.disableSpec /\ IsSpec(x, c)
                          \/ ~c.disableUI /\ (IsPage(x, c) \/ IsFile(x, c) \/ IsAsset(x, c))
    BY MountedIs
  <1>3. CASE IsSpec(r, c) /\ IsSpec(s, c)
    BY <1>3 DEF IsSpec
  <1>4. ASSUME NEW x \in {r, s}, NEW y \in {r, s},
               ~c.disableSpec, IsSpec(x, c),
               ~c.disableUI, IsPage(y, c) \/ IsFile(y, c) \/ IsAsset(y, c)
        PROVE  FALSE
    <2>1. x.path = c.spec
      BY <1>4, MountHas DEF IsSpec
    <2>2. y.path # c.spec
      BY <1>1, <1>4, SpecIsApart
    <2> QED
      BY <1>1, <2>1, <2>2
  <1>5. CASE \A x \in {r, s} : IsPage(x, c) \/ IsFile(x, c) \/ IsAsset(x, c)
    <2>1. \/ IsPage(r, c) /\ IsPage(s, c)
          \/ IsFile(r, c) /\ IsFile(s, c)
          \/ IsAsset(r, c) /\ IsAsset(s, c)
      BY <1>1, <1>5, LengthTells
    <2> QED
      BY <1>1, <2>1, SameFile, SameAsset DEF IsPage
  <1> QED
    BY <1>2, <1>3, <1>4, <1>5
-----------------------------------------------------------------------------
(* The inductive invariant *)

\* A router's table, which only a module and the application fill.
Filled(x) ==
    /\ \A r \in routes[x] :
          \/ r.part = "none" /\ r.owner = "app"
          \/ module # NoModule /\ r \in Owned(x, Mounted(module))
    /\ (\E r \in routes[x] : r.part # "none") => Owned(x, Mounted(module)) \subseteq routes[x]

EndpointsInv ==
    /\ module # NoModule => Resolved(module)
    /\ captured # NoRouter => captured \in Routers /\ module # NoModule
    /\ routes = [x \in Routers |-> routes[x]]
    /\ \A x \in Routers : Filled(x)

LEMMA OwnedIs ==
    ASSUME NEW x, NEW c, NEW r \in Owned(x, Mounted(c))
    PROVE  \E m \in Mounted(c) : /\ r.path = m.path /\ r.part = m.part /\ r.part # "none"
                                 /\ r.owner = IF x \in Naming THEN "swagger" ELSE "app"
  <1>1. PICK m \in Mounted(c) : r = IF x \in Naming THEN m ELSE [m EXCEPT !.owner = "app"]
    BY DEF Owned
  <1>2. PICK p, part : m = Mount(p, part) /\ part # "none"
    <2>1. IsSpec(m, c) \/ IsPage(m, c) \/ IsFile(m, c) \/ IsAsset(m, c)
      BY MountedIs
    <2>2. \A f \in DOMAIN FilePart : FilePart[f] # "none"
      BY FilePartIs DEF FilePart
    <2>3. CASE IsFile(m, c)
      BY <2>2, <2>3 DEF IsFile
    <2>4. CASE IsSpec(m, c) \/ IsPage(m, c) \/ IsAsset(m, c)
      BY <2>4 DEF IsSpec, IsPage, IsAsset
    <2> QED
      BY <2>1, <2>3, <2>4
  <1>3. /\ m.path = p /\ m.part = part /\ m.owner = "swagger"
        /\ [m EXCEPT !.owner = "app"].path = p /\ [m EXCEPT !.owner = "app"].part = part
        /\ [m EXCEPT !.owner = "app"].owner = "app"
    BY <1>2 DEF Mount
  <1> QED
    BY <1>1, <1>2, <1>3

LEMMA OwnedHas ==
    ASSUME NEW x, NEW c, NEW m \in Mounted(c)
    PROVE  \E r \in Owned(x, Mounted(c)) : r.path = m.path
  <1> DEFINE r == IF x \in Naming THEN m ELSE [m EXCEPT !.owner = "app"]
  <1>1. r \in Owned(x, Mounted(c))
    BY DEF Owned
  <1>2. PICK p, part : m = Mount(p, part)
    BY MountedIs DEF IsSpec, IsPage, IsFile, IsAsset
  <1>3. m.path = p /\ [m EXCEPT !.owner = "app"].path = p
    BY <1>2 DEF Mount
  <1> QED
    BY <1>1, <1>3

LEMMA InvInit ==
    EndpointsInit => EndpointsInv
  BY DEF EndpointsInit, EndpointsInv, Filled

LEMMA InvNew ==
    ASSUME EndpointsInv, NEW c \in Configs, New(c)
    PROVE  EndpointsInv'
  <1>1. module = NoModule /\ Valid(c) /\ module' = Effective(c)
        /\ captured' = captured /\ routes' = routes
    BY DEF New
  <1>2. c \in Config /\ Resolved(module')
    BY <1>1, EndpointsAssumption, ValidIsResolved
  <1>3. module' # NoModule
    BY <1>2, EndpointsAssumption DEF Resolved
  <1>4. ASSUME NEW x \in Routers PROVE Filled(x)'
    BY <1>1, <1>3 DEF EndpointsInv, Filled
  <1>5. captured' = NoRouter
    BY <1>1 DEF EndpointsInv
  <1>6. routes' = [x \in Routers |-> routes'[x]]
    BY <1>1 DEF EndpointsInv
  <1>7. (module # NoModule => Resolved(module))'
    BY <1>2 DEF Resolved
  <1> QED
    BY <1>4, <1>5, <1>6, <1>7 DEF EndpointsInv

LEMMA InvRegisterEndpoints ==
    ASSUME EndpointsInv, NEW x \in Routers, RegisterEndpoints(x)
    PROVE  EndpointsInv'
  <1> DEFINE added == Owned(x, Mounted(module))
  <1>1. /\ module # NoModule /\ module' = module /\ captured' = x
        /\ routes' = [routes EXCEPT ![x] = @ \cup added]
    BY DEF RegisterEndpoints
  <1> HIDE DEF added
  <1>2. routes' = [y \in Routers |-> IF y = x THEN routes[x] \cup added ELSE routes[y]]
    BY <1>1 DEF EndpointsInv
  <1>3. routes' = [y \in Routers |-> routes'[y]]
    BY <1>2
  <1>4. ASSUME NEW y \in Routers, y # x PROVE Filled(y)'
    <2>1. routes'[y] = routes[y] /\ Filled(y)
      BY <1>2, <1>4 DEF EndpointsInv
    <2> QED
      BY <1>1, <2>1 DEF Filled
  <1>5. Filled(x)'
    <2>1. routes'[x] = routes[x] \cup added /\ Filled(x)
      BY <1>2 DEF EndpointsInv
    <2>2. \A r \in routes'[x] : \/ r.part = "none" /\ r.owner = "app"
                                \/ r \in added
      BY <2>1 DEF Filled, added
    <2>3. added \subseteq routes'[x]
      BY <2>1
    <2> QED
      BY <1>1, <2>2, <2>3 DEF Filled, added
  <1>6. (module # NoModule => Resolved(module))'
    BY <1>1 DEF EndpointsInv, Resolved
  <1> QED
    BY <1>1, <1>3, <1>4, <1>5, <1>6 DEF EndpointsInv

LEMMA InvRegisterRoute ==
    ASSUME EndpointsInv, NEW x \in Routers, NEW route \in ApplicationRoutes, RegisterRoute(x, route)
    PROVE  EndpointsInv'
  <1>1. /\ module' = module /\ captured' = captured
        /\ routes' = [routes EXCEPT ![x] = @ \cup {route}]
    BY DEF RegisterRoute
  <1>2. routes' = [y \in Routers |-> IF y = x THEN routes[x] \cup {route} ELSE routes[y]]
    BY <1>1 DEF EndpointsInv
  <1>3. routes' = [y \in Routers |-> routes'[y]]
    BY <1>2
  <1>4. route.part = "none" /\ route.owner = "app"
    BY EndpointsAssumption
  <1>5. ASSUME NEW y \in Routers PROVE Filled(y)'
    <2>1. Filled(y) /\ routes[y] \subseteq routes'[y] /\ routes'[y] \subseteq routes[y] \cup {route}
      BY <1>2, <1>5 DEF EndpointsInv
    <2>2. \A r \in routes'[y] : \/ r.part = "none" /\ r.owner = "app"
                                \/ module # NoModule /\ r \in Owned(y, Mounted(module))
      BY <1>4, <2>1 DEF Filled
    <2>3. (\E r \in routes'[y] : r.part # "none") => Owned(y, Mounted(module)) \subseteq routes'[y]
      BY <1>4, <2>1 DEF Filled
    <2> QED
      BY <1>1, <2>2, <2>3 DEF Filled
  <1>6. (module # NoModule => Resolved(module))'
    BY <1>1 DEF EndpointsInv, Resolved
  <1> QED
    BY <1>1, <1>3, <1>5, <1>6 DEF EndpointsInv

LEMMA InvStutters ==
    ASSUME EndpointsInv, UNCHANGED endpointsVars
    PROVE  EndpointsInv'
  BY DEF EndpointsInv, Filled, Resolved, endpointsVars

LEMMA EndpointsInvariant ==
    EndpointsSpec => []EndpointsInv
  <1>1. ASSUME EndpointsInv, [EndpointsNext]_endpointsVars PROVE EndpointsInv'
    BY <1>1, InvNew, InvRegisterEndpoints, InvRegisterRoute, InvStutters DEF EndpointsNext
  <1> QED
    BY InvInit, <1>1, PTL DEF EndpointsSpec

-----------------------------------------------------------------------------
(* The properties *)

(***************************************************************************)
(* No configuration New accepts makes Routes register a pattern twice.     *)
(***************************************************************************)
THEOREM NeverClash ==
    EndpointsSpec => []EndpointsNeverClash
  <1>1. EndpointsInv => EndpointsNeverClash
    BY MountedNeverClash DEF EndpointsInv, EndpointsNeverClash
  <1> QED
    BY EndpointsInvariant, <1>1, PTL

LEMMA ServedIs ==
    ASSUME EndpointsInv, NEW r \in Served
    PROVE  /\ captured \in Routers /\ module # NoModule /\ Resolved(module)
           /\ Served = routes[captured] /\ Filled(captured)
           /\ \/ r.part = "none" /\ r.owner = "app"
              \/ r \in Owned(captured, Mounted(module))
  BY DEF EndpointsInv, Served, Filled

(***************************************************************************)
(* A router that serves a page serves whatever the page loads.             *)
(***************************************************************************)
THEOREM PagesServed ==
    EndpointsSpec => []PagesAreServed
  <1>1. ASSUME EndpointsInv, NEW r \in Served, r.part = "ui"
        PROVE  EmbeddedLinks(module) \cup PublishedLinks(module) \subseteq {s.path : s \in Served}
    <2>1. r \in Owned(captured, Mounted(module)) /\ Resolved(module)
      BY <1>1, ServedIs
    <2>2. PICK m \in Mounted(module) : m.part = "ui"
      BY <1>1, <2>1, OwnedIs
    <2>3. module.enabled /\ ~module.disableUI
      <3>1. ~IsSpec(m, module)
        BY <2>2, MountHas DEF IsSpec
      <3> QED
        BY <3>1, MountedIs
    <2>4. ~module.disableSpec /\ HasTheme(module)
      BY <2>1, <2>3 DEF Resolved, HasTheme
    <2>5. Owned(captured, Mounted(module)) \subseteq Served
      BY <1>1, <2>1, ServedIs DEF Filled
    <2>6. ASSUME NEW m2 \in Mounted(module) PROVE m2.path \in {s.path : s \in Served}
      BY <2>5, OwnedHas
    <2>7. ASSUME NEW p, NEW part, Mount(p, part) \in Mounted(module)
          PROVE  p \in {s.path : s \in Served}
      BY <2>6, <2>7, MountHas
    <2>8. /\ Mount(module.spec, "spec") \in Mounted(module)
          /\ Mount(Append(module.ui, "swagger-initializer.js"), "initializer") \in Mounted(module)
          /\ Mount(Append(module.ui, "theme.css"), "theme_css") \in Mounted(module)
          /\ module.script => Mount(Append(module.ui, "theme.js"), "theme_js") \in Mounted(module)
          /\ \A a \in Assets : Mount(AssetPath(module.ui, a), "asset") \in Mounted(module)
      BY <2>3, <2>4 DEF Mounted
    <2>9. "swagger-ui.css" \in Assets /\ "swagger-ui-bundle.js" \in Assets
      BY DEF Assets
    <2> QED
      BY <2>7, <2>8, <2>9 DEF EmbeddedLinks, PublishedLinks
  <1>2. EndpointsInv => PagesAreServed
    BY <1>1 DEF PagesAreServed
  <1> QED
    BY EndpointsInvariant, <1>2, PTL

LEMMA EffectiveKeeps ==
    ASSUME NEW c, Resolved(c)
    PROVE  /\ Effective(c).ui = c.ui /\ Effective(c).spec = c.spec
           /\ Effective(c).disableUI = c.disableUI /\ Effective(c).disableSpec = c.disableSpec
  <1>1. c.ui # Unset /\ c.spec # Unset /\ c \in Config
    BY EndpointsAssumption DEF Resolved
  <1> QED
    BY <1>1 DEF Effective, Config

(***************************************************************************)
(* The module's document leaves the UI, its redirect, initializer and      *)
(* assets and the specification out, and on a router that names the module *)
(* all of its endpoints.                                                   *)
(***************************************************************************)
THEOREM StayUndocumented ==
    EndpointsSpec => []EndpointsStayUndocumented
  <1>1. ASSUME EndpointsInv, NEW r \in Served, r.part # "none", ~Excluded(r, module)
        PROVE  captured \notin Naming /\ r.part \in {"theme_css", "theme_js"}
    <2>1. r \in Owned(captured, Mounted(module)) /\ Resolved(module)
      BY <1>1, ServedIs
    <2>2. PICK m \in Mounted(module) : /\ r.path = m.path /\ r.part = m.part
                                       /\ r.owner = IF captured \in Naming THEN "swagger" ELSE "app"
      BY <2>1, OwnedIs
    <2>3. captured \notin Naming /\ ~OnOwnPath(m.path, Effective(module))
      BY <1>1, <2>2 DEF Excluded
    <2>4. /\ ~module.disableSpec => m.path # module.spec
          /\ ~module.disableUI =>
                /\ m.path \notin {module.ui, Append(module.ui, "{$}"),
                                  Append(module.ui, "swagger-initializer.js")}
                /\ ~Below(Append(module.ui, "assets"), m.path)
      BY <2>1, <2>3, EffectiveKeeps DEF OnOwnPath
    <2>5. ~module.disableUI /\ IsFile(m, module)
      <3>1. module.ui \in Path
        BY <2>1 DEF Resolved
      <3>2. ~(~module.disableSpec /\ IsSpec(m, module))
        <4>1. IsSpec(m, module) => m.path = module.spec
          BY MountHas DEF IsSpec
        <4> QED
          BY <2>4, <4>1
      <3>3. ~module.disableUI /\ (IsPage(m, module) \/ IsFile(m, module) \/ IsAsset(m, module))
        BY <3>2, MountedIs
      <3>4. ~IsPage(m, module)
        <4>1. IsPage(m, module) => m.path = module.ui
          BY MountHas DEF IsPage
        <4> QED
          BY <2>4, <3>3, <4>1
      <3>5. ASSUME IsAsset(m, module) PROVE FALSE
        <4>1. PICK a \in Assets : m = Mount(AssetPath(module.ui, a), "asset")
          BY <3>5 DEF IsAsset
        <4>2. m.path = AssetPath(module.ui, a)
          BY <4>1 DEF Mount
        <4>3. Below(Append(module.ui, "assets"), m.path)
          BY <3>1, <4>2, OwnSegments, AssetIsBelow
        <4> QED
          BY <2>4, <3>3, <4>3
      <3> QED
        BY <3>3, <3>4, <3>5
    <2>6. PICK f \in DOMAIN FilePart : m = Mount(Append(module.ui, f), FilePart[f])
      BY <2>5 DEF IsFile
    <2>7. m.path = Append(module.ui, f) /\ m.part = FilePart[f]
      BY <2>6 DEF Mount
    <2>8. f \in {"theme.css", "theme.js"}
      BY <2>4, <2>5, <2>7 DEF FilePart
    <2> QED
      BY <2>2, <2>3, <2>7, <2>8, FilePartIs
  <1>2. ASSUME EndpointsInv, NEW r \in Served,
               \/ r.part \in {"ui", "redirect", "initializer", "asset", "spec"}
               \/ r.part # "none" /\ captured \in Naming
        PROVE  Excluded(r, module)
    BY <1>1, <1>2
  <1>3. EndpointsInv => EndpointsStayUndocumented
    BY <1>2 DEF EndpointsStayUndocumented
  <1> QED
    BY EndpointsInvariant, <1>3, PTL

(***************************************************************************)
(* An application's route is left out only for an endpoint the module      *)
(* mounts, or would mount were it enabled, or in the assets' namespace.    *)
(***************************************************************************)
THEOREM ApplicationDocumented ==
    EndpointsSpec => []ApplicationIsDocumented
  <1>1. ASSUME EndpointsInv, NEW r \in Served, r.part = "none", Excluded(r, module)
        PROVE  LET own == Mounted([module EXCEPT !.enabled = TRUE])
               IN  \/ \E s \in own : s.path = r.path
                   \/ \E s \in own : s.part = "ui" /\ Below(Append(s.path, "assets"), r.path)
    <2> DEFINE on == [module EXCEPT !.enabled = TRUE]
    <2>1. Resolved(module) /\ r.owner = "app"
      BY <1>1, ServedIs, OwnedIs
    <2>2. OnOwnPath(r.path, Effective(module))
      BY <1>1, <2>1 DEF Excluded
    <2>3. \/ ~module.disableSpec /\ r.path = module.spec
          \/ ~module.disableUI /\ r.path \in {module.ui, Append(module.ui, "{$}"),
                                              Append(module.ui, "swagger-initializer.js")}
          \/ ~module.disableUI /\ Below(Append(module.ui, "assets"), r.path)
      BY <2>1, <2>2, EffectiveKeeps DEF OnOwnPath
    <2>4. /\ on.enabled /\ on.ui = module.ui /\ on.spec = module.spec
          /\ on.disableUI = module.disableUI /\ on.disableSpec = module.disableSpec
      BY <2>1 DEF Resolved, Config
    <2> HIDE DEF on
    <2>5. /\ ~module.disableSpec => Mount(module.spec, "spec") \in Mounted(on)
          /\ ~module.disableUI =>
                /\ Mount(module.ui, "ui") \in Mounted(on)
                /\ Mount(Append(module.ui, "{$}"), "redirect") \in Mounted(on)
                /\ Mount(Append(module.ui, "swagger-initializer.js"), "initializer") \in Mounted(on)
      BY <2>4 DEF Mounted
    <2>6. ASSUME NEW q, NEW part, Mount(q, part) \in Mounted(on), r.path = q
          PROVE  \E s \in Mounted(on) : s.path = r.path
      BY <2>6 DEF Mount
    <2>7. \/ \E s \in Mounted(on) : s.path = r.path
          \/ \E s \in Mounted(on) : s.part = "ui" /\ Below(Append(s.path, "assets"), r.path)
      <3>1. CASE ~module.disableSpec /\ r.path = module.spec
        BY <2>5, <2>6, <3>1
      <3>2. CASE ~module.disableUI /\ r.path \in {module.ui, Append(module.ui, "{$}"),
                                                  Append(module.ui, "swagger-initializer.js")}
        BY <2>5, <2>6, <3>2
      <3>3. CASE ~module.disableUI /\ Below(Append(module.ui, "assets"), r.path)
        <4>1. Mount(module.ui, "ui").path = module.ui /\ Mount(module.ui, "ui").part = "ui"
          BY MountHas
        <4> QED
          BY <2>5, <3>3, <4>1
      <3> QED
        BY <2>3, <3>1, <3>2, <3>3
    <2> QED
      BY <2>7 DEF on
  <1>2. EndpointsInv => ApplicationIsDocumented
    BY <1>1 DEF ApplicationIsDocumented
  <1> QED
    BY EndpointsInvariant, <1>2, PTL
=============================================================================
