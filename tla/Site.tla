-------------------------------- MODULE Site --------------------------------
(***************************************************************************)
(* silk.site, src/src/pysilk/python/site.py: the site configuration seen   *)
(* by name, through maps the module builds from the C site information the *)
(* first time a query finds a configuration, and the repository iterator. *)
(*                                                                         *)
(* The C side (pysilk) is the environment.  Its sensor_info(),             *)
(* class_info() and flowtype_info() are the constants below, shaped like   *)
(* the dicts of site.py's comments (lists as sets); they are empty while   *)
(* no configuration is loaded.  have_site_config() is `loaded`.            *)
(* init_site() with no arguments loads the silk.conf of the current data   *)
(* root directory, if it has one, and a loaded configuration is never      *)
(* replaced.  get_data_rootdir() and set_data_rootdir() read and write     *)
(* `rootdir`.                                                              *)
(***************************************************************************)
EXTENDS Integers, FiniteSets

CONSTANTS SensorInfo,      \* sensor id -> [id, name, classes]
          ClassInfo,       \* class id -> [id, name, sensors, flowtypes, default_flowtypes]
          DefaultClassId,  \* class_info()['default']
          FlowtypeInfo,    \* flowtype id -> [id, name, type, class]
          Rootdirs,        \* data root directories
          ConfDirs,        \* those holding a silk.conf
          NoSuch,          \* a name or id the site does not know
          None

VARIABLES loaded,    \* have_site_config()
          rootdir,   \* get_data_rootdir()
          maps,      \* the module globals _initialized, _sensor_map, ...
          sres,      \* the query last made and what it returned or raised
          siter      \* the last SiteRepoIter made, and whether it is walking

sitevars == <<loaded, rootdir, maps, sres, siter>>

\* The C site information, as the module reads it after loading state ld.
SI(ld) == IF ld THEN SensorInfo ELSE [x \in {} |-> None]
CI(ld) == IF ld THEN ClassInfo ELSE [x \in {} |-> None]
FI(ld) == IF ld THEN FlowtypeInfo ELSE [x \in {} |-> None]

\* A dict keyed by item['name'] with the value v[id], over an info dict.
ByName(info, v) == [n \in {info[i].name : i \in DOMAIN info} |->
                     v[CHOOSE i \in DOMAIN info : info[i].name = n]]

\* The globals at import: _initialized False, empty maps, no default class.
NoDict == [x \in {} |-> None]
NoMaps == [initialized |-> FALSE, sensor |-> NoDict, class |-> NoDict,
           ft |-> NoDict, classtype |-> NoDict, default |-> None]

\* The maps _init_maps() builds from the loaded information: each sensor,
\* class and flowtype by name with the ids it refers to turned into names,
\* the flowtypes by class name and type, and the default class's name.
\* _default_class is only assigned when there is a default, and it is None
\* before.
BuiltMaps ==
    LET si == SensorInfo  ci == ClassInfo  fi == FlowtypeInfo
        cname(c) == ci[c].name
    IN  [initialized |-> TRUE,
         sensor |-> ByName(si, [s \in DOMAIN si |-> [si[s] EXCEPT !.classes = {cname(c) : c \in @}]]),
         class |-> ByName(ci, [k \in DOMAIN ci |->
                     [ci[k] EXCEPT !.sensors = {si[s].name : s \in @},
                               !.flowtypes = {fi[f].name : f \in @},
                               !.default_flowtypes = {fi[f].name : f \in @}]]),
         ft |-> ByName(fi, [f \in DOMAIN fi |-> [fi[f] EXCEPT !.class = cname(@)]]),
         classtype |-> [c \in {cname(fi[f].class) : f \in DOMAIN fi} |->
                         LET fs == {f \in DOMAIN fi : cname(fi[f].class) = c}
                         IN  [t \in {fi[f].type : f \in fs} |->
                                LET f == CHOOSE f \in fs : fi[f].type = t
                                IN  [fi[f] EXCEPT !.class = c]]],
         default |-> IF DefaultClassId # None THEN cname(DefaultClassId) ELSE None]

\* Mutant: a failed _init_maps() still records itself as initialized.
InitMapsNoRetry(m, ld, rd) ==
    CASE m.initialized -> [m |-> m, ld |-> ld, ret |-> TRUE]
      [] ~(ld \/ rd \in ConfDirs) -> [m |-> [m EXCEPT !.initialized = TRUE], ld |-> ld, ret |-> FALSE]
      [] OTHER -> [m |-> BuiltMaps, ld |-> TRUE, ret |-> TRUE]

\* _init_maps(): nothing once initialized; False when no configuration is
\* loaded and init_site() finds none in the data root directory rd;
\* otherwise the maps are built.  Returns the new globals, whether the C
\* configuration is loaded after the call, and its return value.
InitMaps(m, ld, rd) ==
    CASE m.initialized -> [m |-> m, ld |-> ld, ret |-> TRUE]
      [] ~(ld \/ rd \in ConfDirs) -> [m |-> m, ld |-> ld, ret |-> FALSE]
      [] OTHER -> [m |-> BuiltMaps, ld |-> TRUE, ret |-> TRUE]

\* What a query returns, or the exception it raises.
Val(v) == [val |-> v, exc |-> None]
Raise(e) == [val |-> None, exc |-> e]
\* d[k], or KeyError.
Lookup(d, k) == IF k \in DOMAIN d THEN Val(d[k]) ELSE Raise("KeyError")

\* The query q with argument a on the maps m, the information of loading
\* state ld and _init_maps()'s return value ok.
Answer(q, a, m, ld, ok) ==
    CASE q = "default_class" -> Val(m.default)
      [] q = "sensors" -> Val(DOMAIN m.sensor)
      [] q = "classes" -> Val(DOMAIN m.class)
      [] q = "class_sensors" -> Lookup([c \in DOMAIN m.class |-> m.class[c].sensors], a)
      [] q = "sensor_classes" -> Lookup([s \in DOMAIN m.sensor |-> m.sensor[s].classes], a)
      [] q = "classtypes" ->
            Val({<<CI(ld)[FI(ld)[f].class].name, FI(ld)[f].type>> : f \in DOMAIN FI(ld)})
      [] q = "types" -> Lookup([c \in DOMAIN m.class |-> {m.ft[x].type : x \in m.class[c].flowtypes}], a)
      [] q = "default_types" ->
            Lookup([c \in DOMAIN m.class |-> {m.ft[x].type : x \in m.class[c].default_flowtypes}], a)
      [] q = "sensor_id" -> Lookup([s \in DOMAIN m.sensor |-> m.sensor[s].id], a)
      [] q = "sensor_from_id" ->
            IF ~ok THEN Raise("KeyError") ELSE Lookup([s \in DOMAIN SI(ld) |-> SI(ld)[s].name], a)
      [] q = "classtype_id" ->
            IF ~ok \/ a[1] \notin DOMAIN m.classtype THEN Raise("KeyError")
            ELSE Lookup([t \in DOMAIN m.classtype[a[1]] |-> m.classtype[a[1]][t].id], a[2])
      [] q = "classtype_from_id" ->
            IF ~ok THEN Raise("KeyError")
            ELSE Lookup([f \in DOMAIN FI(ld) |-> <<CI(ld)[FI(ld)[f].class].name, FI(ld)[f].type>>], a)

\* A SiteRepoIter argument: types and classtypes are None, a string or a
\* (class, type) pair, or a list of them; a list may hold an item that is
\* not a pair.
One(v) == [kind |-> "one", v |-> {v}]
Many(vs) == [kind |-> "list", v |-> vs]
NotPair == [kind |-> "bad", v |-> {}]

\* Mutant: the class's types taken for its default types.
MakeIterAllTypes(start, end, cn, ty, ct, m, ld, rd) ==
    LET it(cts, exc) == [root |-> rd, cts |-> cts, exc |-> exc]
        st == InitMaps(m, ld, rd)
        dts(c) == Answer("types", c, st.m, st.ld, st.ret)
        pairs(c, r) == IF r.exc # None THEN it(None, r.exc) ELSE it({<<c, t>> : t \in r.val}, None)
        dc == st.m.default
        keep == [m |-> m, ld |-> ld]
        init == [m |-> st.m, ld |-> st.ld]
        r(i, g) == [i |-> i, m |-> g.m, ld |-> g.ld]
    IN  CASE start = None /\ end # None -> r(it(None, "ValueError"), keep)
          [] ct # None /\ (cn # None \/ ty # None) -> r(it(None, "ValueError"), keep)
          [] ct # None /\ ct.kind = "bad" -> r(it(None, "ValueError"), keep)
          [] ct # None -> r(it(ct.v, None), keep)
          [] cn = None /\ ty # None -> r(it(None, "ValueError"), keep)
          [] cn = None /\ dc = None -> r(it(None, None), init)
          [] cn = None -> r(pairs(dc, dts(dc)), init)
          [] ty = None -> r(pairs(cn, dts(cn)), init)
          [] OTHER -> r(it({cn} \X ty.v, None), keep)

\* SiteRepoIter.__init__: the root directory it records and the
\* (class, type) pairs it hands to pysilk.RepoIter.__init__, or the
\* ValueError or KeyError it raises first.  default_class() and
\* default_types() run _init_maps(), which may load the configuration.
MakeIter(start, end, cn, ty, ct, m, ld, rd) ==
    LET it(cts, exc) == [root |-> rd, cts |-> cts, exc |-> exc]
        st == InitMaps(m, ld, rd)
        dts(c) == Answer("default_types", c, st.m, st.ld, st.ret)
        pairs(c, r) == IF r.exc # None THEN it(None, r.exc) ELSE it({<<c, t>> : t \in r.val}, None)
        dc == st.m.default
        keep == [m |-> m, ld |-> ld]
        init == [m |-> st.m, ld |-> st.ld]
        r(i, g) == [i |-> i, m |-> g.m, ld |-> g.ld]
    IN  CASE start = None /\ end # None -> r(it(None, "ValueError"), keep)
          [] ct # None /\ (cn # None \/ ty # None) -> r(it(None, "ValueError"), keep)
          [] ct # None /\ ct.kind = "bad" -> r(it(None, "ValueError"), keep)
          [] ct # None -> r(it(ct.v, None), keep)
          [] cn = None /\ ty # None -> r(it(None, "ValueError"), keep)
          [] cn = None /\ dc = None -> r(it(None, None), init)
          [] cn = None -> r(pairs(dc, dts(dc)), init)
          [] ty = None -> r(pairs(cn, dts(cn)), init)
          [] OTHER -> r(it({cn} \X ty.v, None), keep)

----------------------------------------------------------------------------
(* The program: any query, set_data_rootdir(), init_site(), a new         *)
(* SiteRepoIter with arguments from the sets below, or iter() on it.      *)

SensorNames == {SensorInfo[s].name : s \in DOMAIN SensorInfo}
ClassNames == {ClassInfo[c].name : c \in DOMAIN ClassInfo}
TypeNames == {FlowtypeInfo[f].type : f \in DOMAIN FlowtypeInfo}

ClassQueries == {"class_sensors", "types", "default_types"}
SensorQueries == {"sensor_classes", "sensor_id"}
IdQueries == {"sensor_from_id", "classtype_from_id"}
PlainQueries == {"default_class", "sensors", "classes", "classtypes"}

QueryArgs(q) ==
    CASE q \in ClassQueries -> ClassNames \cup {NoSuch}
      [] q \in SensorQueries -> SensorNames \cup {NoSuch}
      [] q \in IdQueries -> DOMAIN SensorInfo \cup DOMAIN FlowtypeInfo \cup {NoSuch}
      [] q = "classtype_id" -> (ClassNames \cup {NoSuch}) \X TypeNames
      [] OTHER -> {None}

IterArgs ==
    {[start |-> None, end |-> "today", classname |-> None, types |-> None, classtypes |-> None]} \cup
    [start : {None, "today"}, end : {None}, classname : ClassNames \cup {None},
     types : {None, Many(TypeNames)},
     classtypes : {None, NotPair, One(<<"other", "in">>)}]

NoIter == [root |-> None, cts |-> None, exc |-> None, walking |-> FALSE, args |-> None, ld |-> FALSE]

Init ==
    /\ loaded = FALSE
    /\ rootdir \in Rootdirs
    /\ maps = NoMaps
    /\ sres = [q |-> "import", a |-> None, ld |-> FALSE, r |-> Val(None)]
    /\ siter = NoIter

\* One of the query functions of lines 115-189: _init_maps(), then the answer.
Query(q, a) ==
    LET st == InitMaps(maps, loaded, rootdir)
    IN  /\ maps' = st.m
        /\ loaded' = st.ld
        /\ sres' = [q |-> q, a |-> a, ld |-> st.ld, r |-> Answer(q, a, st.m, st.ld, st.ret)]
        /\ UNCHANGED <<rootdir, siter>>

\* set_data_rootdir(r).
SetDataRootdir(r) ==
    /\ rootdir' = r
    /\ UNCHANGED <<loaded, maps, sres, siter>>

\* Mutant: init_site() loads the data root directory's configuration
\* whether or not one is loaded already.
InitSiteReload ==
    /\ loaded' = (rootdir \in ConfDirs)
    /\ UNCHANGED <<rootdir, maps, sres, siter>>

\* init_site(): loads the silk.conf of the data root directory, if none is
\* loaded yet.
InitSite ==
    /\ loaded' = (loaded \/ rootdir \in ConfDirs)
    /\ UNCHANGED <<rootdir, maps, sres, siter>>

\* SiteRepoIter(start, end, classname, types, classtypes, ...).
NewIter(a) ==
    LET r == MakeIter(a.start, a.end, a.classname, a.types, a.classtypes, maps, loaded, rootdir)
    IN  /\ siter' = [root |-> r.i.root, cts |-> r.i.cts, exc |-> r.i.exc, walking |-> FALSE,
                     args |-> a, ld |-> r.ld]
        /\ maps' = r.m
        /\ loaded' = r.ld
        /\ UNCHANGED <<rootdir, sres>>

\* SiteRepoIter.__iter__: RuntimeError if the root directory changed since
\* the iterator was made.
IterStart ==
    /\ siter.root # None /\ siter.exc = None
    /\ siter' = IF siter.root # rootdir THEN [siter EXCEPT !.exc = "RuntimeError"]
                ELSE [siter EXCEPT !.walking = TRUE]
    /\ UNCHANGED <<loaded, rootdir, maps, sres>>

SiteNext ==
    \/ \E q \in ClassQueries \cup SensorQueries \cup IdQueries \cup PlainQueries \cup {"classtype_id"} :
           \E a \in QueryArgs(q) : Query(q, a)
    \/ \E r \in Rootdirs : SetDataRootdir(r)
    \/ InitSite
    \/ \E a \in IterArgs : NewIter(a)
    \/ IterStart

SiteSpec == Init /\ [][SiteNext]_sitevars

----------------------------------------------------------------------------
(* Reference answers, read from the C site information of loading state   *)
(* ld, going the other way along each relation where the maps go one way: *)
(* a class's sensors are the sensors that list the class, a class's types *)
(* those of the flowtypes that name the class, and so on.                 *)

RefAnswer(q, a, ld) ==
    LET si == SI(ld)  ci == CI(ld)  fi == FI(ld)
        cname(c) == ci[c].name
        sname(s) == si[s].name
        cids(n) == {c \in DOMAIN ci : cname(c) = n}
        sclasses(s) == {cname(c) : c \in si[s].classes}
        fts(n, t) == {f \in DOMAIN fi : cname(fi[f].class) = n /\ fi[f].type = t}
    IN
    CASE q = "default_class" -> Val(IF ld /\ DefaultClassId # None THEN cname(DefaultClassId) ELSE None)
      [] q = "sensors" -> Val({sname(s) : s \in DOMAIN si})
      [] q = "classes" -> Val({cname(c) : c \in DOMAIN ci})
      [] q = "class_sensors" ->
            IF cids(a) = {} THEN Raise("KeyError")
            ELSE Val({sname(s) : s \in {s2 \in DOMAIN si : a \in sclasses(s2)}})
      [] q = "sensor_classes" ->
            IF a \notin {sname(s) : s \in DOMAIN si} THEN Raise("KeyError")
            ELSE Val({cname(c) : c \in {c2 \in DOMAIN ci : a \in {sname(s) : s \in ci[c2].sensors}}})
      [] q = "classtypes" ->
            Val(UNION {{<<cname(c), fi[f].type>> : f \in ci[c].flowtypes} : c \in DOMAIN ci})
      [] q = "types" ->
            IF cids(a) = {} THEN Raise("KeyError")
            ELSE Val({fi[f].type : f \in {f2 \in DOMAIN fi : cname(fi[f2].class) = a}})
      [] q = "default_types" ->
            IF cids(a) = {} THEN Raise("KeyError")
            ELSE Val(UNION {{fi[f].type : f \in ci[c].default_flowtypes} : c \in cids(a)})
      [] q = "sensor_id" ->
            IF a \notin {sname(s) : s \in DOMAIN si} THEN Raise("KeyError")
            ELSE Val(CHOOSE s \in DOMAIN si : sname(s) = a)
      [] q = "sensor_from_id" -> IF a \in DOMAIN si THEN Val(sname(a)) ELSE Raise("KeyError")
      [] q = "classtype_id" ->
            IF fts(a[1], a[2]) = {} THEN Raise("KeyError") ELSE Val(CHOOSE f \in fts(a[1], a[2]) : TRUE)
      [] q = "classtype_from_id" ->
            IF a \in DOMAIN fi THEN Val(<<cname(fi[a].class), fi[a].type>>) ELSE Raise("KeyError")
      [] OTHER -> Val(None)

\* The (class, type) pairs the documentation of repository_iter promises
\* for the arguments a, with the information of loading state ld: the
\* pairs given, the types given in the class given, the default types of
\* the class given, or else those of the site's default class.
RefSelection(a, ld) ==
    LET ci == CI(ld)  fi == FI(ld)
        dtypes(n) == {<<n, fi[f].type>> : f \in UNION {ci[c].default_flowtypes : c \in {c2 \in DOMAIN ci : ci[c2].name = n}}}
    IN  CASE a.classtypes # None -> a.classtypes.v
          [] a.classname # None /\ a.types # None -> {a.classname} \X a.types.v
          [] a.classname # None -> dtypes(a.classname)
          [] ld /\ DefaultClassId # None -> dtypes(ci[DefaultClassId].name)
          [] OTHER -> None

----------------------------------------------------------------------------
SiteTypeOK ==
    /\ loaded \in BOOLEAN /\ rootdir \in Rootdirs
    /\ maps.initialized \in BOOLEAN /\ DOMAIN maps.sensor \subseteq SensorNames
    /\ maps.initialized => loaded
    /\ sres.r.exc \in {None, "KeyError"}
    /\ siter.exc \in {None, "ValueError", "KeyError", "RuntimeError"}

\* Whatever calls came first (queries before any configuration could be
\* loaded, init_site(), set_data_rootdir()), every query answers what the
\* C site information loaded when it returns says: the maps _init_maps()
\* caches are neither stale nor built from a missing configuration.
QueriesAgreeWithSite == sres.r = RefAnswer(sres.q, sres.a, sres.ld)

\* A SiteRepoIter that was made without error walks the (class, type)
\* pairs its arguments select, the default class and default types being
\* read through the lazily built maps.
IterSelection ==
    siter.root # None /\ siter.exc = None => siter.cts = RefSelection(siter.args, siter.ld)
====
