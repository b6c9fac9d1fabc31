------------------------------- MODULE MCBag -------------------------------
(***************************************************************************)
(* The Python layer of PySiLK: two Bags over two integer keys, two IPSets  *)
(* over two addresses, the silk.site module over a small site, and an     *)
(* FGlob with the rwfglob it runs.  These share no state, so a behaviour   *)
(* exercises one of them, chosen by `scope`; the two container classes     *)
(* are checked against their abstract specifications.                      *)
(***************************************************************************)
EXTENDS Bag, TLC

CONSTANTS SetNames,  \* the IPSet variables
          Addrs,     \* addresses
          Gens,      \* whether IPSet arguments may be generators
          NoSuch,    \* a name or id the site does not know
          Scopes     \* the parts exercised: "bag", "ipset", "site", "fglob"

VARIABLES scope, ipset, ipres, iplast,
          loaded, rootdir, maps, sres, siter,
          fg, proc, pipe, printed, status, returncode, gen, yielded

sitevars == <<loaded, rootdir, maps, sres, siter>>
fgvars == <<fg, proc, pipe, printed, status, returncode, gen, yielded>>
bagvars == <<bag, err, last>>
ipvars == <<ipset, ipres, iplast>>

\* Key sequences for add() and remove(): one key, two keys, a repeated key.
MCItems == {<<1>>, <<1, 2>>, <<2, 2>>}

\* Pairs for update(): two keys, and one key set twice (the last wins).
MCPairs == {<<<<1, 0>>, <<2, 1>>>>, <<<<1, 3>>, <<1, 1>>>>}

\* An IPWildcard matching one address, and an iterable of both addresses.
MCWilds == {{2}}
MCLists == {<<1, 2>>}

IP == INSTANCE IPSet WITH Names <- SetNames, Wilds <- MCWilds, Lists <- MCLists,
                          OneShot <- Gens

\* A site of two sensors, a default class "all" with an incoming and an
\* outgoing flowtype of which only "in" is a default type, and a class
\* "other" whose one flowtype has type "in" as well, so that a type name
\* alone does not name a flowtype.  Of two data root directories only the
\* first holds a silk.conf.
MCSensorInfo ==
    (1 :> [id |-> 1, name |-> "S1", classes |-> {1}])
    @@ (2 :> [id |-> 2, name |-> "S2", classes |-> {1, 2}])
MCClassInfo ==
    (1 :> [id |-> 1, name |-> "all", sensors |-> {1, 2}, flowtypes |-> {0, 1},
           default_flowtypes |-> {0}])
    @@ (2 :> [id |-> 2, name |-> "other", sensors |-> {2}, flowtypes |-> {2},
              default_flowtypes |-> {2}])
MCFlowtypeInfo ==
    (0 :> [id |-> 0, name |-> "iw", type |-> "in", class |-> 1])
    @@ (1 :> [id |-> 1, name |-> "ow", type |-> "out", class |-> 1])
    @@ (2 :> [id |-> 2, name |-> "io", type |-> "in", class |-> 2])

ST == INSTANCE Site WITH SensorInfo <- MCSensorInfo, ClassInfo <- MCClassInfo,
                         FlowtypeInfo <- MCFlowtypeInfo, DefaultClassId <- 1,
                         Rootdirs <- {"r1", "r2"}, ConfDirs <- {"r1"}

\* FGlob arguments: for each parameter None and values of the types it is
\* converted from, with an empty string and an empty list, and a number.
MCArgValues ==
    [p \in {"classname", "type", "sensors", "start_date", "end_date",
            "data_rootdir", "site_config_file"} |->
        CASE p = "classname" -> {None, "str", "int"}
          [] p = "type" -> {None, "list", "emptylist"}
          [] p = "sensors" -> {None, "list"}
          [] p = "start_date" -> {None, "", "time"}
          [] p = "end_date" -> {None, "date"}
          [] OTHER -> {None, "str"}]

FG == INSTANCE FGlob WITH ArgValues <- MCArgValues, MaxNames <- 2, Statuses <- {0, 1},
                          Errnos <- {"ENOENT", "EACCES"}

\* Counters stay within MaxCount in the states explored.
MaxCount == 2
BagBound == \A x \in Names : \A k \in DOMAIN bag[x] : bag[x][k] <= MaxCount

MCInit ==
    /\ scope \in Scopes
    /\ FG!Init
    /\ IF scope = "site" THEN ST!Init ELSE ST!Init /\ rootdir = "r1"
    /\ IF scope = "bag" THEN Init ELSE bag = [x \in Names |-> EmptyBag] /\ err = None
                                       /\ last = <<"init", CHOOSE x \in Names : TRUE, <<>>>>
    /\ IF scope = "ipset" THEN IP!Init ELSE IP!Init /\ ipset = [s \in SetNames |-> {}]

MCNext ==
    \/ scope = "bag" /\ Next /\ UNCHANGED <<scope, ipvars, sitevars, fgvars>>
    \/ scope = "ipset" /\ IP!IPNext /\ UNCHANGED <<scope, bagvars, sitevars, fgvars>>
    \/ scope = "site" /\ ST!SiteNext /\ UNCHANGED <<scope, bagvars, ipvars, fgvars>>
    \/ scope = "fglob" /\ FG!FGNext /\ UNCHANGED <<scope, bagvars, ipvars, sitevars>>

MCSpec == MCInit /\ [][MCNext]_<<scope, bagvars, ipvars, sitevars, fgvars>>

AbsBag == INSTANCE BagSpec
AbsIP == INSTANCE IPSetSpec WITH Names <- SetNames, Wilds <- MCWilds, Lists <- MCLists

\* The Bag methods implement what BagSpec says of them.  (AbsBag!Spec,
\* with the stuttering disjunct of [AbsBag!Next]_v written first so that
\* TLC checks it first.)
BagRefinement ==
    AbsBag!Init /\ [][UNCHANGED <<bag, err, last>> \/ AbsBag!Next]_<<bag, err, last>>

\* The IPSet methods implement what IPSetSpec says of them: each method
\* leaves the set and returns the value its docstring promises for the
\* arguments it was called with.
IPSetRefinement ==
    AbsIP!Init /\ [][UNCHANGED <<ipset, ipres, iplast>> \/ AbsIP!Next]_<<ipset, ipres, iplast>>

IPTypeOK == IP!IPTypeOK
SiteTypeOK == ST!SiteTypeOK
FGTypeOK == FG!FGTypeOK

\* silk.site answers every query from the configuration loaded when it
\* returns, whatever queries, init_site() and set_data_rootdir() came first.
QueriesAgreeWithSite == ST!QueriesAgreeWithSite

\* A SiteRepoIter walks the (class, type) pairs its arguments select.
IterSelection == ST!IterSelection

\* An FGlob iteration that ends without an exception saw rwfglob succeed,
\* as the returncode test of fglob.py lines 99-100 intends.
FailureReported == FG!FailureReported
=============================================================================
