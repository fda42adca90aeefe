---------------------------- MODULE MCServerData ----------------------------
EXTENDS ServerData

CONSTANTS h1, h2

Name(words, sep) == [words |-> words, sep |-> sep]
Env == Name(<<"env">>, "")
EnvProd == Name(<<"env", "prod">>, "-")
Prod == Name(<<"prod">>, "")
West == Name(<<"us", "west">>, " ")
AnsibleUser == Name(<<"ansible", "user">>, "_")
Tags(k, v) == [x \in {k} |-> v]

\* env=prod names the group that env-prod is the parent of; a host may carry both.
MCTagSets ==
  {Tags(Env, Prod), [x \in {AnsibleUser, Env, EnvProd} |-> West]}

Profile(os, arch, exec) == [os |-> Name(<<os>>, ""), arch |-> arch, exec |-> exec]
MCProfiles == {Profile("linux", "amd64", "yes"), Profile("Windows", "arm64", "no")}
MCFleet == [a \in Hosts |-> IF a = h1 THEN Profile("fedora", "amd64", "yes") ELSE Profile("windows", "arm64", "no")]
MCBurst == [l \in Limiters |-> IF l = "broadcast" THEN 1 ELSE 2]

-----------------------------------------------------------------------------
(***************************************************************************)
(* Commands of the client: exec and deploy on nobody, at once or bottom-up *)
(* on two; scans whose fix is any of the versions made of three pieces,    *)
(* over hosts with any other; scans with kernels, several fixes for one    *)
(* package, packages without a fix and hosts of an unknown version.        *)
(***************************************************************************)
RECURSIVE WordsOf(_, _)
WordsOf(n, pieces) ==
  IF n = 0 THEN {""} ELSE WordsOf(n - 1, pieces) \cup {w \o p : w \in WordsOf(n - 1, pieces), p \in pieces}
RECURSIVE Listed(_)
Listed(S) == IF S = {} THEN <<>> ELSE LET x == CHOOSE x \in S : TRUE IN <<x>> \o Listed(S \ {x})

CPE(rhel) == "cpe:/o:redhat:enterprise_linux:" \o rhel \o "::baseos"
Release(name, version, rhel) ==
  [name |-> name, rhel |-> rhel, version |-> version, package |-> name \o "-" \o version, cpe |-> CPE(rhel),
   state |-> IF name = "kpatch" THEN "Live" ELSE "Fixed"]
State(name, rhel, state) ==
  [name |-> name, rhel |-> rhel, version |-> "", package |-> name, cpe |-> CPE(rhel), state |-> state]
Package(n, v) == [name |-> n, version |-> v, epoch |-> 0]
PackageWithEpoch(n, e, v) == [name |-> n, version |-> v, epoch |-> e]
Row(h, rhel, distro, kernel, packages) ==
  [host |-> h, success |-> "yes", rhel |-> rhel, distro |-> distro, kernel |-> kernel, packages |-> packages]
FleetHosts == {[host |-> "h1", os |-> "rhel", online |-> "yes"], [host |-> "h2", os |-> "fedora", online |-> "yes"],
               [host |-> "h3", os |-> "rhel", online |-> "yes"]}

ScanFor(name, json, releases, states, rows) ==
  [name |-> name, usage |-> "good", json |-> json, answer |-> [releases |-> releases, states |-> states],
   rows |-> rows, hosts |-> FleetHosts]
Runs ==
  {[name |-> name, usage |-> "good", json |-> json, review |-> "on", waves |-> w] :
     name \in {"exec", "deploy"}, json \in {"yes", "no"}, w \in {<<>>, <<{"h1", "h2"}>>, <<{"h2"}, {"h1"}>>}}

Pieces == {"1", "02", "a", "."}
Versions(first) == {first \o w \o "-1.el8" : w \in WordsOf(2, Pieces)}
\* Installed, with another release.
Rebuilt(first) == {first \o w \o "-02.el8" : w \in WordsOf(1, Pieces)}
AnyVersion == [first \in Pieces |-> Listed({Row("h1", "8", "8.10", "", <<Package("py3-x", w)>>) : w \in Versions(first) \cup Rebuilt(first)})]
Compared ==
  {ScanFor("cve", "no", <<Release("py3-x", v, "8")>>, <<>>, AnyVersion[first]) :
     v \in UNION {Versions(p) : p \in Pieces}, first \in Pieces}

Mixed ==
  <<Row("h1", "8", "8.10", "2-1.el8", <<Package("kernel", "1-1.el8"), Package("kernel", "3-1.el8")>>),
    Row("h3", "9", "9", "1-1.el9", <<Package("kernel", "1-1.el9")>>),
    Row("h2", "9", "9.4", "", <<Package("kernel", "1-1.el9"), Package("ssl-libs", "9-2.el9"), Package("kpatch", "0-0.el9"),
                             PackageWithEpoch("ssl-libs", 1, "3-1.el9"), PackageWithEpoch("ssl-libs", 2, "0-1.el9")>>)>>
Fixes ==
  {<<Release("kernel", v, "8"), Release("kpatch", "1-1.el9", "9"), Release("ssl-libs", a, "9"), Release("ssl-libs", b, "9")>> :
     v \in {"0:2-1.el8", "2-10.el8"}, a \in {"9-2.el9", "1:1-1.el9"}, b \in {"0:10-1.el9", "09-1.el9"}}
Scans ==
  {ScanFor(n, json, l, <<>>, Mixed) : n \in {"cve", "errata"}, json \in {"yes", "no"}, l \in Fixes}
  \cup {ScanFor("cve", "no", <<Release("ssl-libs", "9-1.el9", "9")>>, <<State(n, m, st)>>, Mixed) :
          n \in {"kernel", "ssl-libs"}, m \in {"8", "9"}, st \in {"Affected", "Not affected"}}
  \cup {[ScanFor("errata", "no", <<>>, <<>>, <<>>) EXCEPT !.usage = u] : u \in {"good", "bad"}}

MCCommands == Runs \cup Scans \cup Compared \cup {[c EXCEPT !.usage = "bad"] : c \in Runs}
=============================================================================
