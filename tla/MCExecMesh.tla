----------------------------- MODULE MCExecMesh -----------------------------
EXTENDS ExecMesh, TLC

CONSTANTS z1, z2, b, a1

Req(kind, script, size, become, verdict) ==
  [kind |-> kind, many |-> "no", bottomUp |-> "no", script |-> script, path |-> "absolute", size |-> size,
   become |-> become, verdict |-> verdict, user |-> "", method |-> "", defects |-> {}]
One(kind, id, target, r) ==
  [r EXCEPT !.kind = kind] @@ [id |-> id, target |-> target, targets |-> {target}]
Many(kind, targets, bottomUp, r) ==
  [r EXCEPT !.kind = kind, !.many = "yes", !.bottomUp = bottomUp] @@ [id |-> "m", target |-> None, targets |-> targets]
Plain == Req("exec", "no", "fits", "no", "allow")
Scripted == Req("exec", "yes", "fits", "no", "allow")

Linux == [exec |-> "on", engine |-> "closed", os |-> "unix", identity |-> "root", tools |-> {}]
Tree(ofB, ofA) == [x \in Agents |-> CASE x = b -> ofB [] x = a1 -> ofA [] OTHER -> Server]
Scenario(tree, calls, limit) ==
  [tree |-> tree, depth |-> [a \in Agents |-> Len(Above(a, tree)) - 2], calls |-> calls, breaks |-> limit, config |-> Linux]

\* A command on the lowest of a chain, or on one of two peers; two commands with one id; bottom-up runs.
Meshes ==
  {Scenario(Tree(z1, b), [c \in {1} |-> One("exec", "i", a1, Plain)], 1),
   Scenario(Tree(z1, z1), [c \in {1} |-> One("exec", "i", a1, Plain)], 1),
   Scenario(Tree(z1, z2), [c \in {1, 2} |-> One("exec", "i", IF c = 1 THEN b ELSE a1, Plain)], 0),
   Scenario(Tree(z1, b), [c \in {1} |-> Many("exec", {z1, b, a1}, "yes", Plain)], 0),
   Scenario(Tree(z1, z1), [c \in {1} |-> Many("deploy", {z1, b}, "yes", Plain)], 1),
   Scenario(Tree(z1, b), [c \in {1} |-> Many("exec", {b, a1}, "yes", Plain)], 1)}

\* Every kind of operation, two at a time on one agent, under every configuration.
Operations ==
  {One(kind, kind, a1, Req(kind, script, size, become, verdict)) :
     kind \in {"exec", "put", "fetch"}, script \in {"yes"}, size \in {"fits", "over"}, become \in {"yes", "no"},
     verdict \in {"allow", "deny", "error"}}
  \cup {Many("deploy", {a1}, "no", Plain), [One("put", "put", a1, Plain) EXCEPT !.path = "relative"]}
Pairs ==
  {[Scenario(Tree(z1, z1), <<o, p>>, 0) EXCEPT !.config.exec = x, !.config.engine = e] :
     o \in {y \in Operations : y.verdict # "error"}, p \in {One("exec", "exec", a1, Scripted), One("put", "put", a1, Plain)},
     x \in {"on"}, e \in {"closed"}}
  \cup {[Scenario(Tree(z1, z1), <<o>>, 0) EXCEPT !.config.exec = x, !.config.engine = e] :
         o \in Operations, x \in {"on", "off"}, e \in {"none", "open", "closed"}}

\* Every way to become another user.
Hosts ==
  {[Linux EXCEPT !.identity = i, !.tools = tools] : i \in {"root", "dirq"}, tools \in SUBSET {"sudo", "su"}}
  \cup {[Linux EXCEPT !.os = "windows", !.identity = "SYSTEM"]}
Becoming ==
  {[Scenario(Tree(z1, z1), <<[o EXCEPT !.user = u, !.method = m]>>, 0) EXCEPT !.config = h] :
     o \in {One("exec", "exec", a1, Req("exec", script, "fits", "yes", "allow")) : script \in {"yes", "no"}}
          \cup {One(k, k, a1, Req(k, "no", "fits", "yes", "allow")) : k \in {"put", "fetch"}}
          \cup {Many("deploy", {a1}, "no", Req("deploy", "no", "fits", "yes", "allow"))},
     u \in {"", "app", "Administrator"}, m \in {"", "su"}, h \in Hosts}

\* Requests with up to two things wrong, and one for nobody.
Defects == {"json", "fields", "aap", "agent", "disabled", "base64", "path", "query"}
Malformed ==
  {Scenario(Tree(z1, z1), <<[o EXCEPT !.defects = {d, e}]>>, 0) :
     o \in {One("exec", "exec", a1, Plain), One("put", "put", a1, Plain), One("fetch", "fetch", a1, Plain),
            Many("exec", {a1}, "no", Plain), Many("deploy", {a1}, "no", Plain)},
     d \in Defects, e \in Defects}
  \cup {Scenario(Tree(z1, z1), <<Many("exec", {}, "no", Plain)>>, 0)}

\* The whole mesh in one line.
InLine == [x \in Agents |-> CASE x = z2 -> z1 [] x = b -> z2 [] x = a1 -> b [] OTHER -> Server]
Lines == {Scenario(InLine, [c \in {1} |-> One("exec", "i", a1, Plain)], 1)}

\* Two breaks.
Moves == {Scenario(Tree(z1, z2), [c \in {1} |-> One("exec", "i", b, Plain)], 2)}

MCScenarios == Malformed \cup Becoming \cup Meshes \cup Lines \cup Moves \cup {x \in Pairs : Len(x.calls) = 1 \/ x.calls[1].id # x.calls[2].id}
=============================================================================
