--------------------------- MODULE MCConfigSource ---------------------------
(***************************************************************************)
(* Documents and pushes for TLC: two good documents, one without projects, *)
(* one with a reference to a host that is not there, one that is not YAML. *)
(* The second good document has a pattern with "**" in the middle, a       *)
(* project that watches its directory by default and two repositories.     *)
(***************************************************************************)
EXTENDS ConfigSource
CONSTANTS l1, l2

MCLoaders == {l1, l2}
MCSources == {"local", "git"}

Named(name) == [name |-> name, fields |-> TRUE]

Web == [name |-> "web", fields |-> TRUE, repo |-> "r1", subdir |-> <<"web">>,
        watch |-> <<<<"web", "**", "conf">>, <<"*">>>>, targets |-> <<"h1", "h2">>]
Api == [name |-> "api", fields |-> TRUE, repo |-> "r1", subdir |-> <<"api">>,
        watch |-> <<>>, targets |-> <<"h1">>]
Other == [name |-> "other", fields |-> TRUE, repo |-> "r2", subdir |-> <<"api">>,
          watch |-> <<<<"**">>>>, targets |-> <<"h2">>]

Small == [parses |-> TRUE, hosts |-> <<Named("h1")>>, repos |-> <<Named("r1")>>,
          projects |-> <<Api>>]
Large == [parses |-> TRUE, hosts |-> <<Named("h1"), Named("h2")>>,
          repos |-> <<Named("r1"), Named("r2")>>, projects |-> <<Web, Api, Other>>]
Emptied == [Large EXCEPT !.projects = <<>>]
Dangling == [Large EXCEPT !.hosts = <<Named("h1")>>]
NotYaml == [Small EXCEPT !.parses = FALSE]
MCDocuments == {Small, Large, Emptied, Dangling, NotYaml}

MCChangeSets == {{}, {<<"web", "conf">>}, {<<"web", "a", "b", "conf">>, <<"api">>}, {<<"top">>},
                 {<<"web", "a">>, <<"lib", "a">>}, {<<"api", "a", "conf">>}}
=============================================================================
