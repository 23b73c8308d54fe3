---------------------------- MODULE MCRelConfig ----------------------------
(***************************************************************************)
(* Instances of RelConfig for TLC: an excerpt of the default configuration *)
(* with two pairs and a bidirectional type, one name and one category that *)
(* are free, and two ties between two features in opposite directions.     *)
(***************************************************************************)
EXTENDS RelConfig, TLC

MCSource == [k \in Ties |-> IF k = 1 THEN "login" ELSE "session"]
MCTarget == [k \in Ties |-> IF k = 1 THEN "session" ELSE "login"]

Pair(category, inverse) == [category |-> category, inverse |-> inverse, both |-> FALSE]
NoTypes      == [n \in Names |-> None]
NoCategories == [g \in Categories |-> None]
Acyclic      == [allow |-> FALSE, detection |-> "strict"]
Cyclic       == [allow |-> TRUE, detection |-> "none"]

MCPolicies   == {Acyclic, Cyclic, [allow |-> TRUE, detection |-> "strict"]}

MCShipped ==
    [types |-> [NoTypes EXCEPT
        !["depends-on"]  = Pair("structural", "required-by"),
        !["required-by"] = Pair("structural", "depends-on"),
        !["tests"]       = Pair("informational", "tested-by"),
        !["tested-by"]   = Pair("informational", "tests"),
        !["related-to"]  = [category |-> "informational", inverse |-> None, both |-> TRUE]],
     categories |-> [NoCategories EXCEPT
        !["structural"] = Acyclic, !["informational"] = Cyclic]]

\* Bound: flags that change the type are given one at a time, with or without
\* a rename.
MCTypeOptions ==
    LET none == [name |-> None, renameInverse |-> None, category |-> None,
                 inverse |-> None, both |-> "keep"]
        plain == {none, [none EXCEPT !.both = "yes"], [none EXCEPT !.both = "no"]}
                 \cup {[none EXCEPT !.inverse = i] : i \in {"tests", "related-to", "uses"}}
                 \cup {[none EXCEPT !.category = "team"]}
    IN  plain \cup {[o EXCEPT !.name = n, !.renameInverse = i] :
                        o \in plain, n \in Names, i \in {None, "tests", "uses"}}

\* A type with a category of its own; one that claims the inverse of another
\* (refused); and a pair of the configuration in another category.
MCImportFiles ==
    {[types |-> [NoTypes EXCEPT !["uses"] = Pair("team", None)],
      categories |-> [NoCategories EXCEPT !["team"] = Acyclic]],
     [types |-> [NoTypes EXCEPT !["uses"] = Pair("structural", "required-by")],
      categories |-> NoCategories],
     [types |-> [NoTypes EXCEPT !["tests"] = Pair("structural", "tested-by"),
                                !["tested-by"] = Pair("structural", "tests")],
      categories |-> NoCategories]}
=============================================================================
