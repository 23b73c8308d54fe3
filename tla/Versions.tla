------------------------------ MODULE Versions ------------------------------
(***************************************************************************)
(* Version keys: how fogit ranks and increments them (pkg/fogit/feature.go)*)
(* and how a relationship's version constraint compares them               *)
(* (pkg/fogit/relationship.go).                                            *)
(*                                                                         *)
(* A key is "3", "1.4.0", or a text GetCurrentVersionKey passes over.  A   *)
(* simple key has minor and patch 0, as compareSemver takes it.            *)
(***************************************************************************)
EXTENDS Integers

Key == [form : {"simple"},   major : Nat, minor : {0}, patch : {0}] \cup
       [form : {"semantic"}, major : Nat, minor : Nat, patch : Nat] \cup
       [form : {"other"},    major : {0}, minor : {0}, patch : {0}]

Simple(n)         == [form |-> "simple", major |-> n, minor |-> 0, patch |-> 0]
Semantic(a, b, c) == [form |-> "semantic", major |-> a, minor |-> b, patch |-> c]
Other             == [form |-> "other", major |-> 0, minor |-> 0, patch |-> 0]

Parsed(k) == k.form # "other"

\* A part of 1000 or more runs over into the next part's weight.
Weight == 1000
Small(k) == k.major < Weight /\ k.minor < Weight /\ k.patch < Weight

\* Variant: only the first number is looked at.
Rank_MajorOnly(k) == k.major

\* The number GetCurrentVersionKey takes the greatest of.
Rank(k) ==
    IF k.form = "simple" THEN k.major
    ELSE k.major * 1000000 + k.minor * 1000 + k.patch
-----------------------------------------------------------------------------
Increments == {"patch", "minor", "major"}

CanIncrement(k, format) == Parsed(k) /\ (format = "simple" => k.form = "simple")

NextSemantic(k, inc) ==
    CASE inc = "patch" -> Semantic(k.major, k.minor, k.patch + 1)
      [] inc = "minor" -> Semantic(k.major, k.minor + 1, 0)
      [] inc = "major" -> Semantic(k.major + 1, 0, 0)

\* Variant: a simple version does not parse as a semantic one and counts as 1.
IncrementVersion_NotConverted(k, format, inc) ==
    IF format = "semantic"
    THEN NextSemantic(IF k.form = "simple" THEN Semantic(1, 0, 0) ELSE k, inc)
    ELSE IF inc = "patch" THEN k ELSE Simple(k.major + 1)

\* A simple version knows no patch and stays what it was.
IncrementVersion(k, format, inc) ==
    IF format = "semantic" THEN NextSemantic(k, inc)
    ELSE IF inc = "patch" THEN k ELSE Simple(k.major + 1)
-----------------------------------------------------------------------------
\* compareSemverParts.
Precedes(j, k) ==
    \/ j.major < k.major
    \/ j.major = k.major /\ j.minor < k.minor
    \/ j.major = k.major /\ j.minor = k.minor /\ j.patch < k.patch

Constraint == [operator : {"=", ">", "<", ">=", "<="},
               version  : {k \in Key : Parsed(k)}]

\* Only the major part counts against a simple version.
Below(k, c) == IF c.version.form = "simple" THEN k.major < c.version.major
                                            ELSE Precedes(k, c.version)
Above(k, c) == IF c.version.form = "simple" THEN c.version.major < k.major
                                            ELSE Precedes(c.version, k)

IsSatisfiedBy(c, k) ==
    CASE c.operator = "="  -> ~Below(k, c) /\ ~Above(k, c)
      [] c.operator = ">"  -> Above(k, c)
      [] c.operator = "<"  -> Below(k, c)
      [] c.operator = ">=" -> ~Below(k, c)
      [] c.operator = "<=" -> ~Above(k, c)
=============================================================================
