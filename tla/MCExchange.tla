---------------------------- MODULE MCExchange ----------------------------
(***************************************************************************)
(* An instance of Exchange for TLC.  The drafts: two features; one that    *)
(* leads out of the file; one whose last entry the first leads to; and one *)
(* that gives one name to two IDs and one ID to two entries.               *)
(***************************************************************************)
EXTENDS Exchange, TLC

Drawn(id, name, links) ==
    [id |-> id, state |-> "open",
     feature |-> [name |-> name, links |-> links, created |-> 0, modified |-> 0, closed |-> FALSE]]

MCDrafts ==
    {<<Drawn("f1", "B", {"f2"}), Drawn("f2", "A", {})>>,
     <<Drawn("f2", "B", {"f3"}), Drawn("f1", "A", {"f2"})>>,
     <<Drawn("f1", "A", {"f3"}), Drawn("f2", "B", {}), Drawn("f3", "B", {})>>,
     <<Drawn("f1", "A", {}), Drawn("f2", "A", {"f1"}), Drawn("f1", "B", {"f2"})>>}
=============================================================================
