-------------------------------- MODULE MCBrowse --------------------------------
(* A small instance of Browse: two lists, two texts, two orders, two pages. *)
EXTENDS Browse

MCLists  == {"all", "harness_error"}
MCTexts  == {"", "s"}
MCOrders == {"popular", "recent"}

\* With pages of two rows: three crates and then four; three harness errors, of
\* which one is then judged.  One crate of each list matches the text at first.
MCSize == [l \in MCLists |-> [t \in MCTexts |-> [v \in 0..1 |->
              CASE l = "all" /\ t = ""  -> 3 + v
                [] l = "all" /\ t # ""  -> 1 + v
                [] l # "all" /\ t = ""  -> 3 - v
                [] l # "all" /\ t # ""  -> 1 - v]]]
=============================================================================
