---------------------------- MODULE MCCatalogue ----------------------------
(* Instances of Catalogue for TLC: three names on five cards, in four       *)
(* chunks of which the last one is empty.                                   *)
EXTENDS Catalogue

Entry(name, type, level, rare, start, end) ==
  [name |-> name, type |-> type, level |-> level, rare |-> rare,
   start |-> start, end |-> end]

MCList == << Entry("Balloon", "MONSTER", 1, 1, 0, 2),
             Entry("Balloon", "MONSTER", 2, 1, 0, 2),
             Entry("Chewer", "MONSTER", 1, 2, 2, 3),
             Entry("Helmet", "EQUIPMENT", 1, 1, 3, 4),
             Entry("Helmet", "EQUIPMENT", 2, 1, 3, 4) >>

\* What mint asks for, a COMMON card of level 1, and what an award does.
MCWants == {[type |-> "EQUIPMENT", level |-> 1, rare |-> 1],
            [type |-> "MONSTER", level |-> 1, rare |-> 5]}
=============================================================================
