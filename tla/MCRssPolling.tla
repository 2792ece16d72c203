---------------------------- MODULE MCRssPolling ----------------------------
(* Instances of RssPolling.  part says what a behaviour is about: "edits",   *)
(* where folders are edited while polls of a feed with one entry go on, or   *)
(* "siblings", where nobody edits, and the feed has two entries whose parses *)
(* do not fail.  It is "whole" where neither is left out.                    *)
EXTENDS RssPolling, TLC

CONSTANTS l1, l2, f1, e1, w1, w2, g1, g2, b1, b2

VARIABLE part

MCGuidOf == [n \in Entries |-> IF n = 1 THEN g1 ELSE g2]

feedVars == <<part, vars>>

FeedInit ==
  /\ part \in {"edits", "siblings"} /\ Init
  /\ part = "siblings" => Cardinality(LiveLinks) = 1

FeedNext ==
  /\ UNCHANGED part /\ Next
  /\ part = "edits" => \A w \in Workers : item'[w][2] = Absent
  /\ part = "siblings" => UNCHANGED <<edit, folder>> /\ \A g \in Guids : content'[g].attempts = 0

FeedSpec == FeedInit /\ [][FeedNext]_feedVars

\* Neither restriction, for a smaller feed, and the fairness of RssPolling.
DeliverySpec ==
  /\ part = "whole" /\ Init
  /\ [][Next /\ UNCHANGED part]_feedVars
  /\ Fairness

Symmetric == Permutations(Workers) \union Permutations(Links) \union Permutations(Bodies)
=============================================================================
