---------------------------- MODULE MCKvsReader ----------------------------
(* The streams on which TLC checks KvsReader.                              *)
EXTENDS KvsReader

Cluster == <<ClusterBegins, ClusterEnds>>

Last1(token) == Tags("token" :> token)

Stream(items, ending) == [items |-> items, ending |-> ending]

\* One Cluster in each Segment, the token the last tag of its Segment.
GetMedia ==
  { \* Tags before and after the Cluster, inherited and overwritten.
    Stream(<<Segment("u1"), Tags("x" :> "1")>> \o Cluster \o <<Last1("1"),
             Segment("u1")>> \o Cluster \o <<Last1("2"),
             Segment("u2")>> \o Cluster, "clean"),
    \* No UUID, no token, and a tail that is cut.
    Stream(<<Segment("u1")>> \o Cluster \o <<Tags("x" :> "1"), Segment("none"), Tags("x" :> "2")>>
             \o Cluster \o <<Segment("u1"), Tags("token" :> "3"), ClusterBegins>>, "cut"),
    \* An in-band error, with more behind it.
    Stream(<<Segment("u1"), Tags("x" :> "1")>> \o Cluster \o <<Last1("1"),
             Segment("u1")>> \o Cluster \o <<Tags("error" :> "1"),
             Segment("u1")>> \o Cluster, "clean"),
    \* A connection that drops between two elements.
    Stream(<<Segment("u1"), Tags("x" :> "1")>> \o Cluster \o <<Last1("1"),
             Segment("u1"), Tags("x" :> "2")>> \o Cluster, "fails"),
    \* A Cluster of unknown size that the end of the input ends.
    Stream(<<Segment("u1"), Tags("x" :> "1"), ClusterBegins>>, "clean") }

\* Two Clusters in a Segment, and tags behind them: an error, in the other.
TwoClusters ==
  { Stream(<<Segment("u1"), Tags("x" :> "1")>> \o Cluster \o Cluster
             \o <<Tags(tag :> "1")>>, "clean") : tag \in {"error", "token"} }

\* The token arrives before another Tags element.
TokenBeforeTags ==
  { Stream(<<Segment("u1")>> \o Cluster \o <<Tags("token" :> "1"), Tags("x" :> "1"),
             Segment("u2")>> \o Cluster, "clean") }

AllStreams == GetMedia \cup TwoClusters \cup TokenBeforeTags

=============================================================================
