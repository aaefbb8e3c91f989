----------------------------- MODULE MCFormation -----------------------------
(* Two StatefulSets of two pods on two hosts. *)
EXTENDS Formation, TLC

MCHost(a, b, c, d) ==
  (<<0, 0>> :> a) @@ (<<0, 1>> :> b) @@ (<<1, 0>> :> c) @@ (<<1, 1>> :> d)

\* Two hosts with the pods of a StatefulSet apart, and a StatefulSet whose
\* pods share a host.
MCHostMaps == {MCHost("a", "b", "b", "a"), MCHost("a", "b", "a", "a")}
=============================================================================
