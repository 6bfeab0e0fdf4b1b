--------------------------- MODULE MCImageCatalog ---------------------------
(* ImageCatalog on a few calls, for TLC. *)
EXTENDS ImageCatalog

CONSTANTS u1, u2, u3, p1, p2, a, b

\* u3 carries a near duplicate of what u1 and u2 carry; the two requests carry both in
\* opposite orders, and p2 repeats one.
MCSent == [s \in Senders |->
             CASE s \in {u1, u2} -> <<a>>
               [] s = u3 -> <<b>>
               [] s = p1 -> <<b, a>>
               [] s = p2 -> <<a, b, a>>]
MCNear == {<<a, b>>, <<b, a>>}
MCFolderOf == [s \in Senders |-> "2026/01"]
MCLabelOf == [u \in Uploads |-> "good"]
=============================================================================
